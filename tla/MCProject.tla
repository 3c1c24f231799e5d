----------------------------- MODULE MCProject -----------------------------
(* The model-checked instance of ProjectService: many archives uploaded     *)
(* alone, and small projects for the requests.  An archive is named by the  *)
(* lines that are its content or by a word and a number.                    *)
EXTENDS ProjectService

Entry(path, type) ==
  [path |-> path, type |-> type, isDir |-> FALSE, form |-> "regular", fold |-> path,
   size |-> 1, actual |-> 1]

Line(shape, name) ==
  [shape |-> shape, name |-> IF shape = "other" THEN "" ELSE name]
Code(shapes) ==
  [lines |-> [i \in DOMAIN shapes |-> Line(shapes[i], <<"f", "g", "h", "f">>[i])], calls |-> {}, loads |-> {},
   sims |-> {}, parts |-> <<>>]

Block(sid, name, type, system) ==
  [sid |-> sid, name |-> name, family |-> name, type |-> type, params |-> {},
   system |-> system]
Wire(from, to) == [from |-> from, to |-> to]
System(blocks, lines) == [blocks |-> blocks, lines |-> lines]

Archive(entries, code, models, sources, broken) ==
  [entries |-> entries, code |-> code, models |-> models, sources |-> sources,
   broken |-> broken, lasts |-> TRUE]
None == <<>>
Empty(entries) == Archive(entries, None, None, None, FALSE)
Fleeting(a) == [a EXCEPT !.lasts = FALSE]

Numbered(word, list) ==
  [name \in {<<word, ToString(i)>> : i \in DOMAIN list} |->
     list[CHOOSE i \in DOMAIN list : ToString(i) = name[2]]]

Load(p, q, ls, rs, as, n) ==
  [archive |-> ("p" :> p @@ "q" :> q), learners |-> ls, readers |-> rs, askers |-> as,
   faults |-> n]

----------------------------------------------------------------------------
(* Archives that are refused for what they list or for what they hold.      *)
main == Entry(<<"main.m">>, ".m")
Listings ==
  <<<<>>, <<main, main>>, <<Entry(<<"a.exe">>, ".exe")>>,
      <<[main EXCEPT !.form = "encrypted"]>>, <<[main EXCEPT !.form = "link"]>>,
      <<[main EXCEPT !.size = 9]>>, <<[main EXCEPT !.actual = 2]>>,
      <<[main EXCEPT !.actual = 9]>>,
      <<[main EXCEPT !.size = 6], [Entry(<<"b.m">>, ".m") EXCEPT !.size = 6]>>,
      [i \in 1..9 |-> [Entry(<<ToString(i)>>, "") EXCEPT !.isDir = TRUE]],
      [i \in 1..9 |-> Entry(<<ToString(i)>>, ".m")],
      <<[Entry(<<"d">>, "") EXCEPT !.isDir = TRUE], Entry(<<"a.dat">>, ".dat"),
        Entry(<<"read.pdf">>, ".pdf")>>>>
Refused == Numbered("refused", [i \in DOMAIN Listings |-> Empty(Listings[i])])

(* MATLAB files of every arrangement of a few lines; a second file that may *)
(* hide the first one's path, and dependencies on data and models.          *)
FunctionFiles ==
  {shapes \in [1..4 -> {"function", " function", "begin", "end"}] :
     shapes[1] = "function" /\ "end" \in {shapes[i] : i \in 1..4}}
    \cup {<<"classdef", "function", "end", "end">>, <<"function", "classdef", "end", "end">>}

Functions ==
  [shapes \in FunctionFiles |->
     Fleeting(Archive(<<main>>, <<"main.m">> :> Code(shapes), None, None, FALSE))]

Part(number, params, blank, blocks) ==
  [title |-> [number |-> number, params |-> params], blank |-> blank, blocks |-> blocks]

Script(parts, broken) ==
  Archive(<<Entry(<<"data.mat">>, ".mat"), Entry(<<"init.m">>, ".m"),
             Entry(<<"lib", "init.m">>, ".m"), Entry(<<"m.slx">>, ".slx")>>,
     <<"init.m">> :> [Code(<<"", "other">>) EXCEPT !.loads = {<<"data.mat">>},
                        !.sims = {<<"m.slx">>}, !.parts = parts]
       @@ <<"lib", "init.m">> :> [Code(<<"function", "other">>) EXCEPT !.calls = {"f"}],
     <<"m.slx">> :> ("root" :> System(<<>>, {})), None, broken)

Scripts ==
  Numbered("script",
    <<Script(<<>>, TRUE), Script([i \in 1..4 |-> Part(i, FALSE, FALSE, 0)], FALSE),
      Script(<<Part(4, FALSE, FALSE, 2), Part(0, TRUE, FALSE, 2),
               Part(1, FALSE, TRUE, 0)>>, FALSE)>>)

(* Models: subsystems in subsystems, one inside itself, two of one name,    *)
(* copies of a block, blocks without an id or a name.                      *)
Systems(inner) ==
  ("root" :> System(<<Block("1", "Gain", "Gain", ""), Block("2", "Ctl", "SubSystem", "s1"),
                       Block("3", "Scope", "Scope", "")>>, {Wire("1", {"2", ""}), Wire("Ctl", {"3"})}))
     @@ ("s1" :> System(inner, {Wire("4", {"5"}), Wire("", {"4"})}))
     @@ ("s2" :> System(<<Block("7", "Out", "Outport", "")>>, {}))

Inner ==
  <<<<Block("4", "Gain", "Gain", ""), Block("5", "", "SubSystem", "s2")>>,
    <<Block("4", "Loop", "SubSystem", "s1"), Block("5", "Ctl", "SubSystem", "s2")>>,
    <<[Block("4", "k1", "Gain", "") EXCEPT !.family = "k"],
      [Block("5", "k2", "Gain", "") EXCEPT !.family = "k"],
      [Block("6", "k3", "Gain", "") EXCEPT !.family = "k"],
      Block("", "", "Gain", "s2")>>>>

Models ==
  Numbered("model", [i \in DOMAIN Inner |->
    Archive(<<Entry(<<"m.slx">>, ".slx")>>, None, <<"m.slx">> :> Systems(Inner[i]),
            None, FALSE)])

(* C files and headers of every arrangement of a few lines.                 *)
CFiles ==
  {l \in [1..3 -> {"/*", "/* */", "#include", "typedef {", "function {", "} ;"}] :
     {l[1], l[2], l[3]} \cap {"function {", "typedef {"} # {}}

Sources ==
  [lines \in CFiles |->
     Fleeting(Archive(<<Entry(<<"a.c">>, ".c"), Entry(<<"a.h">>, ".h"), main>>,
       <<"main.m">> :> Code(<<"other">>), None,
       <<"a.c">> :> (lines \o <<"variable", "{">>) @@ <<"a.h">> :> (<<"", "//">> \o lines), FALSE))]

OnlyC ==
  Numbered("c", <<Archive(<<Entry(<<"a.c">>, ".c")>>, None, None,
                          <<"a.c">> :> <<"function {", "}">>, FALSE)>>)

----------------------------------------------------------------------------
(* Two projects for the requests: in p there are two models of one name.    *)
mSlx == <<"m.slx">>
aSlx == <<"a", "m.slx">>
mM == <<"f.m">>
One(sid, name) == "root" :> System(<<Block(sid, name, "Gain", "")>>, {})

Small ==
  Archive(<<Entry(aSlx, ".slx"), Entry(mM, ".m"), Entry(mSlx, ".slx")>>,
          mM :> Code(<<"function", "end">>), aSlx :> One("1", "K") @@ mSlx :> One("2", "L"),
          None, FALSE)
Other ==
  Archive(<<Entry(<<"g.m">>, ".m"), Entry(<<"o.slx">>, ".slx")>>,
          <<"g.m">> :> Code(<<"function">>), <<"o.slx">> :> One("9", "Z"), None, FALSE)

small == <<"small">>
brief == <<"small", "brief">>
other == <<"other">>
MCArchives ==
  Refused @@ Functions @@ Scripts @@ Models @@ Sources @@ OnlyC
    @@ (small :> Small) @@ (brief :> Fleeting(Small)) @@ (other :> Fleeting(Other))

MCProjects == {"p", "q"}
MCSessions == {"s1", "s2"}
MCLearners == {"l1", "l2", "l3"}
MCReaders == {"r1", "r2"}
MCAskers == {"a1", "a2"}

MCTargets ==
  [f |-> FunctionNode(mM, "f"), model |-> FileNode("FILE_SLX", mSlx),
   gone |-> FunctionNode(mM, "gone")]
MCUnitKeys ==
  {<<"p", target, "beginner">> : target \in DOMAIN MCTargets}
    \cup {<<"p", "f", "normal">>, <<"p", "f", "advanced">>}

MCLimits == [entries |-> 8, files |-> 6, single |-> 8, total |-> 10]
MCListed == [files |-> 1, models |-> 1, blocks |-> 1]

Entry1(model, name) == [model |-> model, name |-> name, type |-> "Gain", parent |-> ""]
Ref(path, id) == [path |-> path, id |-> id, lines |-> <<>>]
MCReplies ==
  {Malformed,
   [files |-> <<mM, <<"x.m">>>>, models |-> <<mSlx>>, blocks |-> <<Entry1(mSlx, "L")>>,
    evidence |-> <<Ref(mM, "1")>>],
   [files |-> <<<<"g.m">>, mM>>, models |-> <<>>, blocks |-> <<>>, evidence |-> <<Ref(mM, "")>>],
   [files |-> <<mM>>, models |-> <<mM>>, blocks |-> <<>>, evidence |-> <<Ref(mM, "")>>],
   [files |-> <<mM>>, models |-> <<>>, blocks |-> <<Entry1(aSlx, "Z")>>,
    evidence |-> <<Ref(mM, "")>>],
   [files |-> <<mM>>, models |-> <<>>, blocks |-> <<Entry1(aSlx, "L")>>,
    evidence |-> <<Ref(mM, "9")>>]}

Alone ==
  {Load(a, NoArchive, None, None, None, 0) : a \in DOMAIN Functions \cup DOMAIN Sources}
    \cup {Load(a, NoArchive, None, None, None, 1) :
            a \in UNION {DOMAIN Refused, DOMAIN Scripts, DOMAIN Models, DOMAIN OnlyC}}

Beginner == <<"p", "f", "beginner">>
Normal == <<"p", "f", "normal">>
Model1 == <<"p", "model", "beginner">>
Teaching ==
  {Load(brief, NoArchive, ls[1], None, None, ls[2]) : ls \in
     {<<[l \in MCLearners |-> Beginner], 0>>,
      <<"l1" :> Beginner @@ "l2" :> Normal @@ "l3" :> Model1, 0>>,
      <<"l1" :> Beginner @@ "l2" :> Beginner, 1>>}}
    \cup {Load(small, NoArchive, "l1" :> key @@ "l2" :> key, None, None, 0) :
            key \in MCUnitKeys \ {Normal, Model1}}

Question(p, s) == [project |-> p, session |-> s]
Reading ==
  {Load(small, NoArchive, None, "r1" :> "p" @@ "r2" :> "p", None, 0),
   Load(small, NoArchive, None, "r1" :> "p", "a1" :> Question("p", "none"), 0),
   Load(small, NoArchive, None, "r1" :> "p", None, 1)}

Asking ==
  {Load(small, NoArchive, None, None, "a1" :> Question("p", "none"), 1),
   Load(small, NoArchive, None, None,
        "a1" :> Question("p", "none") @@ "a2" :> Question("p", "s1"), 0),
   Load(brief, other, None, None,
        "a1" :> Question("p", "none") @@ "a2" :> Question("q", "s1"), 0)}

MCWorkloads == Alone \cup Teaching \cup Reading \cup Asking

(* The models among these archives are as NodesAlwaysContained asks: a      *)
(* system is under a SubSystem block, or under one whose name none has.     *)
ASSUME SystemsStandOut == FilesStandOut
=============================================================================
