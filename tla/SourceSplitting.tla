-------------------------- MODULE SourceSplitting --------------------------
(* How the sources of a project are cut into the sections that are indexed: *)
(* C files and headers line by line, MATLAB scripts by their %% markers.    *)
(* A line of C is one of a few shapes, told apart by what the regular       *)
(* expressions and the brace counting of the splitter see in it; "/* */" is   *)
(* any line that ends a comment.                                            *)
EXTENDS Integers, FiniteSets, SequenceParts

CLineShapes ==
  {"", "/*", "/* */", "//", "#include", "#define", "typedef {", "typedef ;",
   "function", "function {", "{", "}", "} ;", "variable", "other"}

Preprocessor == {"#include", "#define"}
Opening == {"typedef {", "function {", "{"}
Closing == {"}", "} ;"}
WithSemicolon == {"typedef ;", "} ;", "variable"}

(* The depth of the braces after lines from..to, starting at none.          *)
Depth(lines, from, to) ==
  Cardinality({i \in from..to : lines[i] \in Opening})
    - Cardinality({i \in from..to : lines[i] \in Closing})

OpenedIn(lines, from, to) == \E i \in from..to : lines[i] \in Opening

(* The first line of S, or the last line of the file if S is empty.         *)
FirstOrLast(lines, S) ==
  IF S = {} THEN Len(lines) ELSE CHOOSE i \in S : \A j \in S : i <= j

(* The last line of the run of lines in `shapes' that starts at k.          *)
RunEnd(lines, k, shapes) ==
  CHOOSE e \in k..Len(lines) :
    /\ \A i \in (k + 1)..e : lines[i] \in shapes
    /\ e = Len(lines) \/ lines[e + 1] \notin shapes

TypedefEnd(lines, k) ==
  FirstOrLast(lines, {i \in k..Len(lines) :
    /\ lines[i] \in WithSemicolon
    /\ OpenedIn(lines, k, i) => Depth(lines, k, i) <= 0})

FunctionEnd(lines, k) ==
  FirstOrLast(lines,
    {i \in k..Len(lines) : OpenedIn(lines, k, i) /\ Depth(lines, k, i) <= 0})

Section(kind, from, to) == [kind |-> kind, from |-> from, to |-> to]

(* The section that starts at line k, if the line starts one.               *)
SectionAt(lines, k) ==
  CASE lines[k] \in Preprocessor ->
         LET end == RunEnd(lines, k, Preprocessor)
         IN  Section(IF \E i \in k..end : lines[i] = "#define"
                     THEN "define_block" ELSE "preprocessor_block", k, end)
    [] lines[k] \in {"typedef {", "typedef ;"} ->
         Section("typedef_block", k, TypedefEnd(lines, k))
    [] lines[k] \in {"function", "function {"} ->
         Section("function_body", k, FunctionEnd(lines, k))
    [] lines[k] = "variable" ->
         Section("global_var_block", k, RunEnd(lines, k, {"variable"}))
    [] OTHER -> Section("none", k, k)

(* A comment at the top of the file, after blank lines.                     *)
HeaderComment(lines) ==
  LET first == FirstOrLast(lines, {i \in 1..Len(lines) : lines[i] # ""})
  IN  CASE lines = <<>> -> Section("none", 1, 0)
        [] lines # <<>> /\ lines[first] \in {"/*", "/* */"} ->
             Section("header_comment", first,
                     FirstOrLast(lines, {i \in first..Len(lines) : lines[i] = "/* */"}))
        [] lines # <<>> /\ lines[first] = "//" ->
             Section("header_comment", first, RunEnd(lines, first, {"//"}))
        [] OTHER -> Section("none", 1, 0)

Opens(lines, k) == SectionAt(lines, k).kind # "none"

(* The last line of what is cut out before line k + 1; sections that open   *)
(* inside it are not cut out.                                               *)
Reach(lines) ==
  LET reach[k \in 0..Len(lines)] ==
        IF k = 0 THEN HeaderComment(lines).to
        ELSE IF reach[k - 1] < k /\ Opens(lines, k) THEN SectionAt(lines, k).to
        ELSE reach[k - 1]
  IN  reach

SectionStarts(lines) == {k \in DOMAIN lines : Reach(lines)[k - 1] < k /\ Opens(lines, k)}

SplitC(lines) ==
  LET head == HeaderComment(lines)
  IN  (IF head.kind = "none" THEN <<>> ELSE <<head>>)
        \o Picked([k \in DOMAIN lines |-> SectionAt(lines, k)], SectionStarts(lines))

(* A header is one section unless it is long and has sections of its own.   *)
SplitH(lines, short) ==
  IF short \/ SplitC(lines) = <<>>
  THEN <<Section("preprocessor_block", 1, IF lines = <<>> THEN 1 ELSE Len(lines))>>
  ELSE SplitC(lines)

----------------------------------------------------------------------------
(* A script comes as the parts between its %% markers: the number its title *)
(* starts with (0: none), whether the title names block parameters, whether *)
(* the part is blank and how many "% Block:" headers it has.                *)

IsBlockParameters(title) == title.params \/ title.number = 4

(* One part per block; a numbered title keeps its number only.              *)
SplitBlockParams(part) ==
  IF part.blocks <= 1 THEN <<part.title>>
  ELSE [i \in 1..part.blocks |->
          IF part.title.number = 0 THEN part.title
          ELSE [part.title EXCEPT !.params = FALSE]]

Merged == [number |-> 0, params |-> FALSE]

SplitScript(parts, maxSections) ==
  LET kept == Picked(parts, {i \in DOMAIN parts : ~parts[i].blank})
      titles == FlattenSeq([i \in DOMAIN kept |-> SplitBlockParams(kept[i])])
  IN  IF Len(titles) <= maxSections THEN titles
      ELSE SubSeq(titles, 1, maxSections - 1) \o <<Merged>>
=============================================================================
