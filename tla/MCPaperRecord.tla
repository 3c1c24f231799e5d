---------------------------- MODULE MCPaperRecord ----------------------------
(* The model-checked instance of PaperRecord: a parameter the document      *)
(* gives and one it misses; a rerun of the plan may find the missing one, a *)
(* reparse both, or give another value.                                     *)
(* Two requests edit, or edit and rerun, or one edits while a visitor       *)
(* reads.                                                                   *)
EXTENDS PaperQuestions
CONSTANTS given, missing, v1, v2, u1, a, b, v

Partial == [p \in Params |-> IF p = given THEN v1 ELSE Marker]
Whole == [p \in Params |-> v2]
Found == [p \in Params |-> IF p = given THEN v1 ELSE v2]
Generations == {Partial, Found, Whole}
MCSpecOf == [e \in Generations |-> IF e = Whole THEN "second" ELSE "first"]

Rows == <<given, missing>>

At1(locator) == [document |-> "DOC-001", locator |-> locator]
At2(locator) == [document |-> "DOC-002", locator |-> locator]
Evidence(source, kind, at, excerpt) ==
  [source |-> source, kind |-> kind, at |-> at, excerpt |-> excerpt]
FromDocument(kind, at) == Evidence("document_extracted", kind, at, TRUE)

MCOffered ==
  [e \in Generations |->
     IF e = Whole
     THEN [abstract |-> FALSE, equations |-> <<>>, figures |-> {}, evidence |-> <<>>,
           recommended |-> <<>>, stepped |-> <<>>, contested |-> FALSE]
     ELSE [abstract |-> TRUE, equations |-> <<At2("eq")>>, figures |-> {At1("fig")},
           evidence |-> <<FromDocument("section", At1("2")), FromDocument("figure", At1("fig"))>>,
           recommended |-> IF e = Found THEN <<>>
                           ELSE <<FromDocument("equation", At1("none")),
                                  Evidence("document_extracted", "section", At2("9"), FALSE)>>,
           stepped |-> <<Evidence("user_supplied", "fill", At1("2"), FALSE)>>,
           contested |-> TRUE]]

Cite(ids) == [kind |-> "answer", cites |-> ids]
Tune(directions, settles, evidence) ==
  [kind |-> "suggest", directions |-> directions, settles |-> settles, evidence |-> evidence]

MCReplies ==
  {[kind |-> "malformed", cites |-> <<>>], [kind |-> "out_of_scope", cites |-> <<>>],
   Cite(<<>>), Cite(<<1>>), Cite(<<2, 1, 2>>), Cite(<<4>>), Cite(<<9>>)}
    \cup {Tune({given}, FALSE, {Evidence("user_supplied", "correct", 1, FALSE)}),
          Tune({given}, FALSE, {FromDocument("section", At2("2"))}),
          Tune({given}, TRUE, {FromDocument("section", At1("2"))}),
          Tune({missing}, FALSE, {Evidence("user_supplied", "fill", missing, FALSE)}),
          Tune({}, FALSE, {FromDocument("equation", At1("eq"))})}

Edits == [requests |-> Requests, visitors |-> {},
          kinds |-> Kinds \ {"rerun"}, ids |-> MaxId, values |-> Values,
          extractions |-> {Partial, Whole}]
Reruns == [Edits EXCEPT !.values = {v1, v2, u1, Marker}, !.extractions = {Partial, Found}]
RerunsAmid(kinds) == [Reruns EXCEPT !.kinds = {"correct", "undo", "rerun"} \cup kinds]
Questions == [Edits EXCEPT !.requests = {a}, !.visitors = Visitors,
                           !.kinds = {"correct", "undo", "supply", "reparse"}, !.ids = 1,
                           !.values = {v1, v2, u1, Marker}, !.extractions = {Partial}]

\* Either request may be the one, so that the two stay interchangeable.
ByOne(l) == {[l EXCEPT !.requests = {r}] : r \in Requests}
MCWorkloads == {Edits, RerunsAmid({"supply"}), RerunsAmid({"regenerate"})} \cup ByOne(Questions)
                 \cup ByOne([Questions EXCEPT !.kinds = {"correct", "rerun"}])

AlikeRequests == Permutations(Requests)
=============================================================================
