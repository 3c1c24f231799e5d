--------------------------- MODULE MatlabSources ---------------------------
(* What is read out of the MATLAB files of a project: the role of a file,   *)
(* its functions with their lines, and which files it depends on.           *)
(*                                                                          *)
(* The files of a project are a sequence of [path, type], sorted by path; a *)
(* path is the sequence of its parts.  A line of MATLAB is a record [shape, *)
(* name]: the shape is what the block counting sees in it, the name is that *)
(* of the function a function line declares ("" if it cannot be read).      *)
EXTENDS Integers, FiniteSets, SequenceParts

MLineShapes ==
  {"", "function", " function", "classdef", "begin", "end", "other"}

FunctionShapes == {"function", " function"}
OpeningShapes == FunctionShapes \cup {"begin", "classdef"}

Role(lines) ==
  LET code == SelectSeq(lines, LAMBDA line : line.shape # "")
  IN  CASE code = <<>> -> "script"
        [] code # <<>> /\ Head(code).shape \in FunctionShapes -> "function"
        [] code # <<>> /\ Head(code).shape = "classdef" -> "class"
        [] OTHER -> "script"

(* The open blocks above a line and the function lines that start a         *)
(* function: those outside every block, and unindented ones that follow a   *)
(* function without an end.                                                 *)
IsStart(stack, line) ==
  /\ line.shape \in FunctionShapes
  /\ stack = <<>> \/ (stack = <<"function">> /\ line.shape = "function")

AfterLine(stack, line) ==
  CASE IsStart(stack, line) -> <<"function">>
    [] ~IsStart(stack, line) /\ line.shape \in FunctionShapes ->
         Append(stack, "function")
    [] line.shape \in OpeningShapes \ FunctionShapes -> Append(stack, line.shape)
    [] line.shape = "end" /\ stack # <<>> -> Front(stack)
    [] OTHER -> stack

Starts(lines) ==
  LET above[k \in 1..(Len(lines) + 1)] ==
        IF k = 1 THEN <<>> ELSE AfterLine(above[k - 1], lines[k - 1])
  IN  {k \in DOMAIN lines : IsStart(above[k], lines[k])}

(* A mutant: a function without an end is not stopped by the next one.      *)
FunctionLast_Unlimited(lines, start) ==
  LET count(shapes, to) ==
        Cardinality({i \in (start + 1)..to : lines[i].shape \in shapes})
      closed == {k \in (start + 1)..Len(lines) :
                   1 + count(OpeningShapes, k) - count({"end"}, k) <= 0}
  IN  IF closed = {} THEN Len(lines)
      ELSE CHOOSE k \in closed : \A n \in closed : k <= n

(* A function ends where its blocks balance, or before the next one.        *)
FunctionLast(lines, start) ==
  LET later == {k \in Starts(lines) : k > start}
      limit == IF later = {} THEN Len(lines)
               ELSE CHOOSE k \in start..Len(lines) :
                      k + 1 \in later /\ \A n \in later : k + 1 <= n
      count(shapes, to) ==
        Cardinality({i \in (start + 1)..to : lines[i].shape \in shapes})
      closed == {k \in (start + 1)..limit :
                   1 + count(OpeningShapes, k) - count({"end"}, k) <= 0}
  IN  IF closed = {} THEN limit
      ELSE CHOOSE k \in closed : \A n \in closed : k <= n

(* The functions of a file, in order, each with its lines.                  *)
FunctionsOf(lines) ==
  IF Role(lines) = "class" THEN <<>>
  ELSE LET named == {k \in Starts(lines) : lines[k].name # ""}
           order == Picked([k \in DOMAIN lines |-> k], named)
       IN  [i \in DOMAIN order |->
              [name |-> lines[order[i]].name, from |-> order[i],
               to |-> FunctionLast(lines, order[i])]]

(* A file of MATLAB code as parsed: what is read out of its lines is kept.  *)
ParsedCode(code) ==
  [lines |-> code.lines, parts |-> code.parts, functions |-> FunctionsOf(code.lines),
   calls |-> code.calls, loads |-> code.loads, sims |-> code.sims]

----------------------------------------------------------------------------
(* Dependencies.  A call names a function; a load or a Simulink call names  *)
(* a file of its type by its path or by its last part.                      *)

Targets(files, type, reference) ==
  {i \in DOMAIN files :
     /\ files[i].type = type
     /\ reference \in {files[i].path, <<Last(files[i].path)>>}}

(* Of the files a reference may mean, the first one in the order of paths.  *)
FirstTarget(files, type, reference) ==
  {files[i].path : i \in {k \in Targets(files, type, reference) :
                            \A n \in Targets(files, type, reference) : k <= n}}

Defining(code, name) ==
  {path \in DOMAIN code :
     \E i \in DOMAIN code[path].functions : code[path].functions[i].name = name}

Dependencies(files, code, path) ==
  ((UNION {Defining(code, name) : name \in code[path].calls})
     \cup (UNION {FirstTarget(files, ".mat", r) : r \in code[path].loads})
     \cup (UNION {FirstTarget(files, ".slx", r) : r \in code[path].sims}))
    \ {path}
=============================================================================
