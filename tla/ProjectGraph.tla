---------------------------- MODULE ProjectGraph ----------------------------
(* The parsed models of a project and the graph built from it.              *)
(*                                                                          *)
(* The contents of a project are a record [files, code, models, sources]:   *)
(* the files as a sequence of [path, type], the MATLAB code by path as      *)
(* ParsedCode, the Simulink models by path as [blocks, lines, subsystems],  *)
(* and the lines of C files and headers by path.  A Simulink file is a      *)
(* function from the names of its systems to [blocks, lines]; a block is    *)
(* [sid, name, family, type, params, system], system being the name of the  *)
(* system under it ("" if it has none), a line is [from, to], to being the  *)
(* ends of all its branches ("" stands for an end that cannot be read).     *)
EXTENDS MatlabSources, TLC

(* Parsed files carry the path they were extracted to, the list of files    *)
(* the path inside the archive.                                             *)
Extracted(p, path) == <<"uploads", p>> \o path

PathsOf(contents, type) ==
  {contents.files[i].path :
     i \in {k \in DOMAIN contents.files : contents.files[k].type = type}}

----------------------------------------------------------------------------
(* The blocks of a model and the members of its subsystems, found by going  *)
(* down from the root system once into every system.                        *)

(* A nameless block goes by its id; a subsystem without either has a key.  *)
NameOf(block) == IF block.name = "" THEN block.sid ELSE block.name
KeyOf(block) == IF NameOf(block) = "" THEN "<unknown>" ELSE NameOf(block)

ParsedBlock(block, parent) ==
  [id |-> block.sid, name |-> NameOf(block),
   family |-> block.family, type |-> block.type, params |-> block.params,
   parent |-> parent]

(* A file has a root and finitely many systems, all of them named.          *)
IsSimulinkFile(systems) ==
  /\ "root" \in DOMAIN systems /\ "" \notin DOMAIN systems /\ IsFiniteSet(DOMAIN systems)
  /\ \A name \in DOMAIN systems : IsSequence(systems[name].blocks)

(* The names of its SubSystem blocks.  Simulink puts a system only under    *)
(* such a block; if another one had a system under it, or one without an    *)
(* id, which is not read, then no SubSystem block may go by the same name.  *)
RawBlocks(systems) == UNION {ToSet(systems[name].blocks) : name \in DOMAIN systems}
SubsystemNames(systems) ==
  {NameOf(b) : b \in {x \in RawBlocks(systems) : x.type = "SubSystem" /\ x.sid # ""}}
SubsystemsStandOut(systems) ==
  \A b \in {x \in RawBlocks(systems) : x.system \in DOMAIN systems} :
    (b.type = "SubSystem" /\ b.sid # "") \/ KeyOf(b) \notin SubsystemNames(systems)

BlocksIn(system, parent) ==
  LET read == Picked(system.blocks, {i \in DOMAIN system.blocks : system.blocks[i].sid # ""})
  IN  [i \in DOMAIN read |-> ParsedBlock(read[i], parent)]

LinesIn(system) ==
  {line \in UNION {{l.from} \X l.to : l \in system.lines} : "" \notin {line[1], line[2]}}

(* What is left to do is a list: to go down into the system under a block,  *)
(* or, when all below it has been read, to note the blocks found there.     *)
Down(block) == [key |-> KeyOf(block), system |-> block.system, from |-> 0]
Up(key, from) == [key |-> key, system |-> "", from |-> from]

Entered(systems, name, parent, walked) ==
  LET all == systems[name].blocks
      within == Picked(all, {i \in DOMAIN all : all[i].system \in DOMAIN systems})
  IN  [visited |-> walked.visited \cup {name},
       blocks |-> walked.blocks \o BlocksIn(systems[name], parent),
       lines |-> walked.lines \cup LinesIn(systems[name]),
       subsystems |-> walked.subsystems,
       todo |-> [i \in DOMAIN within |-> Down(within[i])] \o walked.todo]

WalkOn(systems, walked) ==
  LET next == Head(walked.todo)
      below == {walked.blocks[i].id : i \in (next.from + 1)..Len(walked.blocks)}
      noted == [key \in DOMAIN walked.subsystems \cup {next.key} |->
                  IF key = next.key THEN below ELSE walked.subsystems[key]]
      passed == [walked EXCEPT !.todo = <<Up(next.key, Len(walked.blocks))>> \o Tail(@)]
  IN  IF walked.todo = <<>> THEN walked
      ELSE IF next.system = "" THEN [walked EXCEPT !.todo = Tail(@), !.subsystems = noted]
      ELSE IF next.system \in walked.visited THEN passed
      ELSE Entered(systems, next.system, next.key, passed)

BlockPlaces(systems) ==
  UNION {{name} \X DOMAIN systems[name].blocks : name \in DOMAIN systems}

(* It goes down from every block at most once, and comes up again.          *)
Model(systems) ==
  LET nothing == [visited |-> {}, blocks |-> <<>>, lines |-> {}, subsystems |-> <<>>,
                  todo |-> <<>>]
      steps == 2 * Cardinality(BlockPlaces(systems))
      walk[k \in 0..steps] == IF k = 0 THEN Entered(systems, "root", "", nothing)
                              ELSE WalkOn(systems, walk[k - 1])
  IN  walk[steps]

BlocksOf(model) == {model.blocks[i] : i \in DOMAIN model.blocks}

----------------------------------------------------------------------------
(* Nodes. *)

FileNode(kind, path) == [type |-> kind, path |-> path, name |-> ""]
FunctionNode(path, name) == [type |-> "FUNCTION", path |-> path, name |-> name]
BlockNode(path, id) == [type |-> "BLOCK", path |-> path, name |-> id]
SubsystemNode(path, name) == [type |-> "SUBSYSTEM", path |-> path, name |-> name]

(* A block of type SubSystem is known by its name, any other by its id.     *)
NodeOfBlock(path, block) ==
  IF block.type = "SubSystem" THEN SubsystemNode(path, block.name)
  ELSE BlockNode(path, block.id)

CodeNodes(p, contents) ==
  UNION {{FileNode("FILE_M", Extracted(p, path))}
           \cup {FunctionNode(Extracted(p, path), f.name) :
                   f \in ToSet(contents.code[path].functions)} :
         path \in DOMAIN contents.code}

ModelNodes(p, contents) ==
  UNION {{FileNode("FILE_SLX", Extracted(p, path))}
           \cup {NodeOfBlock(Extracted(p, path), b) :
                   b \in BlocksOf(contents.models[path])}
           \cup {SubsystemNode(Extracted(p, path), name) :
                   name \in DOMAIN contents.models[path].subsystems} :
         path \in DOMAIN contents.models}

Nodes(p, contents) == CodeNodes(p, contents) \cup ModelNodes(p, contents)

(* A project of neither MATLAB nor Simulink files has no graph.             *)
HasGraph(contents) == contents.code # <<>> \/ contents.models # <<>>

----------------------------------------------------------------------------
(* Edges. *)

Edge(from, to, type) == [from |-> from, to |-> to, type |-> type]

(* The node a reference inside a model means: the block with that id, or    *)
(* else the first block with that name.                                     *)
Referenced(path, blocks, ref) ==
  LET byId == {i \in DOMAIN blocks : blocks[i].id = ref}
      byName == {i \in DOMAIN blocks : blocks[i].name = ref}
      meant == IF byId # {} THEN byId
               ELSE {i \in byName : \A n \in byName : i <= n}
  IN  {NodeOfBlock(path, blocks[i]) : i \in meant}

SignalEdges(path, model) ==
  UNION {{Edge(from, to, "SIGNAL_FLOWS") :
            from \in Referenced(path, model.blocks, line[1]),
            to \in Referenced(path, model.blocks, line[2])} : line \in model.lines}

BlockEdges(path, model, nodes) ==
  UNION {LET b == model.blocks[i]
             parent == IF b.parent = "" THEN FileNode("FILE_SLX", path)
                       ELSE SubsystemNode(path, b.parent)
         IN  {Edge(NodeOfBlock(path, b), n, "BELONGS_TO") : n \in nodes \cap {parent}} :
         i \in DOMAIN model.blocks}

(* A mutant: a system under a block that is not a SubSystem is put nowhere. *)
SubsystemEdges_MembersOnly(path, model) ==
  UNION {{Edge(child, SubsystemNode(path, name), "BELONGS_TO") :
            child \in UNION {Referenced(path, model.blocks, ref) :
                               ref \in model.subsystems[name]}} :
         name \in DOMAIN model.subsystems}

SubsystemEdges(path, model) ==
  LET named == {model.blocks[i].name :
                  i \in {k \in DOMAIN model.blocks :
                           model.blocks[k].type = "SubSystem"}}
  IN  UNION {{Edge(SubsystemNode(path, name), FileNode("FILE_SLX", path),
                   "BELONGS_TO") : n \in {name} \ named}
               \cup {Edge(child, SubsystemNode(path, name), "BELONGS_TO") :
                       child \in UNION {Referenced(path, model.blocks, ref) :
                                          ref \in model.subsystems[name]}} :
             name \in DOMAIN model.subsystems}

ModelEdges(p, contents) ==
  UNION {LET model == contents.models[path]
             at == Extracted(p, path)
         IN  SignalEdges(at, model)
               \cup BlockEdges(at, model, Nodes(p, contents))
               \cup SubsystemEdges(at, model) :
         path \in DOMAIN contents.models}

CodeEdges(p, contents) ==
  {Edge(n, FileNode("FILE_M", n.path), "BELONGS_TO") :
     n \in {k \in CodeNodes(p, contents) : k.type = "FUNCTION"}}

(* Dependencies name files by the path inside the archive, and the nodes    *)
(* they are looked up among carry the extracted path.                       *)
NodeOfFile(contents, path) ==
  FileNode(IF path \in PathsOf(contents, ".m") THEN "FILE_M"
           ELSE IF path \in PathsOf(contents, ".slx") THEN "FILE_SLX"
           ELSE "FILE_MAT", path)

DependencyEdges(p, contents) ==
  {e \in UNION {{Edge(NodeOfFile(contents, from), NodeOfFile(contents, to),
                      IF to \in PathsOf(contents, ".mat")
                      THEN "LOADS_DATA" ELSE "CALLS") :
                   to \in Dependencies(contents.files, contents.code, from)} :
                from \in DOMAIN contents.code} :
     {e.from, e.to} \subseteq Nodes(p, contents)}

Edges(p, contents) ==
  CodeEdges(p, contents) \cup ModelEdges(p, contents) \cup DependencyEdges(p, contents)

(* Where a reader may start: scripts, files named like a start file, files  *)
(* nothing depends on that depend on something, and models.                 *)
EntryPoints(p, contents, startNames) ==
  LET depends == [path \in DOMAIN contents.code |->
                    Dependencies(contents.files, contents.code, path)]
      roots == {path \in DOMAIN depends :
                  depends[path] # {} /\ \A other \in DOMAIN depends :
                                          path \notin depends[other]}
  IN  Nodes(p, contents) \cap
        ({FileNode("FILE_M", Extracted(p, path)) :
            path \in {k \in DOMAIN contents.code :
                        Last(k) \in startNames
                          \/ Role(contents.code[k].lines) = "script"}}
           \cup {NodeOfFile(contents, path) : path \in roots}
           \cup {FileNode("FILE_SLX", Extracted(p, path)) :
                   path \in DOMAIN contents.models})
=============================================================================
