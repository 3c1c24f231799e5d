---------------------------- MODULE ProjectChunks ----------------------------
(* The chunks that are indexed for a project, from its contents.  A chunk   *)
(* is [id, kind, file, lines, block]: lines is <<>> or the first and the    *)
(* last line, block is the block it describes ([name |-> ""]: none).        *)
EXTENDS ProjectGraph, SourceSplitting

NoBlock == [name |-> ""]
NoPath == <<>>

Chunk(kind, file, part, lines, block) ==
  [id |-> <<kind, file, part>>, kind |-> kind, file |-> file,
   lines |-> lines, block |-> block]

OverviewChunk == Chunk("project_overview", <<"__project_overview__">>, "", <<>>, NoBlock)

(* The listed file an extracted path stands for: the one it equals, or else *)
(* the only one it ends with.                                               *)
PathMatches(raw, files) ==
  LET paths == {files[i].path : i \in DOMAIN files}
  IN  IF raw \in paths THEN {raw}
      ELSE {path \in paths : path # raw /\ IsSuffix(path, raw)}

PublicPath(raw, files) ==
  IF Cardinality(PathMatches(raw, files)) = 1
  THEN CHOOSE path \in PathMatches(raw, files) : TRUE
  ELSE NoPath

(* The files of a type, in order, that are known by a public path.          *)
Published(p, contents, type) ==
  Picked(contents.files,
         {i \in DOMAIN contents.files :
            /\ contents.files[i].type = type
            /\ PublicPath(Extracted(p, contents.files[i].path), contents.files) # NoPath})

Named(p, contents, file) == PublicPath(Extracted(p, file.path), contents.files)

----------------------------------------------------------------------------
(* MATLAB files: one for the file, one per function, and for a file without *)
(* functions one per section that is not a list of block parameters.        *)

FileDrafts(p, contents) ==
  LET files == Published(p, contents, ".m")
  IN  [n \in DOMAIN files |->
         Chunk("m_file", Named(p, contents, files[n]), "", <<>>, NoBlock)]

FunctionChunks(path, code) ==
  [i \in DOMAIN code.functions |->
     Chunk("m_function", path, code.functions[i].name,
           <<code.functions[i].from, code.functions[i].to>>, NoBlock)]

FunctionDrafts(p, contents) ==
  LET files == Published(p, contents, ".m")
  IN  FlattenSeq([n \in DOMAIN files |->
        FunctionChunks(Named(p, contents, files[n]), contents.code[files[n].path])])

SectionChunks(path, code, maxSections) ==
  LET titles == SplitScript(code.parts, maxSections)
      kept == Picked([i \in DOMAIN titles |-> i],
                     {i \in DOMAIN titles : ~IsBlockParameters(titles[i])})
  IN  IF code.functions # <<>> THEN <<>>
      ELSE [i \in DOMAIN kept |-> Chunk("m_file", path, ToString(kept[i]), <<>>, NoBlock)]

SectionDrafts(p, contents, maxSections) ==
  LET files == Published(p, contents, ".m")
  IN  FlattenSeq([n \in DOMAIN files |->
        SectionChunks(Named(p, contents, files[n]), contents.code[files[n].path],
                      maxSections)])

----------------------------------------------------------------------------
(* Simulink files. *)

DropBlockTypes == {"Scope", "Clock", "From", "Goto", "Mux", "Demux", "Display"}

(* What a block is set to: its type is always among its parameters.         *)
Meaningful(block) == {<<"BlockType", block.type>>} \cup block.params

(* Three or more blocks that differ in nothing but the number at the end of *)
(* their names are indexed once.                                            *)
GroupOf(block) == <<block.parent, block.type, Meaningful(block)>>

IsCopy(blocks, i) ==
  LET group == {k \in DOMAIN blocks : GroupOf(blocks[k]) = GroupOf(blocks[i])}
  IN  /\ Cardinality(group) >= 3
      /\ \A k \in group : blocks[k].family = blocks[i].family
      /\ \E k \in group : k < i

BlockChunks(path, model) ==
  LET all == model.blocks
      told == Picked(all, {i \in DOMAIN all : all[i].type \notin DropBlockTypes
                                                /\ Meaningful(all[i]) # {}})
      kept == Picked(told, {i \in DOMAIN told : ~IsCopy(told, i)})
  IN  [i \in DOMAIN kept |->
         Chunk("slx_block", path, kept[i].id, <<>>,
               [name |-> kept[i].name, type |-> kept[i].type, parent |-> kept[i].parent])]

BlockDrafts(p, contents) ==
  LET files == Published(p, contents, ".slx")
  IN  FlattenSeq([n \in DOMAIN files |->
        BlockChunks(Named(p, contents, files[n]), contents.models[files[n].path])])

SubsystemChunks(path, model) ==
  LET names == SetToSeq(DOMAIN model.subsystems)
  IN  [i \in DOMAIN names |->
         Chunk("slx_subsystem", path, names[i], <<>>,
               [name |-> names[i], type |-> "Subsystem", parent |-> ""])]

SubsystemDrafts(p, contents) ==
  LET files == Published(p, contents, ".slx")
  IN  FlattenSeq([n \in DOMAIN files |->
        SubsystemChunks(Named(p, contents, files[n]), contents.models[files[n].path])])

----------------------------------------------------------------------------
(* C files and headers are read again from the directory of the project.    *)

SourceChunks(kind, path, sections) ==
  [i \in DOMAIN sections |->
     Chunk(kind, path, ToString(i), <<sections[i].from, sections[i].to>>, NoBlock)]

SourceDrafts(contents, type, kind, split) ==
  LET files == Picked(contents.files, {i \in DOMAIN contents.files :
                                         contents.files[i].type = type})
  IN  FlattenSeq([n \in DOMAIN files |->
        SourceChunks(kind, files[n].path, split[files[n].path])])

HasChunkInputs(contents) ==
  HasGraph(contents) \/ PathsOf(contents, ".c") \cup PathsOf(contents, ".h") # {}

Drafts(p, contents, onDisk, maxSections, short) ==
  FileDrafts(p, contents) \o FunctionDrafts(p, contents)
    \o SectionDrafts(p, contents, maxSections)
    \o BlockDrafts(p, contents) \o SubsystemDrafts(p, contents)
    \o (IF ~onDisk THEN <<>>
        ELSE SourceDrafts(contents, ".c", "c_file",
                          [path \in DOMAIN contents.sources |->
                             SplitC(contents.sources[path])])
               \o SourceDrafts(contents, ".h", "h_file",
                    [path \in DOMAIN contents.sources |->
                       SplitH(contents.sources[path],
                              Len(contents.sources[path]) <= short)]))

UniqueIds(drafts) ==
  \A i, k \in DOMAIN drafts : drafts[i].id = drafts[k].id => i = k
=============================================================================
