------------------------ MODULE KnowledgeIndexProofs ------------------------
(* Proofs about KnowledgeIndex, for every value of its constants.            *)
EXTENDS KnowledgeIndex, TLAPS, FiniteSetTheorems
-----------------------------------------------------------------------------
(* Types.                                                                    *)

\* A new chunk, a new database and a new command are of their types.
LEMMA NewTypes ==
  /\ NoRow \in Chunk
  /\ \A c \in Contents : NewRow(c) \in Chunk
  /\ \A c \in Contents : RowsOf(c) \in [Ranges -> Chunk]
  /\ NoRows \in [Ranges -> Chunk]
  /\ \A s \in Schemas : EmptyDb(s) \in DbFile
  /\ NewCommand \in Memory
<1>1. NoRow \in Chunk /\ \A c \in Contents : NewRow(c) \in Chunk
  BY DEF NoRow, NewRow, Chunk, Hash
<1>2. NoRows \in [Ranges -> Chunk] /\ \A c \in Contents : RowsOf(c) \in [Ranges -> Chunk]
  BY <1>1 DEF NoRows, RowsOf
<1>3. \A s \in Schemas : EmptyDb(s) \in DbFile
  BY <1>2 DEF EmptyDb, DbFile, Hash
<1>4. NewCommand \in Memory
  BY BoundsAssumption DEF NewCommand, Memory, JobKind, Steps, Opening, NoDb, Hash, Schemas
<1>5. QED
  BY <1>1, <1>2, <1>3, <1>4

\* A command that works has a database, one that replaces chunks a document.
LEMMA Working ==
  ASSUME TypeOK, NEW p \in Commands, CommandOK(p)
  PROVE  /\ cmd[p] \in Memory
         /\ cmd[p].pc \notin Opening => cmd[p].db \in 1 .. MaxDbs
         /\ cmd[p].pc \in Replacement => cmd[p].file \in Files /\ cmd[p].text \in Contents
<1>1. cmd[p] \in Memory
  BY DEF TypeOK
<1>2. cmd[p].pc \notin Opening => cmd[p].db \in 1 .. MaxDbs
  BY <1>1, BoundsAssumption DEF CommandOK, Memory, NoDb
<1>3. cmd[p].pc \in Replacement => cmd[p].file \in Files /\ cmd[p].text \in Contents
  BY <1>1 DEF CommandOK, Memory, Hash
<1>4. QED
  BY <1>1, <1>2, <1>3

\* Only a command that works is halfway with documents.
LEMMA HalfwayType ==
  ASSUME TypeOK, NEW p \in Commands, CommandOK(p)
  PROVE  /\ Halfway(p) \subseteq Files
         /\ Halfway(p) # {} => /\ cmd[p].db \in 1 .. MaxDbs
                              /\ cmd[p].pc \in {"upsert", "hash", "unhash"}
<1>1. cmd[p].stale \subseteq Files
  BY Working DEF Memory
<1>2. CASE cmd[p].pc \in {"upsert", "hash"}
  BY <1>2, Working DEF Halfway, Opening, Replacement
<1>3. CASE cmd[p].pc = "unhash"
  BY <1>1, <1>3, Working DEF Halfway, Opening
<1>4. CASE cmd[p].pc \notin {"upsert", "hash", "unhash"}
  BY <1>4 DEF Halfway
<1>5. QED
  BY <1>2, <1>3, <1>4

\* Interrupting a command leaves database files.
LEMMA InterruptedType ==
  ASSUME TypeOK, NEW p \in Commands, CommandOK(p)
  PROVE  Interrupted(p) \in [1 .. MaxDbs -> DbFile]
<1>1. CASE Halfway(p) # {}
  <2>1. cmd[p].db \in 1 .. MaxDbs /\ Halfway(p) \subseteq Files
    BY <1>1, HalfwayType
  <2>2. PICK d \in DbFile, half \in SUBSET Files : d = dbs[cmd[p].db] /\ half = Halfway(p)
    BY <2>1 DEF TypeOK
  <2>3. [d EXCEPT !.broken = @ \cup half] \in DbFile
    BY DEF DbFile
  <2>4. dbs \in [1 .. MaxDbs -> DbFile]
    BY DEF TypeOK
  <2>5. QED
    BY <1>1, <2>1, <2>2, <2>3, <2>4 DEF Interrupted
<1>2. CASE Halfway(p) = {}
  BY <1>2 DEF Interrupted, TypeOK
<1>3. QED
  BY <1>1, <1>2

\* So does ending it.
LEMMA EndedType ==
  ASSUME TypeOK, NEW p \in Commands, NEW files \in [1 .. MaxDbs -> DbFile],
         Ended(p, files)
  PROVE  dbs' \in [1 .. MaxDbs -> DbFile] /\ cmd' \in [Commands -> Memory]
BY NewTypes DEF Ended, TypeOK, Schemas, NewCommand, Memory, Steps, Opening

\* A command that only changes its program counter keeps its shape.
LEMMA GotoType ==
  ASSUME TypeOK, NEW p \in Commands, NEW pc \in Steps, Goto(p, pc)
  PROVE  cmd' \in [Commands -> Memory]
<1>1. cmd \in [Commands -> Memory] /\ cmd[p] \in Memory
  BY DEF TypeOK
<1>2. QED
  BY <1>1 DEF Goto, Memory

\* The variables keep their shapes.
Shapes ==
  /\ docs \in [Files -> Hash]
  /\ dbs \in [1 .. MaxDbs -> DbFile]
  /\ path \in 0 .. MaxDbs
  /\ cmd \in [Commands -> Memory]
  /\ lock \in Commands \cup {Nobody}
  /\ left \in 0 .. MaxFailures

\* Opening the database keeps every type.
LEMMA OpenShapes ==
  ASSUME TypeOK, NEW p \in Commands,
         Begin(p) \/ Lock(p) \/ RemoveDb(p) \/ OpenDb(p)
  PROVE  Shapes'
<1>0. Shapes /\ cmd[p] \in Memory
  BY DEF Shapes, TypeOK
<1>c. cmd \in [Commands -> Memory] /\ cmd[p] \in Memory
  BY DEF TypeOK
<1>d. dbs \in [1 .. MaxDbs -> DbFile]
  BY DEF TypeOK
<1>1. CASE Begin(p)
  <2>1. PICK j \in Jobs : cmd' = [cmd EXCEPT ![p].pc = "lock", ![p].job = j]
    BY <1>1 DEF Begin
  <2>2. cmd' \in [Commands -> Memory]
    <3>1. PICK m \in Memory : m = cmd[p]
      BY <1>c
    <3>2. [m EXCEPT !.pc = "lock", !.job = j] \in Memory
      BY JobsAssumption DEF Memory, Steps, Opening
    <3>3. QED
      BY <1>c, <2>1, <3>1, <3>2
  <2>3. QED
    BY <1>0, <1>1, <2>2 DEF Shapes, Begin, DbUnchanged
<1>2. CASE Lock(p)
  <2>1. PICK unread \in BOOLEAN, pc \in {"remove", "open"} :
          /\ unread => left > 0
          /\ left' = IF unread THEN left - 1 ELSE left
          /\ cmd' = [cmd EXCEPT ![p].pc = pc, ![p].unread = unread]
    BY <1>2 DEF Lock, Checks
  <2>2. cmd' \in [Commands -> Memory]
    <3>1. PICK m \in Memory : m = cmd[p]
      BY <1>c
    <3>2. [m EXCEPT !.pc = pc, !.unread = unread] \in Memory
      BY DEF Memory, Steps, Opening
    <3>3. QED
      BY <1>c, <2>1, <3>1, <3>2
  <2>3. left' \in 0 .. MaxFailures
    BY <1>0, <2>1, BoundsAssumption DEF Shapes
  <2>4. QED
    BY <1>0, <1>2, <2>2, <2>3 DEF Shapes, Lock, DbUnchanged
<1>3. CASE RemoveDb(p)
  BY <1>0, <1>3, GotoType, NewTypes, BoundsAssumption
  DEF Shapes, RemoveDb, NoDb, Schemas, Steps, Opening
<1>4. CASE OpenDb(p)
  <2>1. PICK d \in 1 .. MaxDbs :
          /\ dbs' = [dbs EXCEPT ![d].schema = cmd[p].job.schema]
          /\ path' = d
          /\ cmd' = [cmd EXCEPT ![p].pc = "start", ![p].db = d]
    BY <1>4 DEF OpenDb
  <2>2. cmd[p].job.schema \in Schemas
    BY <1>c DEF Memory, JobKind
  <2>3. dbs' \in [1 .. MaxDbs -> DbFile]
    BY <1>d, <2>1, <2>2 DEF DbFile
  <2>4. d \in 0 .. MaxDbs
    BY BoundsAssumption
  <2>5. cmd' \in [Commands -> Memory]
    <3>1. PICK m \in Memory : m = cmd[p]
      BY <1>c
    <3>2. [m EXCEPT !.pc = "start", !.db = d] \in Memory
      BY <2>4 DEF Memory, Steps
    <3>3. QED
      BY <1>c, <2>1, <3>1, <3>2
  <2>6. QED
    BY <1>0, <1>4, <2>1, <2>3, <2>4, <2>5 DEF Shapes, OpenDb
<1>5. QED
  BY <1>1, <1>2, <1>3, <1>4

\* Indexing a document keeps every type.
LEMMA IndexShapes ==
  ASSUME TypeOK, NEW p \in Commands, CommandOK(p),
         \/ Walk(p)
         \/ \E f \in Files : ReadError(p, f) \/ Unchanged(p, f) \/ ReadDoc(p, f)
         \/ DeleteChunks(p) \/ UpsertChunks(p) \/ SetFileHash(p)
         \/ TransactionFails(p) \/ Indexed(p)
  PROVE  Shapes'
<1>0. Shapes /\ cmd[p] \in Memory
  BY DEF Shapes, TypeOK
<1>c. cmd \in [Commands -> Memory] /\ cmd[p] \in Memory
  BY DEF TypeOK
<1>d. dbs \in [1 .. MaxDbs -> DbFile]
  BY DEF TypeOK
<1>n. NextFile(p) \in [Commands -> Memory]
  <2>1. PICK m \in Memory : m = cmd[p]
    BY <1>c
  <2>2. [m EXCEPT !.pc = "file", !.file = "none", !.text = Absent] \in Memory
    BY DEF Memory, Steps, Hash
  <2>3. QED
    BY <1>c, <2>1, <2>2 DEF NextFile
<1>1. CASE Walk(p)
  <2>1. cmd[p].db \in 1 .. MaxDbs
    BY <1>1, Working DEF Walk, Opening
  <2>2. PICK found \in SUBSET Files :
          /\ cmd' = [cmd EXCEPT ![p].pc = "file", ![p].walked = found,
                                ![p].todo = found]
          /\ dbs' = [dbs EXCEPT ![cmd[p].db].raced =
                       @ \cup {g \in Files \ found : Replacing(cmd[p].db, g) # {}}]
    BY <1>1 DEF Walk
  <2>3. cmd' \in [Commands -> Memory]
    <3>1. PICK m \in Memory : m = cmd[p]
      BY <1>c
    <3>2. [m EXCEPT !.pc = "file", !.walked = found, !.todo = found] \in Memory
      BY DEF Memory, Steps
    <3>3. QED
      BY <1>c, <2>2, <3>1, <3>2
  <2>4. dbs' \in [1 .. MaxDbs -> DbFile]
    <3>1. PICK d \in DbFile : d = dbs[cmd[p].db]
      BY <1>d, <2>1
    <3>2. PICK more \in SUBSET Files : dbs' = [dbs EXCEPT ![cmd[p].db].raced = @ \cup more]
      BY <2>2
    <3>3. [d EXCEPT !.raced = @ \cup more] \in DbFile
      BY DEF DbFile
    <3>4. QED
      BY <1>d, <2>1, <3>1, <3>2, <3>3
  <2>5. QED
    BY <1>0, <1>1, <2>3, <2>4 DEF Shapes, Walk
<1>2. ASSUME NEW f \in Files, ReadError(p, f) \/ Unchanged(p, f)
      PROVE  Shapes'
  <2>1. PICK todo \in SUBSET Files : cmd' = [cmd EXCEPT ![p].todo = todo]
    BY <1>0, <1>2 DEF ReadError, Unchanged, Memory
  <2>2. cmd' \in [Commands -> Memory]
    BY <1>c, <2>1 DEF Memory
  <2>3. QED
    BY <1>0, <1>2, <2>2 DEF Shapes, ReadError, Unchanged, DbUnchanged
<1>3. ASSUME NEW f \in Files, ReadDoc(p, f)
      PROVE  Shapes'
  <2>1. cmd[p].db \in 1 .. MaxDbs
    BY <1>3, Working DEF ReadDoc, Opening
  <2>2. PICK todo \in SUBSET Files :
          cmd' = [cmd EXCEPT ![p].pc = "delete", ![p].todo = todo,
                             ![p].file = f, ![p].text = docs[f]]
    BY <1>0, <1>3 DEF ReadDoc, Memory
  <2>3. docs[f] \in Hash
    BY <1>0 DEF Shapes
  <2>4. cmd' \in [Commands -> Memory]
    <3>1. PICK m \in Memory, text \in Hash : m = cmd[p] /\ text = docs[f]
      BY <1>c, <2>3
    <3>2. [m EXCEPT !.pc = "delete", !.todo = todo, !.file = f, !.text = text] \in Memory
      BY DEF Memory, Steps, Replacement
    <3>3. QED
      BY <1>c, <2>2, <3>1, <3>2
  <2>5. dbs' \in [1 .. MaxDbs -> DbFile]
    <3>1. PICK d \in DbFile : d = dbs[cmd[p].db]
      BY <1>d, <2>1
    <3>2. PICK raced \in SUBSET Files, back \in SUBSET Files :
            dbs' = [dbs EXCEPT ![cmd[p].db].back = back, ![cmd[p].db].raced = raced]
      <4>1. dbs[cmd[p].db].back \in SUBSET Files /\ dbs[cmd[p].db].raced \in SUBSET Files
        BY <3>1 DEF DbFile
      <4>2. DEFINE old == dbs[cmd[p].db]
                   back == IF Db(p).meta[f] = docs[f] THEN old.back \cup {f}
                           ELSE old.back \ {f}
                   raced == IF Replacing(cmd[p].db, f) = {} THEN old.raced
                            ELSE old.raced \cup {f}
      <4>3. back \in SUBSET Files /\ raced \in SUBSET Files
        BY <4>1
      <4>4. dbs' = [dbs EXCEPT ![cmd[p].db].back = back, ![cmd[p].db].raced = raced]
        BY <1>3, <1>d, <2>1, <3>1 DEF ReadDoc, DbFile
      <4>5. QED
        BY <4>3, <4>4
    <3>3. [d EXCEPT !.back = back, !.raced = raced] \in DbFile
      BY DEF DbFile
    <3>4. QED
      BY <1>d, <2>1, <3>1, <3>2, <3>3
  <2>6. QED
    BY <1>0, <1>3, <2>4, <2>5 DEF Shapes, ReadDoc
<1>4. CASE DeleteChunks(p)
  <2>1. cmd[p].db \in 1 .. MaxDbs /\ cmd[p].file \in Files
    BY <1>4, Working DEF DeleteChunks, Opening, Replacement
  <2>0. PICK rows \in [Ranges -> Chunk] :
          dbs' = [dbs EXCEPT ![cmd[p].db].rows[cmd[p].file] = rows]
    BY <1>4, NewTypes DEF DeleteChunks
  <2>2. dbs' \in [1 .. MaxDbs -> DbFile]
    BY <1>d, <2>0, <2>1 DEF DbFile
  <2>3. QED
    BY <1>0, <1>4, <2>2, GotoType DEF Shapes, DeleteChunks, Steps, Replacement
<1>5. CASE UpsertChunks(p)
  <2>1. cmd[p].db \in 1 .. MaxDbs /\ cmd[p].file \in Files /\ cmd[p].text \in Contents
    BY <1>5, Working DEF UpsertChunks, Opening, Replacement
  <2>2. PICK rows \in [Ranges -> Chunk] :
          dbs' = [dbs EXCEPT ![cmd[p].db].rows[cmd[p].file] = rows]
    <3>1. dbs[cmd[p].db].rows[cmd[p].file] \in [Ranges -> Chunk]
      BY <1>d, <2>1 DEF DbFile
    <3>2. RowsOf(cmd[p].text) \in [Ranges -> Chunk]
      BY <2>1, NewTypes
    <3>3. DEFINE old == dbs[cmd[p].db].rows[cmd[p].file]
                 new == RowsOf(cmd[p].text)
                 rows == [r \in Ranges |-> IF new[r] # NoRow THEN new[r] ELSE old[r]]
    <3>4. rows \in [Ranges -> Chunk]
      BY <3>1, <3>2
    <3>5. dbs' = [dbs EXCEPT ![cmd[p].db].rows[cmd[p].file] = rows]
      BY <1>5 DEF UpsertChunks
    <3>6. QED
      BY <3>4, <3>5
  <2>3. dbs' \in [1 .. MaxDbs -> DbFile]
    BY <1>d, <2>1, <2>2 DEF DbFile
  <2>4. QED
    BY <1>0, <1>5, <2>3, GotoType DEF Shapes, UpsertChunks, Steps, Replacement
<1>6. CASE SetFileHash(p)
  <2>1. cmd[p].db \in 1 .. MaxDbs /\ cmd[p].file \in Files /\ cmd[p].text \in Hash
    BY <1>6, Working DEF SetFileHash, Opening, Replacement, Hash
  <2>2. PICK broken \in SUBSET Files, meta \in [Files -> Hash] :
          dbs' = [dbs EXCEPT ![cmd[p].db].meta = meta, ![cmd[p].db].broken = broken]
    <3>1. dbs[cmd[p].db].meta \in [Files -> Hash] /\ dbs[cmd[p].db].broken \in SUBSET Files
      BY <1>d, <2>1 DEF DbFile
    <3>2. [dbs[cmd[p].db].meta EXCEPT ![cmd[p].file] = cmd[p].text] \in [Files -> Hash]
      BY <2>1, <3>1
    <3>3. QED
      BY <1>6, <3>1, <3>2 DEF SetFileHash
  <2>3. dbs' \in [1 .. MaxDbs -> DbFile]
    <3>1. PICK d \in DbFile : d = dbs[cmd[p].db]
      BY <1>d, <2>1
    <3>2. [d EXCEPT !.meta = meta, !.broken = broken] \in DbFile
      BY DEF DbFile
    <3>3. QED
      BY <1>d, <2>1, <2>2, <3>1, <3>2
  <2>4. QED
    BY <1>0, <1>6, <1>n, <2>3 DEF Shapes, SetFileHash
<1>7. CASE TransactionFails(p)
  BY <1>0, <1>7, <1>n, InterruptedType, BoundsAssumption DEF Shapes, TransactionFails
<1>8. CASE Indexed(p)
  BY <1>0, <1>8, GotoType DEF Shapes, Indexed, DbUnchanged, Steps
<1>9. QED
  BY <1>1, <1>2, <1>3, <1>4, <1>5, <1>6, <1>7, <1>8

\* Where a command goes after syncDeletedFiles.
LEMMA AfterIndexType ==
  ASSUME NEW p \in Commands
  PROVE  AfterIndex(p) \in {"query", "select", "done"}
BY DEF AfterIndex

\* Forgetting deleted documents keeps every type.
LEMMA SyncShapes ==
  ASSUME TypeOK, NEW p \in Commands, CommandOK(p),
         FindStale(p) \/ DeleteStale(p) \/ RemoveHashes(p)
  PROVE  Shapes'
<1>0. Shapes /\ cmd[p] \in Memory
  BY DEF Shapes, TypeOK
<1>c. cmd \in [Commands -> Memory] /\ cmd[p] \in Memory
  BY DEF TypeOK
<1>d. dbs \in [1 .. MaxDbs -> DbFile] /\ cmd[p].db \in 1 .. MaxDbs
  BY Working DEF TypeOK, FindStale, DeleteStale, RemoveHashes, Opening
<1>1. CASE FindStale(p)
  <2>1. PICK stale \in SUBSET Files, pc \in {"query", "select", "done", "unindex"} :
          cmd' = [cmd EXCEPT ![p].pc = pc, ![p].stale = stale]
    BY <1>1, AfterIndexType DEF FindStale
  <2>2. cmd' \in [Commands -> Memory]
    <3>1. PICK m \in Memory : m = cmd[p]
      BY <1>c
    <3>2. [m EXCEPT !.pc = pc, !.stale = stale] \in Memory
      BY DEF Memory, Steps
    <3>3. QED
      BY <1>c, <2>1, <3>1, <3>2
  <2>3. QED
    BY <1>0, <1>1, <2>2 DEF Shapes, FindStale, DbUnchanged
<1>2. CASE DeleteStale(p)
  <2>1. dbs[cmd[p].db] \in DbFile /\ dbs[cmd[p].db].rows \in [Files -> [Ranges -> Chunk]]
    BY <1>d DEF DbFile
  <2>2. PICK rows \in [Files -> [Ranges -> Chunk]] :
          dbs' = [dbs EXCEPT ![cmd[p].db].rows = rows]
    BY <1>2, <2>1, NewTypes DEF DeleteStale
  <2>3. dbs' \in [1 .. MaxDbs -> DbFile]
    BY <1>d, <2>1, <2>2 DEF DbFile
  <2>4. QED
    BY <1>0, <1>2, <2>3, GotoType DEF Shapes, DeleteStale, Steps
<1>3. CASE RemoveHashes(p)
  <2>1. /\ dbs[cmd[p].db].meta \in [Files -> Hash]
        /\ dbs[cmd[p].db].broken \in SUBSET Files
    BY <1>d DEF DbFile
  <2>2. PICK kept \in SUBSET cmd[p].stale :
          /\ Cardinality(kept) <= left
          /\ left' = left - Cardinality(kept)
          /\ dbs' = [dbs EXCEPT ![cmd[p].db].meta =
                                  [f \in Files |-> IF f \in cmd[p].stale \ kept
                                                     THEN Absent ELSE @[f]],
                                ![cmd[p].db].broken = @ \cup kept]
    BY <1>3 DEF RemoveHashes
  <2>5. kept \subseteq Files
    BY <1>c DEF Memory
  <2>3. PICK meta \in [Files -> Hash], broken \in SUBSET Files :
          dbs' = [dbs EXCEPT ![cmd[p].db].meta = meta, ![cmd[p].db].broken = broken]
    <3>1. DEFINE old == dbs[cmd[p].db]
                 meta == [f \in Files |-> IF f \in cmd[p].stale \ kept THEN Absent
                                          ELSE old.meta[f]]
                 broken == old.broken \cup kept
    <3>2. meta \in [Files -> Hash] /\ broken \in SUBSET Files
      BY <2>1, <2>5 DEF Hash
    <3>3. dbs' = [dbs EXCEPT ![cmd[p].db].meta = meta, ![cmd[p].db].broken = broken]
      BY <1>d, <2>2 DEF DbFile
    <3>4. QED
      BY <3>2, <3>3
  <2>4. dbs' \in [1 .. MaxDbs -> DbFile]
    <3>1. PICK d \in DbFile : d = dbs[cmd[p].db]
      BY <1>d
    <3>2. [d EXCEPT !.meta = meta, !.broken = broken] \in DbFile
      BY DEF DbFile
    <3>3. QED
      BY <1>d, <2>3, <3>1, <3>2
  <2>6. Cardinality(kept) \in Nat
    BY <2>5, FilesAssumption, FS_Subset, FS_CardinalityType
  <2>7. left' \in 0 .. MaxFailures
    BY <1>0, <2>2, <2>6, BoundsAssumption DEF Shapes
  <2>8. PICK pc \in Steps : cmd' = [cmd EXCEPT ![p].pc = pc, ![p].stale = {}]
    BY <1>3, AfterIndexType DEF RemoveHashes, Steps
  <2>9. cmd' \in [Commands -> Memory]
    BY <1>c, <2>8 DEF Memory
  <2>10. QED
    BY <1>0, <1>3, <2>4, <2>7, <2>9 DEF Shapes, RemoveHashes
<1>4. QED
  BY <1>1, <1>2, <1>3

\* What is read of the chunks of a database is of their types.
LEMMA ReadTypes ==
  ASSUME TypeOK, NEW p \in Commands, cmd[p].db \in 1 .. MaxDbs
  PROVE  /\ \A f \in Files : \A r \in Ranges : Row(p, f, r) \in Chunk
         /\ Chunks(cmd[p].db) \subseteq Files \X Ranges
         /\ Unembedded(p) \subseteq Files \X Ranges
<1>1. dbs[cmd[p].db] \in DbFile
  BY DEF TypeOK
<1>2. \A f \in Files : \A r \in Ranges : Row(p, f, r) \in Chunk
  BY <1>1 DEF Row, Db, DbFile
<1>3. QED
  BY <1>2 DEF Chunks, Unembedded

\* Embedding and searching keep every type.
LEMMA QueryShapes ==
  ASSUME TypeOK, NEW p \in Commands, CommandOK(p),
         SelectMissing(p) \/ EmbedBatch(p) \/ EmbedEnds(p) \/ ReadVectors(p) \/ Hydrate(p)
  PROVE  Shapes'
<1>0. Shapes
  BY DEF Shapes, TypeOK
<1>c. cmd \in [Commands -> Memory] /\ cmd[p] \in Memory
  BY DEF TypeOK
<1>d. dbs \in [1 .. MaxDbs -> DbFile] /\ cmd[p].db \in 1 .. MaxDbs
  BY Working DEF TypeOK, SelectMissing, EmbedBatch, EmbedEnds, ReadVectors, Hydrate, Opening
<1>1. CASE SelectMissing(p)
  <2>1. \A f \in Files : \A r \in Ranges :
          [file |-> f, range |-> r, text |-> Row(p, f, r).text,
           hash |-> Row(p, f, r).hash] \in ToEmbed
    BY <1>d, ReadTypes DEF ToEmbed, Chunk
  <2>2. PICK missing \in SUBSET ToEmbed :
          cmd' = [cmd EXCEPT ![p].pc = "embed", ![p].missing = missing]
    <3>1. \A c \in Unembedded(p) : c[1] \in Files /\ c[2] \in Ranges
      BY <1>d, ReadTypes
    <3>2. DEFINE sent(c) == [file |-> c[1], range |-> c[2], text |-> Row(p, c[1], c[2]).text,
                             hash |-> Row(p, c[1], c[2]).hash]
    <3>3. \A c \in Unembedded(p) : sent(c) \in ToEmbed
      BY <2>1, <3>1
    <3>4. {sent(c) : c \in Unembedded(p)} \in SUBSET ToEmbed
      BY <3>3
    <3>5. cmd' = [cmd EXCEPT ![p].pc = "embed",
                             ![p].missing = {sent(c) : c \in Unembedded(p)}]
      BY <1>1 DEF SelectMissing
    <3>6. QED
      BY <3>4, <3>5
  <2>3. cmd' \in [Commands -> Memory]
    BY <1>c, <2>2 DEF Memory, Steps
  <2>4. QED
    BY <1>0, <1>1, <2>3 DEF Shapes, SelectMissing, DbUnchanged
<1>2. CASE EmbedBatch(p)
  <2>1. PICK m \in cmd[p].missing :
          /\ cmd' = [cmd EXCEPT ![p].missing = @ \ {m}]
          /\ dbs' = IF Row(p, m.file, m.range) = NoRow THEN dbs
                    ELSE [dbs EXCEPT ![cmd[p].db].rows[m.file][m.range] =
                            Embedded(@, m)]
    BY <1>2 DEF EmbedBatch
  <2>2. m \in ToEmbed /\ cmd[p].missing \ {m} \in SUBSET ToEmbed
    BY <1>c, <2>1 DEF Memory
  <2>3. PICK missing \in SUBSET ToEmbed : cmd' = [cmd EXCEPT ![p].missing = missing]
    BY <2>1, <2>2
  <2>4. cmd' \in [Commands -> Memory]
    BY <1>c, <2>3 DEF Memory
  <2>5. dbs' \in [1 .. MaxDbs -> DbFile]
    <3>1. /\ m.file \in Files /\ m.range \in Ranges /\ m.text \in Hash /\ m.hash \in Hash
          /\ dbs[cmd[p].db] \in DbFile
          /\ dbs[cmd[p].db].rows \in [Files -> [Ranges -> Chunk]]
      BY <1>d, <2>2 DEF ToEmbed, DbFile
    <3>2. Embedded(Row(p, m.file, m.range), m) \in Chunk
      BY <1>d, <3>1, ReadTypes DEF Embedded, Chunk
    <3>3. PICK chunk \in Chunk :
            \/ dbs' = dbs
            \/ dbs' = [dbs EXCEPT ![cmd[p].db].rows[m.file][m.range] = chunk]
      BY <2>1, <3>2 DEF Row, Db
    <3>4. PICK rows \in [Files -> [Ranges -> Chunk]] :
            \/ dbs' = dbs
            \/ dbs' = [dbs EXCEPT ![cmd[p].db].rows = rows]
      <4>1. [dbs[cmd[p].db].rows EXCEPT ![m.file][m.range] = chunk]
              \in [Files -> [Ranges -> Chunk]]
        BY <3>1
      <4>2. QED
        BY <3>3, <4>1
    <3>5. [dbs EXCEPT ![cmd[p].db].rows = rows] \in [1 .. MaxDbs -> DbFile]
      BY <1>d, <3>1 DEF DbFile
    <3>6. QED
      BY <1>d, <3>4, <3>5
  <2>6. QED
    BY <1>0, <1>2, <2>4, <2>5 DEF Shapes, EmbedBatch
<1>3. CASE EmbedEnds(p)
  BY <1>0, <1>3, GotoType DEF Shapes, EmbedEnds, DbUnchanged, Steps
<1>4. CASE ReadVectors(p) \/ Hydrate(p)
  <2>1. PICK found \in SUBSET (Files \X Ranges), pc \in {"hydrate", "done"} :
          cmd' = [cmd EXCEPT ![p].pc = pc, ![p].found = found]
    BY <1>4, <1>d, ReadTypes DEF ReadVectors, Hydrate
  <2>2. cmd' \in [Commands -> Memory]
    <3>1. PICK m \in Memory : m = cmd[p]
      BY <1>c
    <3>2. [m EXCEPT !.pc = pc, !.found = found] \in Memory
      BY DEF Memory, Steps
    <3>3. QED
      BY <1>c, <2>1, <3>1, <3>2
  <2>3. QED
    BY <1>0, <1>4, <2>2 DEF Shapes, ReadVectors, Hydrate, DbUnchanged
<1>5. QED
  BY <1>1, <1>2, <1>3, <1>4

\* The end of a command keeps every type.
LEMMA EndShapes ==
  ASSUME TypeOK, NEW p \in Commands, CommandOK(p), Done(p) \/ GivesUp(p) \/ Killed(p)
  PROVE  Shapes'
<1>0. Shapes /\ dbs \in [1 .. MaxDbs -> DbFile]
  BY DEF Shapes, TypeOK
<1>1. dbs' \in [1 .. MaxDbs -> DbFile] /\ cmd' \in [Commands -> Memory]
  BY <1>0, EndedType, InterruptedType DEF Done, GivesUp, Killed
<1>2. left' \in 0 .. MaxFailures
  BY <1>0, BoundsAssumption DEF Shapes, Done, GivesUp, Killed
<1>3. QED
  BY <1>0, <1>1, <1>2 DEF Shapes, Done, GivesUp, Killed

-----------------------------------------------------------------------------
(* The steps of one command, seen from another.                              *)
Acts(p) == \/ Begin(p) \/ Step(p) \/ TransactionFails(p)
           \/ GivesUp(p) \/ Killed(p)

\* A command leaves what the others remember alone.
LEMMA OthersStay ==
  ASSUME TypeOK, NEW p \in Commands, Acts(p), NEW q \in Commands, q # p
  PROVE  cmd'[q] = cmd[q]
<1>1. cmd \in [Commands -> Memory]
  BY DEF TypeOK
<1>2. CASE Begin(p) \/ Lock(p) \/ RemoveDb(p) \/ OpenDb(p)
  BY <1>1, <1>2 DEF Begin, Lock, Checks, RemoveDb, OpenDb, Goto
<1>3. CASE Walk(p) \/ \E f \in Files : ReadError(p, f) \/ Unchanged(p, f) \/ ReadDoc(p, f)
  BY <1>1, <1>3 DEF Walk, ReadError, Unchanged, ReadDoc
<1>4. CASE DeleteChunks(p) \/ UpsertChunks(p) \/ Indexed(p)
  BY <1>1, <1>4 DEF DeleteChunks, UpsertChunks, Indexed, Goto
<1>5. CASE SetFileHash(p) \/ TransactionFails(p)
  BY <1>1, <1>5 DEF SetFileHash, TransactionFails, NextFile
<1>6. CASE FindStale(p) \/ DeleteStale(p) \/ RemoveHashes(p)
  BY <1>1, <1>6 DEF FindStale, DeleteStale, RemoveHashes, Goto
<1>7. CASE SelectMissing(p) \/ EmbedBatch(p) \/ EmbedEnds(p)
  BY <1>1, <1>7 DEF SelectMissing, EmbedBatch, EmbedEnds, Goto
<1>8. CASE ReadVectors(p) \/ Hydrate(p)
  BY <1>1, <1>8 DEF ReadVectors, Hydrate
<1>9. CASE Done(p) \/ GivesUp(p) \/ Killed(p)
  BY <1>1, <1>9 DEF Done, GivesUp, Killed, Ended
<1>10. QED
  BY <1>2, <1>3, <1>4, <1>5, <1>6, <1>7, <1>8, <1>9 DEF Acts, Step

\* The fields of p's memory that a step may leave alone.
SamePlace(p) == /\ cmd'[p].job = cmd[p].job
                /\ cmd'[p].db = cmd[p].db
                /\ cmd'[p].walked = cmd[p].walked
SameDoc(p) == /\ cmd'[p].file = cmd[p].file
              /\ cmd'[p].text = cmd[p].text
SameLists(p) == /\ cmd'[p].todo = cmd[p].todo
                /\ cmd'[p].stale = cmd[p].stale
                /\ cmd'[p].missing = cmd[p].missing

\* What the steps that open the database do to it.
LEMMA OpenMoves ==
  ASSUME TypeOK, NEW p \in Commands
  PROVE  /\ \A pc : Goto(p, pc) =>
              cmd'[p].pc = pc /\ SamePlace(p) /\ SameDoc(p) /\ SameLists(p)
         /\ Begin(p) => /\ cmd'[p].pc = "lock" /\ SameDoc(p) /\ SameLists(p)
                        /\ cmd'[p].db = cmd[p].db
                        /\ cmd'[p].walked = cmd[p].walked
         /\ Lock(p) => /\ cmd'[p].pc \in {"remove", "open"}
                       /\ cmd'[p].pc = "remove" => NeedsRebuild(p, cmd'[p].unread)
                       /\ SamePlace(p) /\ SameDoc(p) /\ SameLists(p)
         /\ OpenDb(p) => /\ cmd'[p].pc = "start" /\ SameDoc(p) /\ SameLists(p)
                         /\ cmd'[p].db = path' /\ cmd'[p].db \in 1 .. MaxDbs
                         /\ cmd'[p].walked = cmd[p].walked
<1>1. cmd \in [Commands -> Memory] /\ cmd[p] \in Memory
  BY DEF TypeOK
<1>2. ASSUME NEW pc, Goto(p, pc)
      PROVE  cmd'[p].pc = pc /\ SamePlace(p) /\ SameDoc(p) /\ SameLists(p)
  BY <1>1, <1>2 DEF Goto, Memory, SamePlace, SameDoc, SameLists
<1>3. ASSUME Begin(p)
      PROVE  /\ cmd'[p].pc = "lock" /\ SameDoc(p) /\ SameLists(p)
             /\ cmd'[p].db = cmd[p].db
             /\ cmd'[p].walked = cmd[p].walked
  <2>1. PICK j \in Jobs : cmd' = [cmd EXCEPT ![p].pc = "lock", ![p].job = j]
    BY <1>3 DEF Begin
  <2>2. QED
    BY <1>1, <2>1 DEF Memory, SameDoc, SameLists
<1>4. ASSUME OpenDb(p)
      PROVE  /\ cmd'[p].pc = "start" /\ SameDoc(p) /\ SameLists(p)
             /\ cmd'[p].db = path' /\ cmd'[p].db \in 1 .. MaxDbs
             /\ cmd'[p].walked = cmd[p].walked
  <2>1. PICK d \in 1 .. MaxDbs :
          path' = d /\ cmd' = [cmd EXCEPT ![p].pc = "start", ![p].db = d]
    BY <1>4 DEF OpenDb
  <2>2. QED
    BY <1>1, <2>1 DEF Memory, SameDoc, SameLists
<1>5. ASSUME Lock(p)
      PROVE  /\ cmd'[p].pc \in {"remove", "open"}
             /\ cmd'[p].pc = "remove" => NeedsRebuild(p, cmd'[p].unread)
             /\ SamePlace(p) /\ SameDoc(p) /\ SameLists(p)
  <2>1. PICK unread \in BOOLEAN, pc \in {"remove", "open"} :
          /\ pc = "remove" => NeedsRebuild(p, unread)
          /\ cmd' = [cmd EXCEPT ![p].pc = pc, ![p].unread = unread]
    BY <1>5 DEF Lock, Checks
  <2>2. QED
    BY <1>1, <2>1 DEF Memory, SamePlace, SameDoc, SameLists
<1>6. QED
  BY <1>2, <1>3, <1>4, <1>5

\* What the steps of IndexDocs do to it.
LEMMA IndexMoves ==
  ASSUME TypeOK, NEW p \in Commands
  PROVE  /\ Walk(p) =>
              /\ cmd'[p].pc = "file" /\ SameDoc(p)
              /\ cmd'[p].walked = {g \in Files : docs[g] # Absent}
              /\ cmd'[p].todo = cmd'[p].walked
              /\ cmd'[p].job = cmd[p].job /\ cmd'[p].db = cmd[p].db
              /\ cmd'[p].stale = cmd[p].stale /\ cmd'[p].missing = cmd[p].missing
         /\ \A f \in Files : ReadError(p, f) \/ Unchanged(p, f) =>
              /\ cmd'[p].pc = "file" /\ SamePlace(p) /\ SameDoc(p)
              /\ cmd'[p].todo \subseteq cmd[p].todo
              /\ cmd'[p].stale = cmd[p].stale /\ cmd'[p].missing = cmd[p].missing
         /\ \A f \in Files : ReadDoc(p, f) =>
              /\ cmd'[p].pc = "delete" /\ SamePlace(p)
              /\ cmd'[p].file = f /\ cmd'[p].text = docs[f]
              /\ cmd'[p].todo \subseteq cmd[p].todo
              /\ cmd'[p].stale = cmd[p].stale /\ cmd'[p].missing = cmd[p].missing
         /\ SetFileHash(p) \/ TransactionFails(p) =>
              cmd'[p].pc = "file" /\ SamePlace(p) /\ SameLists(p)
<1>1. cmd \in [Commands -> Memory] /\ cmd[p] \in Memory
  BY DEF TypeOK
<1>2. ASSUME Walk(p)
      PROVE  /\ cmd'[p].pc = "file" /\ SameDoc(p)
             /\ cmd'[p].walked = {g \in Files : docs[g] # Absent}
             /\ cmd'[p].todo = cmd'[p].walked
             /\ cmd'[p].job = cmd[p].job /\ cmd'[p].db = cmd[p].db
             /\ cmd'[p].stale = cmd[p].stale /\ cmd'[p].missing = cmd[p].missing
  <2>1. PICK found \in SUBSET Files :
          /\ found = {g \in Files : docs[g] # Absent}
          /\ cmd' = [cmd EXCEPT ![p].pc = "file", ![p].walked = found, ![p].todo = found]
    BY <1>2 DEF Walk
  <2>2. QED
    BY <1>1, <2>1 DEF Memory, SameDoc
<1>3. ASSUME NEW f \in Files, ReadError(p, f) \/ Unchanged(p, f)
      PROVE  /\ cmd'[p].pc = "file" /\ SamePlace(p) /\ SameDoc(p)
             /\ cmd'[p].todo \subseteq cmd[p].todo
             /\ cmd'[p].stale = cmd[p].stale /\ cmd'[p].missing = cmd[p].missing
  <2>1. PICK todo \in SUBSET cmd[p].todo : cmd' = [cmd EXCEPT ![p].todo = todo]
    BY <1>1, <1>3 DEF ReadError, Unchanged, Memory
  <2>2. cmd[p].pc = "file"
    BY <1>3 DEF ReadError, Unchanged
  <2>3. QED
    BY <1>1, <2>1, <2>2 DEF Memory, SamePlace, SameDoc
<1>4. ASSUME NEW f \in Files, ReadDoc(p, f)
      PROVE  /\ cmd'[p].pc = "delete" /\ SamePlace(p)
             /\ cmd'[p].file = f /\ cmd'[p].text = docs[f]
             /\ cmd'[p].todo \subseteq cmd[p].todo
             /\ cmd'[p].stale = cmd[p].stale /\ cmd'[p].missing = cmd[p].missing
  <2>1. PICK todo \in SUBSET cmd[p].todo, text \in Hash :
          /\ cmd' = [cmd EXCEPT ![p].pc = "delete", ![p].todo = todo,
                                ![p].file = f, ![p].text = text]
          /\ text = docs[f]
    <3>1. docs[f] \in Hash
      BY DEF TypeOK
    <3>2. QED
      BY <1>1, <1>4, <3>1 DEF ReadDoc, Memory
  <2>2. QED
    BY <1>1, <2>1 DEF Memory, SamePlace
<1>5. ASSUME SetFileHash(p) \/ TransactionFails(p)
      PROVE  cmd'[p].pc = "file" /\ SamePlace(p) /\ SameLists(p)
  <2>1. cmd' = NextFile(p)
    BY <1>5 DEF SetFileHash, TransactionFails
  <2>2. QED
    BY <1>1, <2>1 DEF NextFile, Memory, SamePlace, SameLists
<1>6. QED
  BY <1>2, <1>3, <1>4, <1>5

\* What the other steps do to it.
LEMMA SyncMoves ==
  ASSUME TypeOK, NEW p \in Commands
  PROVE  /\ FindStale(p) =>
              /\ cmd'[p].pc \in {"query", "select", "done", "unindex"}
              /\ SamePlace(p) /\ SameDoc(p)
              /\ cmd'[p].stale \cap cmd[p].walked = {}
              /\ cmd'[p].stale # {} => cmd'[p].pc = "unindex"
              /\ cmd'[p].todo = cmd[p].todo /\ cmd'[p].missing = cmd[p].missing
         /\ RemoveHashes(p) =>
              /\ cmd'[p].pc \in {"query", "select", "done"}
              /\ SamePlace(p) /\ SameDoc(p) /\ cmd'[p].stale = {}
              /\ cmd'[p].todo = cmd[p].todo /\ cmd'[p].missing = cmd[p].missing
         /\ SelectMissing(p) \/ EmbedBatch(p) =>
              /\ cmd'[p].pc = "embed" /\ SamePlace(p) /\ SameDoc(p)
              /\ cmd'[p].todo = cmd[p].todo /\ cmd'[p].stale = cmd[p].stale
         /\ EmbedBatch(p) => cmd'[p].missing \subseteq cmd[p].missing
         /\ ReadVectors(p) \/ Hydrate(p) =>
              /\ cmd'[p].pc \in {"hydrate", "done"}
              /\ SamePlace(p) /\ SameDoc(p) /\ SameLists(p)
         /\ Done(p) \/ GivesUp(p) \/ Killed(p) =>
              /\ cmd'[p].pc = "ended" /\ cmd'[p].db = NoDb
              /\ cmd'[p].todo = {} /\ cmd'[p].stale = {} /\ cmd'[p].missing = {}
<1>1. cmd \in [Commands -> Memory] /\ cmd[p] \in Memory
  BY DEF TypeOK
<1>2. ASSUME FindStale(p)
      PROVE  /\ cmd'[p].pc \in {"query", "select", "done", "unindex"}
             /\ SamePlace(p) /\ SameDoc(p)
             /\ cmd'[p].stale \cap cmd[p].walked = {}
             /\ cmd'[p].stale # {} => cmd'[p].pc = "unindex"
             /\ cmd'[p].todo = cmd[p].todo /\ cmd'[p].missing = cmd[p].missing
  <2>1. PICK stale \in SUBSET Files, pc \in {"query", "select", "done", "unindex"} :
          /\ cmd' = [cmd EXCEPT ![p].pc = pc, ![p].stale = stale]
          /\ stale \cap cmd[p].walked = {}
          /\ stale # {} => pc = "unindex"
    <3>1. DEFINE stale == {f \in Files \ cmd[p].walked : Db(p).rows[f] # NoRows}
                 pc == IF stale = {} THEN AfterIndex(p) ELSE "unindex"
    <3>2. cmd' = [cmd EXCEPT ![p].pc = pc, ![p].stale = stale]
      BY <1>2 DEF FindStale
    <3>3. pc \in {"query", "select", "done", "unindex"}
      BY AfterIndexType
    <3>4. /\ stale \cap cmd[p].walked = {} /\ stale \in SUBSET Files
          /\ stale # {} => pc = "unindex"
      OBVIOUS
    <3> HIDE DEF stale, pc
    <3>5. QED
      BY <3>2, <3>3, <3>4
  <2>2. QED
    BY <1>1, <2>1 DEF Memory, SamePlace, SameDoc
<1>3. ASSUME RemoveHashes(p)
      PROVE  /\ cmd'[p].pc \in {"query", "select", "done"}
             /\ SamePlace(p) /\ SameDoc(p) /\ cmd'[p].stale = {}
             /\ cmd'[p].todo = cmd[p].todo /\ cmd'[p].missing = cmd[p].missing
  <2>1. PICK pc \in {"query", "select", "done"} :
          cmd' = [cmd EXCEPT ![p].pc = pc, ![p].stale = {}]
    BY <1>3, AfterIndexType DEF RemoveHashes
  <2>2. QED
    BY <1>1, <2>1 DEF Memory, SamePlace, SameDoc
<1>4. ASSUME SelectMissing(p)
      PROVE  /\ cmd'[p].pc = "embed" /\ SamePlace(p) /\ SameDoc(p)
             /\ cmd'[p].todo = cmd[p].todo /\ cmd'[p].stale = cmd[p].stale
  <2>1. PICK missing : cmd' = [cmd EXCEPT ![p].pc = "embed", ![p].missing = missing]
    BY <1>4 DEF SelectMissing
  <2>2. QED
    BY <1>1, <2>1 DEF Memory, SamePlace, SameDoc
<1>5. ASSUME EmbedBatch(p)
      PROVE  /\ cmd'[p].pc = "embed" /\ SamePlace(p) /\ SameDoc(p)
             /\ cmd'[p].todo = cmd[p].todo /\ cmd'[p].stale = cmd[p].stale
             /\ cmd'[p].missing \subseteq cmd[p].missing
  <2>1. PICK missing \in SUBSET cmd[p].missing : cmd' = [cmd EXCEPT ![p].missing = missing]
    BY <1>1, <1>5 DEF EmbedBatch, Memory
  <2>2. cmd[p].pc = "embed"
    BY <1>5 DEF EmbedBatch
  <2>3. QED
    BY <1>1, <2>1, <2>2 DEF Memory, SamePlace, SameDoc
<1>6. ASSUME ReadVectors(p) \/ Hydrate(p)
      PROVE  /\ cmd'[p].pc \in {"hydrate", "done"}
             /\ SamePlace(p) /\ SameDoc(p) /\ SameLists(p)
  <2>1. CASE ReadVectors(p)
    <3>1. PICK found : cmd' = [cmd EXCEPT ![p].pc = "hydrate", ![p].found = found]
      BY <2>1 DEF ReadVectors
    <3>2. QED
      BY <1>1, <3>1 DEF Memory, SamePlace, SameDoc, SameLists
  <2>2. CASE Hydrate(p)
    <3>1. PICK found : cmd' = [cmd EXCEPT ![p].pc = "done", ![p].found = found]
      BY <1>1, <2>2 DEF Hydrate, Memory
    <3>2. QED
      BY <1>1, <3>1 DEF Memory, SamePlace, SameDoc, SameLists
  <2>3. QED
    BY <1>6, <2>1, <2>2
<1>7. ASSUME Done(p) \/ GivesUp(p) \/ Killed(p)
      PROVE  /\ cmd'[p].pc = "ended" /\ cmd'[p].db = NoDb
             /\ cmd'[p].todo = {} /\ cmd'[p].stale = {} /\ cmd'[p].missing = {}
  BY <1>1, <1>7 DEF Done, GivesUp, Killed, Ended, NewCommand
<1>8. QED
  BY <1>2, <1>3, <1>4, <1>5, <1>6, <1>7

\* Only opening the database is done under the lock.
LEMMA LockStep ==
  ASSUME TypeOK, NEW p \in Commands, Acts(p)
  PROVE  \A q \in Commands : lock' = q <=> cmd'[q].pc \in {"remove", "open"}
<1>1. /\ cmd \in [Commands -> Memory] /\ cmd[p] \in Memory
      /\ \A q \in Commands : lock = q <=> cmd[q].pc \in {"remove", "open"}
      /\ Nobody \notin Commands
  BY BoundsAssumption DEF TypeOK
<1>2. \A q \in Commands \ {p} : cmd'[q] = cmd[q]
  BY OthersStay
<1>3. CASE Lock(p)
  <2>1. cmd'[p].pc \in {"remove", "open"}
    BY <1>3, OpenMoves
  <2>2. QED
    BY <1>1, <1>2, <1>3, <2>1 DEF Lock
<1>4. CASE RemoveDb(p)
  <2>1. cmd'[p].pc = "open"
    BY <1>1, <1>4 DEF RemoveDb, Goto, Memory
  <2>2. QED
    BY <1>1, <1>2, <1>4, <2>1 DEF RemoveDb
<1>5. CASE OpenDb(p) \/ Killed(p)
  <2>1. cmd'[p].pc \in {"start", "ended"}
    BY <1>1, <1>5 DEF OpenDb, Killed, Ended, NewCommand, Memory
  <2>2. lock' = IF lock = p THEN Nobody ELSE lock
    BY <1>5 DEF OpenDb, Killed
  <2>3. QED
    BY <1>1, <1>2, <2>1, <2>2
<1>6. ASSUME cmd[p].pc \notin {"remove", "open"}, cmd'[p].pc \notin {"remove", "open"},
             lock' = lock
      PROVE  \A q \in Commands : lock' = q <=> cmd'[q].pc \in {"remove", "open"}
  BY <1>1, <1>2, <1>6
<1>7. CASE Begin(p)
  BY <1>1, <1>6, <1>7 DEF Begin, Memory
<1>8. CASE Walk(p) \/ \E f \in Files : ReadError(p, f) \/ Unchanged(p, f) \/ ReadDoc(p, f)
  <2>1. /\ cmd[p].pc \in {"start", "file"} /\ lock' = lock
        /\ cmd'[p].pc \in {"file", "delete"}
    <3>1. cmd[p].pc \in {"start", "file"} /\ lock' = lock
      BY <1>8 DEF Walk, ReadError, Unchanged, ReadDoc
    <3>2. CASE Walk(p)
      <4>1. cmd'[p].pc = "file"
        BY <1>1, <3>2 DEF Walk, Memory
      <4>2. QED
        BY <3>1, <4>1
    <3>3. ASSUME NEW f \in Files, ReadError(p, f) \/ Unchanged(p, f)
          PROVE  cmd'[p].pc = "file"
      BY <3>3, IndexMoves
    <3>4. ASSUME NEW f \in Files, ReadDoc(p, f)
          PROVE  cmd'[p].pc = "delete"
      BY <3>4, IndexMoves
    <3>5. QED
      BY <1>8, <3>1, <3>2, <3>3, <3>4
  <2>2. QED
    BY <1>6, <2>1
<1>9. CASE DeleteChunks(p) \/ UpsertChunks(p) \/ Indexed(p)
  <2>1. /\ cmd[p].pc \in {"delete", "upsert", "file"} /\ lock' = lock
        /\ \E pc \in {"upsert", "hash", "sync"} : Goto(p, pc)
    BY <1>9 DEF DeleteChunks, UpsertChunks, Indexed
  <2>2. cmd'[p].pc \in {"upsert", "hash", "sync"}
    BY <2>1, OpenMoves
  <2>3. QED
    BY <1>6, <2>1, <2>2
<1>10. CASE SetFileHash(p) \/ TransactionFails(p)
  BY <1>1, <1>6, <1>10 DEF SetFileHash, TransactionFails, NextFile, Memory
<1>11. CASE FindStale(p) \/ DeleteStale(p) \/ RemoveHashes(p)
  BY <1>1, <1>6, <1>11, AfterIndexType
  DEF FindStale, DeleteStale, RemoveHashes, Goto, Memory
<1>12. CASE SelectMissing(p) \/ EmbedBatch(p) \/ EmbedEnds(p)
  <2>1. /\ cmd[p].pc \in {"select", "embed"} /\ lock' = lock
        /\ cmd'[p].pc \in {"embed", "done"}
    BY <1>12, SyncMoves, OpenMoves DEF SelectMissing, EmbedBatch, EmbedEnds
  <2>2. QED
    BY <1>6, <2>1
<1>13. CASE ReadVectors(p) \/ Hydrate(p)
  BY <1>1, <1>6, <1>13 DEF ReadVectors, Hydrate, Memory
<1>14. CASE Done(p) \/ GivesUp(p)
  BY <1>1, <1>6, <1>14 DEF Done, GivesUp, Ended, NewCommand
<1>15. QED
  BY <1>3, <1>4, <1>5, <1>7, <1>8, <1>9, <1>10, <1>11, <1>12, <1>13, <1>14
  DEF Acts, Step

-----------------------------------------------------------------------------
(* The steps, seen from a database.                                          *)
SameRows(d) == dbs'[d].rows = dbs[d].rows
SameMeta(d) == dbs'[d].meta = dbs[d].meta
SameBroken(d) == dbs'[d].broken = dbs[d].broken
SameBack(d) == dbs'[d].back = dbs[d].back
SameMarks(d) == dbs'[d].raced = dbs[d].raced /\ SameBroken(d) /\ SameBack(d)
SameSchema(d) == dbs'[d].schema = dbs[d].schema

\* Opening it, and marking documents as raced.
LEMMA MarksMoves ==
  ASSUME TypeOK, NEW p \in Commands, CommandOK(p), NEW d \in 1 .. MaxDbs
  PROVE  /\ OpenDb(p) => SameRows(d) /\ SameMeta(d) /\ SameMarks(d)
         /\ Walk(p) =>
              /\ SameRows(d) /\ SameMeta(d) /\ SameSchema(d)
              /\ SameBroken(d) /\ SameBack(d)
              /\ dbs[d].raced \subseteq dbs'[d].raced
              /\ \A f \in Files :
                   d = cmd[p].db /\ docs[f] = Absent /\ Replacing(d, f) # {}
                     => f \in dbs'[d].raced
         /\ \A f \in Files : ReadDoc(p, f) =>
              /\ SameRows(d) /\ SameMeta(d) /\ SameSchema(d) /\ SameBroken(d)
              /\ dbs[d].raced \subseteq dbs'[d].raced
              /\ d = cmd[p].db /\ Replacing(d, f) # {} => f \in dbs'[d].raced
              /\ d = cmd[p].db /\ dbs[d].meta[f] = docs[f] => f \in dbs'[d].back
              /\ d # cmd[p].db => SameBack(d)
              /\ dbs[d].back \ {f} \subseteq dbs'[d].back
<1>1. dbs \in [1 .. MaxDbs -> DbFile] /\ dbs[d] \in DbFile
  BY DEF TypeOK
<1>2. ASSUME OpenDb(p)
      PROVE  SameRows(d) /\ SameMeta(d) /\ SameMarks(d)
  <2>1. PICK e \in 1 .. MaxDbs : dbs' = [dbs EXCEPT ![e].schema = cmd[p].job.schema]
    BY <1>2 DEF OpenDb
  <2>2. QED
    BY <1>1, <2>1 DEF DbFile, SameRows, SameMeta, SameMarks, SameBroken, SameBack
<1>3. ASSUME Walk(p)
      PROVE  /\ SameRows(d) /\ SameMeta(d) /\ SameSchema(d)
             /\ SameBroken(d) /\ SameBack(d)
             /\ dbs[d].raced \subseteq dbs'[d].raced
             /\ \A f \in Files :
                  d = cmd[p].db /\ docs[f] = Absent /\ Replacing(d, f) # {}
                    => f \in dbs'[d].raced
  <2>1. cmd[p].db \in 1 .. MaxDbs
    BY <1>3, Working DEF Walk, Opening
  <2>2. PICK both :
          /\ both = {f \in Files : docs[f] = Absent /\ Replacing(cmd[p].db, f) # {}}
          /\ dbs' = [dbs EXCEPT ![cmd[p].db].raced = @ \cup both]
    <3>1. DEFINE found == {f \in Files : docs[f] # Absent}
    <3>2. {f \in Files \ found : Replacing(cmd[p].db, f) # {}}
            = {f \in Files : docs[f] = Absent /\ Replacing(cmd[p].db, f) # {}}
      OBVIOUS
    <3>3. dbs' = [dbs EXCEPT ![cmd[p].db].raced =
                    @ \cup {f \in Files \ found : Replacing(cmd[p].db, f) # {}}]
      BY <1>3 DEF Walk
    <3>4. QED
      BY <3>2, <3>3
  <2>3. dbs'[d] = IF d = cmd[p].db
                    THEN [dbs[d] EXCEPT !.raced = dbs[d].raced \cup both] ELSE dbs[d]
    BY <1>1, <2>1, <2>2
  <2>4. QED
    BY <1>1, <2>2, <2>3 DEF DbFile, SameRows, SameMeta, SameSchema, SameBroken, SameBack
<1>4. ASSUME NEW f \in Files, ReadDoc(p, f)
      PROVE  /\ SameRows(d) /\ SameMeta(d) /\ SameSchema(d) /\ SameBroken(d)
             /\ dbs[d].raced \subseteq dbs'[d].raced
             /\ d = cmd[p].db /\ Replacing(d, f) # {} => f \in dbs'[d].raced
             /\ d = cmd[p].db /\ dbs[d].meta[f] = docs[f] => f \in dbs'[d].back
             /\ d # cmd[p].db => SameBack(d)
             /\ dbs[d].back \ {f} \subseteq dbs'[d].back
  <2>1. cmd[p].db \in 1 .. MaxDbs
    BY <1>4, Working DEF ReadDoc, Opening
  <2>2. PICK back, raced :
          /\ dbs' = [dbs EXCEPT ![cmd[p].db].back = back, ![cmd[p].db].raced = raced]
          /\ dbs[cmd[p].db].back \ {f} \subseteq back
          /\ dbs[cmd[p].db].meta[f] = docs[f] => f \in back
          /\ dbs[cmd[p].db].raced \subseteq raced
          /\ Replacing(cmd[p].db, f) # {} => f \in raced
    <3>1. DEFINE old == dbs[cmd[p].db]
                 back == IF Db(p).meta[f] = docs[f] THEN old.back \cup {f}
                         ELSE old.back \ {f}
                 raced == IF Replacing(cmd[p].db, f) = {} THEN old.raced
                          ELSE old.raced \cup {f}
    <3>2. dbs' = [dbs EXCEPT ![cmd[p].db].back = back, ![cmd[p].db].raced = raced]
      <4>1. old \in DbFile
        BY <1>1, <2>1
      <4>2. QED
        BY <1>1, <1>4, <2>1, <4>1 DEF ReadDoc, DbFile
    <3>3. /\ old.back \ {f} \subseteq back /\ old.raced \subseteq raced
          /\ old.meta[f] = docs[f] => f \in back
          /\ Replacing(cmd[p].db, f) # {} => f \in raced
      BY DEF Db
    <3> HIDE DEF back, raced
    <3>4. QED
      BY <3>2, <3>3
  <2>3. dbs'[d] = IF d = cmd[p].db THEN [dbs[d] EXCEPT !.back = back, !.raced = raced]
                  ELSE dbs[d]
    BY <1>1, <2>1, <2>2
  <2>4. CASE d = cmd[p].db
    <3>1. /\ dbs'[d].back = back /\ dbs'[d].raced = raced
          /\ SameRows(d) /\ SameMeta(d) /\ SameSchema(d) /\ SameBroken(d)
      BY <1>1, <2>3, <2>4 DEF DbFile, SameRows, SameMeta, SameSchema, SameBroken
    <3>2. QED
      BY <2>2, <2>4, <3>1
  <2>5. CASE d # cmd[p].db
    BY <2>3, <2>5 DEF SameRows, SameMeta, SameSchema, SameBroken, SameBack
  <2>6. QED
    BY <2>4, <2>5
<1>5. QED
  BY <1>2, <1>3, <1>4

\* Replacing the chunks of a document.
LEMMA ReplaceMoves ==
  ASSUME TypeOK, NEW p \in Commands, CommandOK(p), NEW d \in 1 .. MaxDbs
  PROVE  /\ DeleteChunks(p) =>
              /\ SameMeta(d) /\ SameMarks(d) /\ SameSchema(d)
              /\ \A f \in Files : dbs'[d].rows[f] =
                   IF d = cmd[p].db /\ f = cmd[p].file THEN NoRows ELSE dbs[d].rows[f]
         /\ UpsertChunks(p) =>
              /\ SameMeta(d) /\ SameMarks(d) /\ SameSchema(d)
              /\ \A f \in Files : dbs'[d].rows[f] =
                   IF d = cmd[p].db /\ f = cmd[p].file
                     THEN [r \in Ranges |-> IF RowsOf(cmd[p].text)[r] # NoRow
                                              THEN RowsOf(cmd[p].text)[r]
                                              ELSE dbs[d].rows[f][r]]
                     ELSE dbs[d].rows[f]
         /\ SetFileHash(p) =>
              /\ SameRows(d) /\ SameSchema(d) /\ SameBack(d)
              /\ dbs'[d].raced = dbs[d].raced
              /\ \A f \in Files :
                   /\ dbs'[d].meta[f] = IF d = cmd[p].db /\ f = cmd[p].file
                                          THEN cmd[p].text ELSE dbs[d].meta[f]
                   /\ d # cmd[p].db \/ f # cmd[p].file
                        => (f \in dbs'[d].broken <=> f \in dbs[d].broken)
                   /\ d = cmd[p].db /\ f = cmd[p].file /\ Replacing(d, f) = {p}
                        => f \notin dbs'[d].broken
<1>1. dbs \in [1 .. MaxDbs -> DbFile] /\ dbs[d] \in DbFile
  BY DEF TypeOK
<1>2. cmd[p].pc \in Replacement => cmd[p].db \in 1 .. MaxDbs /\ cmd[p].file \in Files
  BY Working DEF Replacement, Opening
<1>3. ASSUME DeleteChunks(p)
      PROVE  /\ SameMeta(d) /\ SameMarks(d) /\ SameSchema(d)
             /\ \A f \in Files : dbs'[d].rows[f] =
                  IF d = cmd[p].db /\ f = cmd[p].file THEN NoRows ELSE dbs[d].rows[f]
  <2>1. cmd[p].db \in 1 .. MaxDbs /\ cmd[p].file \in Files
    BY <1>2, <1>3 DEF DeleteChunks, Replacement
  <2>2. dbs' = [dbs EXCEPT ![cmd[p].db].rows[cmd[p].file] = NoRows]
    BY <1>3 DEF DeleteChunks
  <2>3. QED
    BY <1>1, <2>1, <2>2 DEF DbFile, SameMeta, SameMarks, SameBroken, SameBack, SameSchema
<1>4. ASSUME UpsertChunks(p)
      PROVE  /\ SameMeta(d) /\ SameMarks(d) /\ SameSchema(d)
             /\ \A f \in Files : dbs'[d].rows[f] =
                  IF d = cmd[p].db /\ f = cmd[p].file
                    THEN [r \in Ranges |-> IF RowsOf(cmd[p].text)[r] # NoRow
                                             THEN RowsOf(cmd[p].text)[r]
                                             ELSE dbs[d].rows[f][r]]
                    ELSE dbs[d].rows[f]
  <2>1. cmd[p].db \in 1 .. MaxDbs /\ cmd[p].file \in Files
    BY <1>2, <1>4 DEF UpsertChunks, Replacement
  <2>2. PICK rows :
          /\ rows = [r \in Ranges |-> IF RowsOf(cmd[p].text)[r] # NoRow
                                        THEN RowsOf(cmd[p].text)[r]
                                        ELSE dbs[cmd[p].db].rows[cmd[p].file][r]]
          /\ dbs' = [dbs EXCEPT ![cmd[p].db].rows[cmd[p].file] = rows]
    BY <1>4 DEF UpsertChunks
  <2>3. QED
    BY <1>1, <2>1, <2>2 DEF DbFile, SameMeta, SameMarks, SameBroken, SameBack, SameSchema
<1>5. ASSUME SetFileHash(p)
      PROVE  /\ SameRows(d) /\ SameSchema(d) /\ SameBack(d)
             /\ dbs'[d].raced = dbs[d].raced
             /\ \A f \in Files :
                  /\ dbs'[d].meta[f] = IF d = cmd[p].db /\ f = cmd[p].file
                                         THEN cmd[p].text ELSE dbs[d].meta[f]
                  /\ d # cmd[p].db \/ f # cmd[p].file
                       => (f \in dbs'[d].broken <=> f \in dbs[d].broken)
                  /\ d = cmd[p].db /\ f = cmd[p].file /\ Replacing(d, f) = {p}
                       => f \notin dbs'[d].broken
  <2>1. cmd[p].db \in 1 .. MaxDbs /\ cmd[p].file \in Files
    BY <1>2, <1>5 DEF SetFileHash, Replacement
  <2>2. PICK broken :
          /\ dbs[cmd[p].db].broken \ {cmd[p].file} \subseteq broken
          /\ broken \subseteq dbs[cmd[p].db].broken
          /\ Replacing(cmd[p].db, cmd[p].file) = {p} => cmd[p].file \notin broken
          /\ dbs' = [dbs EXCEPT ![cmd[p].db].meta[cmd[p].file] = cmd[p].text,
                                ![cmd[p].db].broken = broken]
    <3>1. DEFINE old == dbs[cmd[p].db].broken
                 broken == IF Replacing(cmd[p].db, cmd[p].file) = {p}
                             THEN old \ {cmd[p].file} ELSE old
    <3>2. dbs' = [dbs EXCEPT ![cmd[p].db].meta[cmd[p].file] = cmd[p].text,
                             ![cmd[p].db].broken = broken]
      BY <1>1, <1>5, <2>1 DEF SetFileHash, DbFile
    <3>3. /\ dbs[cmd[p].db].broken \ {cmd[p].file} \subseteq broken
          /\ broken \subseteq dbs[cmd[p].db].broken
          /\ Replacing(cmd[p].db, cmd[p].file) = {p} => cmd[p].file \notin broken
      OBVIOUS
    <3> HIDE DEF broken
    <3>4. QED
      BY <3>2, <3>3
  <2>3. /\ SameRows(d) /\ SameSchema(d) /\ SameBack(d) /\ dbs'[d].raced = dbs[d].raced
        /\ dbs'[d].broken = IF d = cmd[p].db THEN broken ELSE dbs[d].broken
        /\ \A f \in Files : dbs'[d].meta[f] = IF d = cmd[p].db /\ f = cmd[p].file
                                                THEN cmd[p].text ELSE dbs[d].meta[f]
    BY <1>1, <2>1, <2>2 DEF DbFile, SameRows, SameSchema, SameBack
  <2>4. QED
    BY <2>2, <2>3
<1>6. QED
  BY <1>3, <1>4, <1>5

\* Interrupting a command marks what it was halfway with.
LEMMA InterruptMoves ==
  ASSUME TypeOK, NEW p \in Commands, NEW d \in 1 .. MaxDbs
  PROVE  /\ Interrupted(p)[d].rows = dbs[d].rows
         /\ Interrupted(p)[d].meta = dbs[d].meta
         /\ Interrupted(p)[d].schema = dbs[d].schema
         /\ Interrupted(p)[d].raced = dbs[d].raced
         /\ Interrupted(p)[d].back = dbs[d].back
         /\ Interrupted(p)[d].broken =
              IF d = cmd[p].db THEN dbs[d].broken \cup Halfway(p) ELSE dbs[d].broken
<1>1. dbs \in [1 .. MaxDbs -> DbFile] /\ dbs[d] \in DbFile
  BY DEF TypeOK
<1>2. CASE Halfway(p) = {}
  BY <1>2 DEF Interrupted
<1>3. CASE Halfway(p) # {}
  <2>1. Interrupted(p) = [dbs EXCEPT ![cmd[p].db].broken = @ \cup Halfway(p)]
    BY <1>3 DEF Interrupted
  <2>2. Interrupted(p)[d] = IF d = cmd[p].db
                              THEN [dbs[d] EXCEPT !.broken = dbs[d].broken \cup Halfway(p)]
                              ELSE dbs[d]
    BY <1>1, <2>1
  <2>3. QED
    BY <1>1, <2>2 DEF DbFile
<1>4. QED
  BY <1>2, <1>3

\* Taking documents out, and storing vectors.
LEMMA SyncDbMoves ==
  ASSUME TypeOK, NEW p \in Commands, CommandOK(p), NEW d \in 1 .. MaxDbs
  PROVE  /\ DeleteStale(p) =>
              /\ SameMeta(d) /\ SameMarks(d) /\ SameSchema(d)
              /\ \A f \in Files : dbs'[d].rows[f] =
                   IF d = cmd[p].db /\ f \in cmd[p].stale THEN NoRows ELSE dbs[d].rows[f]
         /\ RemoveHashes(p) =>
              /\ SameRows(d) /\ SameSchema(d) /\ SameBack(d)
              /\ dbs'[d].raced = dbs[d].raced
              /\ \A f \in Files :
                   IF d = cmd[p].db /\ f \in cmd[p].stale
                     THEN \/ dbs'[d].meta[f] = Absent
                          \/ dbs'[d].meta[f] = dbs[d].meta[f] /\ f \in dbs'[d].broken
                     ELSE /\ dbs'[d].meta[f] = dbs[d].meta[f]
                          /\ f \in dbs'[d].broken <=> f \in dbs[d].broken
         /\ EmbedBatch(p) =>
              /\ SameMeta(d) /\ SameMarks(d) /\ SameSchema(d)
              /\ \A f \in Files : \A r \in Ranges :
                   \/ dbs'[d].rows[f][r] = dbs[d].rows[f][r]
                   \/ /\ dbs[d].rows[f][r] # NoRow
                      /\ \E m \in cmd[p].missing :
                           dbs'[d].rows[f][r] = Embedded(dbs[d].rows[f][r], m)
<1>1. /\ dbs \in [1 .. MaxDbs -> DbFile] /\ dbs[d] \in DbFile
      /\ cmd[p] \in Memory
  BY DEF TypeOK
<1>2. ASSUME DeleteStale(p)
      PROVE  /\ SameMeta(d) /\ SameMarks(d) /\ SameSchema(d)
             /\ \A f \in Files : dbs'[d].rows[f] =
                  IF d = cmd[p].db /\ f \in cmd[p].stale THEN NoRows ELSE dbs[d].rows[f]
  <2>1. cmd[p].db \in 1 .. MaxDbs
    BY <1>2, Working DEF DeleteStale, Opening
  <2>2. PICK rows :
          /\ rows = [f \in Files |-> IF f \in cmd[p].stale THEN NoRows
                                     ELSE dbs[cmd[p].db].rows[f]]
          /\ dbs' = [dbs EXCEPT ![cmd[p].db].rows = rows]
    BY <1>2 DEF DeleteStale
  <2>3. QED
    BY <1>1, <2>1, <2>2 DEF DbFile, SameMeta, SameMarks, SameBroken, SameBack, SameSchema
<1>3. ASSUME RemoveHashes(p)
      PROVE  /\ SameRows(d) /\ SameSchema(d) /\ SameBack(d)
             /\ dbs'[d].raced = dbs[d].raced
             /\ \A f \in Files :
                  IF d = cmd[p].db /\ f \in cmd[p].stale
                    THEN \/ dbs'[d].meta[f] = Absent
                         \/ dbs'[d].meta[f] = dbs[d].meta[f] /\ f \in dbs'[d].broken
                    ELSE /\ dbs'[d].meta[f] = dbs[d].meta[f]
                         /\ f \in dbs'[d].broken <=> f \in dbs[d].broken
  <2>1. cmd[p].db \in 1 .. MaxDbs
    BY <1>3, Working DEF RemoveHashes, Opening
  <2>2. PICK kept \in SUBSET cmd[p].stale :
          dbs' = [dbs EXCEPT ![cmd[p].db].meta =
                               [f \in Files |-> IF f \in cmd[p].stale \ kept
                                                  THEN Absent ELSE @[f]],
                             ![cmd[p].db].broken = @ \cup kept]
    BY <1>3 DEF RemoveHashes
  <2> DEFINE meta == [f \in Files |-> IF f \in cmd[p].stale \ kept THEN Absent
                                       ELSE dbs[cmd[p].db].meta[f]]
             broken == dbs[cmd[p].db].broken \cup kept
  <2>3. dbs' = [dbs EXCEPT ![cmd[p].db].meta = meta, ![cmd[p].db].broken = broken]
    <3>1. dbs[cmd[p].db] \in DbFile
      BY <1>1, <2>1
    <3>2. QED
      BY <1>1, <2>1, <2>2, <3>1 DEF DbFile
  <2>4. /\ SameRows(d) /\ SameSchema(d) /\ SameBack(d) /\ dbs'[d].raced = dbs[d].raced
        /\ dbs'[d].meta = IF d = cmd[p].db THEN meta ELSE dbs[d].meta
        /\ dbs'[d].broken = IF d = cmd[p].db THEN broken ELSE dbs[d].broken
    <3> HIDE DEF meta, broken
    <3>1. QED
      BY <1>1, <2>1, <2>3 DEF DbFile, SameRows, SameBack, SameSchema
  <2>5. ASSUME NEW f \in Files, d = cmd[p].db, f \in cmd[p].stale
        PROVE  \/ dbs'[d].meta[f] = Absent
               \/ dbs'[d].meta[f] = dbs[d].meta[f] /\ f \in dbs'[d].broken
    BY <2>4, <2>5
  <2>6. ASSUME NEW f \in Files, ~ (d = cmd[p].db /\ f \in cmd[p].stale)
        PROVE  /\ dbs'[d].meta[f] = dbs[d].meta[f]
               /\ f \in dbs'[d].broken <=> f \in dbs[d].broken
    <3>1. d = cmd[p].db => f \notin kept /\ f \notin cmd[p].stale
      BY <2>6
    <3>2. QED
      BY <2>4, <3>1
  <2>7. QED
    BY <2>4, <2>5, <2>6
<1>4. ASSUME EmbedBatch(p)
      PROVE  /\ SameMeta(d) /\ SameMarks(d) /\ SameSchema(d)
             /\ \A f \in Files : \A r \in Ranges :
                  \/ dbs'[d].rows[f][r] = dbs[d].rows[f][r]
                  \/ /\ dbs[d].rows[f][r] # NoRow
                     /\ \E m \in cmd[p].missing :
                          dbs'[d].rows[f][r] = Embedded(dbs[d].rows[f][r], m)
  <2>1. cmd[p].db \in 1 .. MaxDbs
    BY <1>4, Working DEF EmbedBatch, Opening
  <2>2. PICK m \in cmd[p].missing :
          dbs' = IF Row(p, m.file, m.range) = NoRow THEN dbs
                 ELSE [dbs EXCEPT ![cmd[p].db].rows[m.file][m.range] =
                         Embedded(@, m)]
    BY <1>4 DEF EmbedBatch
  <2>3. m.file \in Files /\ m.range \in Ranges
    BY <1>1 DEF Memory, ToEmbed
  <2>4. CASE Row(p, m.file, m.range) = NoRow
    BY <2>2, <2>4 DEF SameMeta, SameMarks, SameBroken, SameBack, SameSchema
  <2>5. CASE Row(p, m.file, m.range) # NoRow
    <3>1. PICK chunk :
            /\ chunk = Embedded(dbs[cmd[p].db].rows[m.file][m.range], m)
            /\ dbs' = [dbs EXCEPT ![cmd[p].db].rows[m.file][m.range] = chunk]
      BY <2>2, <2>5
    <3>2. dbs[cmd[p].db].rows[m.file][m.range] # NoRow
      BY <2>5 DEF Row, Db
    <3>3. SameMeta(d) /\ SameMarks(d) /\ SameSchema(d)
      <4>0. DEFINE old == dbs[cmd[p].db].rows
      <4>1. PICK rows : dbs' = [dbs EXCEPT ![cmd[p].db].rows = rows]
        <5>1. dbs' = [dbs EXCEPT ![cmd[p].db].rows = [old EXCEPT ![m.file][m.range] = chunk]]
          BY <3>1
        <5>2. QED
          BY <5>1
      <4>2. dbs'[d] = IF d = cmd[p].db THEN [dbs[d] EXCEPT !.rows = rows] ELSE dbs[d]
        BY <1>1, <4>1
      <4>3. QED
        BY <1>1, <4>2
        DEF DbFile, SameMeta, SameMarks, SameBroken, SameBack, SameSchema
    <3>4. ASSUME NEW f \in Files, NEW r \in Ranges
          PROVE  dbs'[d].rows[f][r] =
                   IF d = cmd[p].db /\ f = m.file /\ r = m.range THEN chunk
                   ELSE dbs[d].rows[f][r]
      <4>1. CASE d # cmd[p].db
        BY <1>1, <2>1, <3>1, <4>1
      <4>2. CASE d = cmd[p].db
        <5>1. PICK rows \in [Files -> [Ranges -> Chunk]] : rows = dbs[d].rows
          BY <1>1 DEF DbFile
        <5>2. dbs'[d].rows = [rows EXCEPT ![m.file][m.range] = chunk]
          BY <1>1, <2>1, <3>1, <4>2, <5>1 DEF DbFile
        <5>3. [rows EXCEPT ![m.file][m.range] = chunk][f][r] =
                IF f = m.file /\ r = m.range THEN chunk ELSE rows[f][r]
          BY <2>3
        <5>4. QED
          BY <4>2, <5>1, <5>2, <5>3
      <4>3. QED
        BY <4>1, <4>2
    <3>5. ASSUME NEW f \in Files, NEW r \in Ranges
          PROVE  \/ dbs'[d].rows[f][r] = dbs[d].rows[f][r]
                 \/ /\ dbs[d].rows[f][r] # NoRow
                    /\ dbs'[d].rows[f][r] = Embedded(dbs[d].rows[f][r], m)
      <4>1. CASE d = cmd[p].db /\ f = m.file /\ r = m.range
        <5>1. dbs'[d].rows[f][r] = chunk
          BY <3>4, <4>1
        <5>2. dbs[d].rows[f][r] = dbs[cmd[p].db].rows[m.file][m.range]
          BY <4>1
        <5>3. QED
          BY <3>1, <3>2, <5>1, <5>2
      <4>2. CASE ~ (d = cmd[p].db /\ f = m.file /\ r = m.range)
        BY <3>4, <4>2
      <4>3. QED
        BY <4>1, <4>2
    <3>6. QED
      BY <3>3, <3>5
  <2>6. QED
    BY <2>4, <2>5
<1>5. QED
  BY <1>2, <1>3, <1>4

\* When files are dropped, only those that nobody has open and nothing names.
LEMMA EndMoves ==
  ASSUME TypeOK, NEW p \in Commands, NEW d \in 1 .. MaxDbs
  PROVE  /\ RemoveDb(p) => dbs'[d] = dbs[d] \/ (/\ dbs'[d] = EmptyDb("old")
                                                /\ \A q \in Commands : cmd[q].db # d)
         /\ \A files : Ended(p, files) =>
              \/ dbs'[d] = files[d]
              \/ /\ dbs'[d] = EmptyDb("old") /\ d # path
                 /\ \A q \in Commands : q # p => cmd[q].db # d
BY DEF RemoveDb, Ended

\* Outside of opening, the database keeps its schema.
LEMMA SchemaKept ==
  ASSUME TypeOK, NEW p \in Commands, CommandOK(p), Acts(p), ~ RemoveDb(p), ~ OpenDb(p)
  PROVE  path' = path /\ (path # NoDb => SameSchema(path))
<1>1. path # NoDb => path \in 1 .. MaxDbs
  BY BoundsAssumption DEF TypeOK, NoDb
<1>2. ASSUME dbs' = dbs
      PROVE  path # NoDb => SameSchema(path)
  BY <1>2 DEF SameSchema
<1>3. CASE Begin(p) \/ Lock(p)
  BY <1>2, <1>3 DEF Begin, Lock, DbUnchanged
<1>4. CASE Walk(p)
  BY <1>1, <1>4, MarksMoves DEF Walk
<1>5. ASSUME NEW f \in Files, ReadError(p, f) \/ Unchanged(p, f) \/ ReadDoc(p, f)
      PROVE  path' = path /\ (path # NoDb => SameSchema(path))
  <2>1. CASE ReadDoc(p, f)
    BY <1>1, <2>1, MarksMoves DEF ReadDoc
  <2>2. CASE ReadError(p, f) \/ Unchanged(p, f)
    BY <1>2, <2>2 DEF ReadError, Unchanged, DbUnchanged
  <2>3. QED
    BY <1>5, <2>1, <2>2
<1>6. CASE DeleteChunks(p) \/ UpsertChunks(p) \/ SetFileHash(p)
  BY <1>1, <1>6, ReplaceMoves DEF DeleteChunks, UpsertChunks, SetFileHash
<1>7. CASE TransactionFails(p)
  BY <1>1, <1>7, InterruptMoves DEF TransactionFails, SameSchema
<1>8. CASE Indexed(p) \/ FindStale(p) \/ SelectMissing(p) \/ EmbedEnds(p)
  BY <1>2, <1>8 DEF Indexed, FindStale, SelectMissing, EmbedEnds, DbUnchanged
<1>9. CASE DeleteStale(p) \/ RemoveHashes(p) \/ EmbedBatch(p)
  BY <1>1, <1>9, SyncDbMoves DEF DeleteStale, RemoveHashes, EmbedBatch
<1>10. CASE ReadVectors(p) \/ Hydrate(p)
  BY <1>2, <1>10 DEF ReadVectors, Hydrate, DbUnchanged
<1>11. CASE Done(p) \/ GivesUp(p)
  BY <1>1, <1>11, EndMoves DEF Done, GivesUp, SameSchema
<1>12. CASE Killed(p)
  <2>1. CASE path = NoDb
    BY <1>12, <2>1 DEF Killed
  <2>2. CASE path # NoDb
    <3>1. dbs'[path] = Interrupted(p)[path] /\ path' = path
      BY <1>1, <1>12, <2>2, EndMoves DEF Killed
    <3>2. QED
      <4>1. Interrupted(p)[path].schema = dbs[path].schema
        BY <1>1, <2>2, InterruptMoves
      <4>2. QED
        BY <3>1, <4>1 DEF SameSchema
  <2>3. QED
    BY <2>1, <2>2
<1>13. QED
  BY <1>3, <1>4, <1>5, <1>6, <1>7, <1>8, <1>9, <1>10, <1>11, <1>12 DEF Acts, Step

-----------------------------------------------------------------------------
(* What a command remembers fits where it is.                                *)

\* SelectMissing reads labelled chunks, so it takes texts with their hashes.
LEMMA MissingFits ==
  ASSUME TypeOK, NEW p \in Commands, CommandOK(p), SelectMissing(p),
         \A d \in 1 .. MaxDbs : \A f \in Files : \A r \in Ranges :
           Labelled(dbs[d].rows[f][r])
  PROVE  \A m \in cmd'[p].missing : m.text = m.hash /\ m.text # Absent
<1>1. cmd \in [Commands -> Memory] /\ cmd[p] \in Memory /\ cmd[p].db \in 1 .. MaxDbs
  BY Working DEF TypeOK, SelectMissing, Opening
<1>2. DEFINE sent(c) == [file |-> c[1], range |-> c[2], text |-> Row(p, c[1], c[2]).text,
                         hash |-> Row(p, c[1], c[2]).hash]
             missing == {sent(c) : c \in Unembedded(p)}
<1>3. cmd' = [cmd EXCEPT ![p].pc = "embed", ![p].missing = missing]
  BY DEF SelectMissing
<1>4. \A m \in missing : m.text = m.hash /\ m.text # Absent
  <2>1. SUFFICES ASSUME NEW c \in Unembedded(p)
                 PROVE  Row(p, c[1], c[2]).text = Row(p, c[1], c[2]).hash
                        /\ Row(p, c[1], c[2]).text # Absent
    OBVIOUS
  <2>2. c[1] \in Files /\ c[2] \in Ranges
    BY <1>1, ReadTypes
  <2>3. PICK row \in Chunk : row = Row(p, c[1], c[2])
    BY <1>1, <2>2, ReadTypes
  <2>4. Labelled(row) /\ row # NoRow /\ row.vec = Absent
    BY <1>1, <2>2, <2>3 DEF Unembedded, Chunks, Row, Db
  <2>5. row.text = row.hash
    BY <2>4 DEF Labelled
  <2>6. row.text # Absent
    BY <2>3, <2>4, <2>5 DEF Chunk, NoRow
  <2>7. QED
    BY <2>3, <2>5, <2>6
<1> HIDE DEF missing
<1>5. cmd'[p].missing = missing
  BY <1>1, <1>3 DEF Memory
<1>6. QED
  BY <1>4, <1>5

\* A step of any command keeps what is known of the memory of each.
LEMMA CommandStep ==
  ASSUME TypeOK, NEW p \in Commands, Acts(p), NEW q \in Commands,
         CommandOK(p), CommandOK(q),
         \A d \in 1 .. MaxDbs : \A f \in Files : \A r \in Ranges :
           Labelled(dbs[d].rows[f][r])
  PROVE  CommandOK(q)'
<1>1. CASE q # p
  <2>1. cmd'[q] = cmd[q]
    BY <1>1, OthersStay
  <2>2. ASSUME cmd[q].pc = "remove"
        PROVE  NeedsRebuild(q, cmd[q].unread)'
    <3>1. cmd[p].pc \notin {"remove", "open"}
      BY <1>1, <2>2 DEF TypeOK
    <3>2. path' = path /\ (path # NoDb => SameSchema(path))
      BY <3>1, SchemaKept DEF RemoveDb, OpenDb
    <3>3. QED
      BY <2>1, <2>2, <3>2 DEF CommandOK, NeedsRebuild, SameSchema
  <2>3. QED
    BY <2>1, <2>2 DEF CommandOK
<1>2. CASE q = p
  <2>0. CommandOK(p) /\ cmd[p] \in Memory
    BY DEF TypeOK
  <2> USE DEF Opening, Replacement, SamePlace, SameDoc, SameLists
  <2>1. CASE Begin(p) \/ OpenDb(p) \/ RemoveDb(p)
    <3>1. cmd'[p].pc \in {"lock", "open", "start"} /\ (OpenDb(p) => cmd'[p].db # NoDb)
      BY <2>1, OpenMoves DEF RemoveDb, NoDb
    <3>2. /\ cmd'[p].pc = "start" => cmd'[p].db # NoDb
          /\ cmd'[p].walked = cmd[p].walked /\ SameLists(p)
      BY <2>1, <3>1, OpenMoves DEF RemoveDb
    <3>3. cmd[p].stale = {}
      BY <2>0, <2>1 DEF CommandOK, Begin, OpenDb, RemoveDb
    <3>4. QED
      BY <1>2, <2>0, <3>1, <3>2, <3>3 DEF CommandOK
  <2>2. CASE Lock(p)
    <3>1. /\ cmd'[p].pc \in {"remove", "open"}
          /\ cmd'[p].pc = "remove" => NeedsRebuild(p, cmd'[p].unread)
          /\ SamePlace(p) /\ SameLists(p) /\ dbs' = dbs /\ path' = path
      BY <2>2, OpenMoves DEF Lock, DbUnchanged
    <3>2. cmd'[p].pc = "remove" => NeedsRebuild(p, cmd[p].unread)'
      BY <3>1 DEF NeedsRebuild
    <3>3. cmd[p].stale = {}
      BY <2>0, <2>2 DEF CommandOK, Lock
    <3>4. QED
      BY <1>2, <2>0, <3>1, <3>2, <3>3 DEF CommandOK
  <2>3. CASE Walk(p)
    <3>1. cmd[p].pc = "start" /\ cmd'[p].pc = "file"
      BY <2>3, IndexMoves DEF Walk
    <3>2. /\ cmd'[p].db = cmd[p].db /\ cmd'[p].todo = cmd'[p].walked
          /\ cmd'[p].stale = cmd[p].stale /\ cmd'[p].missing = cmd[p].missing
      BY <2>3, IndexMoves
    <3>3. cmd[p].stale = {}
      BY <2>0, <3>1 DEF CommandOK
    <3>4. QED
      BY <1>2, <2>0, <3>1, <3>2, <3>3 DEF CommandOK
  <2>4. ASSUME NEW f \in Files, ReadError(p, f) \/ Unchanged(p, f) \/ ReadDoc(p, f)
        PROVE  CommandOK(q)'
    <3>1. /\ cmd[p].pc = "file" /\ f \in cmd[p].todo
          /\ cmd'[p].pc \in {"file", "delete"} /\ SamePlace(p)
          /\ cmd'[p].todo \subseteq cmd[p].todo
          /\ cmd'[p].stale = cmd[p].stale /\ cmd'[p].missing = cmd[p].missing
      <4>1. cmd[p].pc = "file" /\ f \in cmd[p].todo
        BY <2>4 DEF ReadError, Unchanged, ReadDoc
      <4>2. CASE ReadDoc(p, f)
        BY <4>1, <4>2, IndexMoves
      <4>3. CASE ReadError(p, f) \/ Unchanged(p, f)
        BY <4>1, <4>3, IndexMoves
      <4>4. QED
        BY <2>4, <4>2, <4>3
    <3>2. cmd'[p].pc = "delete" => cmd'[p].file = f /\ cmd'[p].text # Absent
      BY <2>4, IndexMoves DEF ReadError, Unchanged, ReadDoc
    <3>3. cmd[p].stale = {}
      BY <2>0, <3>1 DEF CommandOK
    <3>4. QED
      BY <1>2, <2>0, <3>1, <3>2, <3>3 DEF CommandOK
  <2>5. CASE DeleteChunks(p) \/ UpsertChunks(p) \/ Indexed(p) \/ EmbedEnds(p)
    <3>1. /\ cmd[p].pc \in {"delete", "upsert", "file", "embed"}
          /\ cmd'[p].pc \in {"upsert", "hash", "sync", "done"}
          /\ cmd'[p].pc \in {"upsert", "hash"} => cmd[p].pc \in {"delete", "upsert"}
          /\ SamePlace(p) /\ SameDoc(p) /\ SameLists(p)
      <4>1. CASE DeleteChunks(p)
        BY <4>1, OpenMoves DEF DeleteChunks
      <4>2. CASE UpsertChunks(p)
        BY <4>2, OpenMoves DEF UpsertChunks
      <4>3. CASE Indexed(p)
        BY <4>3, OpenMoves DEF Indexed
      <4>4. CASE EmbedEnds(p)
        BY <4>4, OpenMoves DEF EmbedEnds
      <4>5. QED
        BY <2>5, <4>1, <4>2, <4>3, <4>4
    <3>2. cmd[p].stale = {}
      BY <2>0, <3>1 DEF CommandOK
    <3>3. QED
      BY <1>2, <2>0, <3>1, <3>2 DEF CommandOK
  <2>6. CASE SetFileHash(p) \/ TransactionFails(p)
    <3>1. /\ cmd[p].pc \in Replacement /\ cmd'[p].pc = "file"
          /\ SamePlace(p) /\ SameLists(p)
      BY <2>6, IndexMoves DEF SetFileHash, TransactionFails
    <3>2. cmd[p].stale = {}
      BY <2>0, <3>1 DEF CommandOK
    <3>3. QED
      BY <1>2, <2>0, <3>1, <3>2 DEF CommandOK
  <2>7. CASE FindStale(p)
    <3>1. /\ cmd[p].pc = "sync"
          /\ cmd'[p].pc \in {"query", "select", "done", "unindex"}
          /\ cmd'[p].stale \cap cmd[p].walked = {}
          /\ cmd'[p].stale # {} => cmd'[p].pc = "unindex"
          /\ cmd'[p].todo = cmd[p].todo /\ cmd'[p].missing = cmd[p].missing
          /\ SamePlace(p)
      BY <2>7, SyncMoves DEF FindStale
    <3>2. QED
      BY <1>2, <2>0, <3>1 DEF CommandOK
  <2>8. CASE DeleteStale(p)
    <3>1. /\ cmd[p].pc = "unindex" /\ cmd'[p].pc = "unhash"
          /\ SamePlace(p) /\ SameLists(p)
      BY <2>8, OpenMoves DEF DeleteStale
    <3>2. QED
      BY <1>2, <2>0, <3>1 DEF CommandOK
  <2>9. CASE RemoveHashes(p)
    <3>1. /\ cmd[p].pc = "unhash" /\ cmd'[p].pc \in {"query", "select", "done"}
          /\ SamePlace(p) /\ cmd'[p].stale = {}
          /\ cmd'[p].todo = cmd[p].todo /\ cmd'[p].missing = cmd[p].missing
      BY <2>9, SyncMoves DEF RemoveHashes
    <3>2. QED
      BY <1>2, <2>0, <3>1 DEF CommandOK
  <2>10. CASE SelectMissing(p) \/ EmbedBatch(p)
    <3>1. /\ cmd[p].pc \in {"select", "embed"} /\ cmd'[p].pc = "embed"
          /\ SamePlace(p)
          /\ cmd'[p].todo = cmd[p].todo /\ cmd'[p].stale = cmd[p].stale
      BY <2>10, SyncMoves DEF SelectMissing, EmbedBatch
    <3>2. \A m \in cmd'[p].missing : m.text = m.hash /\ m.text # Absent
      BY <2>0, <2>10, MissingFits, SyncMoves DEF CommandOK
    <3>3. cmd[p].stale = {}
      BY <2>0, <3>1 DEF CommandOK
    <3>4. QED
      BY <1>2, <2>0, <3>1, <3>2, <3>3 DEF CommandOK
  <2>11. CASE ReadVectors(p) \/ Hydrate(p)
    <3>1. /\ cmd[p].pc \in {"query", "start", "hydrate"}
          /\ cmd'[p].pc \in {"hydrate", "done"}
          /\ SamePlace(p) /\ SameLists(p)
      BY <2>11, SyncMoves DEF ReadVectors, Hydrate
    <3>2. cmd[p].stale = {}
      BY <2>0, <3>1 DEF CommandOK
    <3>3. QED
      BY <1>2, <2>0, <3>1, <3>2 DEF CommandOK
  <2>12. CASE Done(p) \/ GivesUp(p) \/ Killed(p)
    <3>1. /\ cmd'[p].pc = "ended"
          /\ cmd'[p].todo = {} /\ cmd'[p].stale = {} /\ cmd'[p].missing = {}
      BY <2>12, SyncMoves
    <3>2. QED
      BY <1>2, <3>1 DEF CommandOK
  <2>13. QED
    BY <2>1, <2>2, <2>3, <2>4, <2>5, <2>6, <2>7, <2>8, <2>9, <2>10, <2>11, <2>12
    DEF Acts, Step
<1>3. QED
  BY <1>1, <1>2

-----------------------------------------------------------------------------
(* Vectors are labelled.                                                     *)
LEMMA NewRowsLabelled ==
  /\ Labelled(NoRow)
  /\ \A r \in Ranges : Labelled(NoRows[r])
  /\ \A c : \A r \in Ranges : Labelled(RowsOf(c)[r])
  /\ \A s : \A f \in Files : \A r \in Ranges : Labelled(EmptyDb(s).rows[f][r])
<1>1. Labelled(NoRow) /\ \A c : Labelled(NewRow(c))
  BY DEF Labelled, NoRow, NewRow
<1>2. /\ \A r \in Ranges : Labelled(NoRows[r])
      /\ \A c : \A r \in Ranges : Labelled(RowsOf(c)[r])
  BY <1>1 DEF NoRows, RowsOf
<1>3. \A s : \A f \in Files : EmptyDb(s).rows[f] = NoRows
  BY DEF EmptyDb
<1>4. QED
  BY <1>1, <1>2, <1>3

\* A step of any command leaves every vector labelled.
LEMMA LabelStep ==
  ASSUME TypeOK, NEW p \in Commands, CommandOK(p), Acts(p),
         \A d \in 1 .. MaxDbs : \A f \in Files : \A r \in Ranges :
           Labelled(dbs[d].rows[f][r]),
         NEW d \in 1 .. MaxDbs, NEW f \in Files, NEW r \in Ranges
  PROVE  Labelled(dbs'[d].rows[f][r])
<1>1. Labelled(dbs[d].rows[f][r]) /\ dbs[d].rows[f][r] \in Chunk
  <2>1. dbs[d] \in DbFile
    BY DEF TypeOK
  <2>2. QED
    BY <2>1 DEF DbFile
<1>2. CASE dbs' = dbs
  BY <1>1, <1>2
<1>3. CASE SameRows(d)
  BY <1>1, <1>3 DEF SameRows
<1>4. CASE Begin(p) \/ Lock(p) \/ Indexed(p) \/ FindStale(p) \/ SelectMissing(p)
           \/ EmbedEnds(p) \/ ReadVectors(p) \/ Hydrate(p)
  BY <1>2, <1>4 DEF Begin, Lock, Indexed, FindStale, SelectMissing,
                    EmbedEnds, ReadVectors, Hydrate, DbUnchanged
<1>5. CASE OpenDb(p) \/ Walk(p) \/ SetFileHash(p) \/ RemoveHashes(p)
  BY <1>3, <1>5, MarksMoves, ReplaceMoves, SyncDbMoves
<1>6. ASSUME NEW g \in Files, ReadError(p, g) \/ Unchanged(p, g) \/ ReadDoc(p, g)
      PROVE  Labelled(dbs'[d].rows[f][r])
  <2>1. CASE ReadDoc(p, g)
    BY <1>3, <2>1, MarksMoves
  <2>2. CASE ReadError(p, g) \/ Unchanged(p, g)
    BY <1>2, <2>2 DEF ReadError, Unchanged, DbUnchanged
  <2>3. QED
    BY <1>6, <2>1, <2>2
<1>7. CASE DeleteChunks(p)
  <2>1. dbs'[d].rows[f] \in {NoRows, dbs[d].rows[f]}
    BY <1>7, ReplaceMoves
  <2>2. QED
    BY <1>1, <2>1, NewRowsLabelled
<1>8. CASE UpsertChunks(p)
  <2>1. \/ dbs'[d].rows[f] = dbs[d].rows[f]
        \/ dbs'[d].rows[f] = [s \in Ranges |-> IF RowsOf(cmd[p].text)[s] # NoRow
                                                 THEN RowsOf(cmd[p].text)[s]
                                                 ELSE dbs[d].rows[f][s]]
    BY <1>8, ReplaceMoves
  <2>2. dbs'[d].rows[f][r] \in {dbs[d].rows[f][r], RowsOf(cmd[p].text)[r]}
    BY <2>1
  <2>3. QED
    BY <1>1, <2>2, NewRowsLabelled
<1>9. CASE TransactionFails(p)
  BY <1>1, <1>9, InterruptMoves DEF TransactionFails
<1>10. CASE DeleteStale(p)
  BY <1>1, <1>10, SyncDbMoves, NewRowsLabelled
<1>11. CASE EmbedBatch(p)
  <2>1. CASE dbs'[d].rows[f][r] = dbs[d].rows[f][r]
    BY <1>1, <2>1
  <2>2. ASSUME NEW m \in cmd[p].missing,
               dbs'[d].rows[f][r] = Embedded(dbs[d].rows[f][r], m)
        PROVE  Labelled(dbs'[d].rows[f][r])
    <3>1. m.text = m.hash /\ m.text # Absent
      BY DEF CommandOK
    <3>2. PICK row \in Chunk : row = dbs[d].rows[f][r]
      BY <1>1
    <3>3. Labelled(Embedded(row, m))
      BY <3>1, <3>2 DEF Labelled, Embedded, Chunk
    <3>4. QED
      BY <2>2, <3>2, <3>3
  <2>3. QED
    BY <1>11, <2>1, <2>2, SyncDbMoves
<1>12. CASE RemoveDb(p)
  BY <1>1, <1>12, EndMoves, NewRowsLabelled
<1>13. CASE Done(p) \/ GivesUp(p)
  BY <1>1, <1>13, EndMoves, NewRowsLabelled DEF Done, GivesUp
<1>14. CASE Killed(p)
  <2>1. Interrupted(p)[d].rows = dbs[d].rows
    BY InterruptMoves
  <2>2. dbs'[d] \in {Interrupted(p)[d], EmptyDb("old")}
    BY <1>14, EndMoves DEF Killed
  <2>3. QED
    BY <1>1, <2>1, <2>2, NewRowsLabelled
<1>15. QED
  BY <1>4, <1>5, <1>6, <1>7, <1>8, <1>9, <1>10, <1>11, <1>12, <1>13, <1>14
  DEF Acts, Step
-----------------------------------------------------------------------------
(* The documents of a database.                                              *)

\* q is no further with document f than it was.
Stands(q, f) ==
  /\ cmd'[q].file = f /\ cmd'[q].pc \in {"upsert", "hash"} =>
       cmd[q].file = f /\ cmd'[q].pc = cmd[q].pc /\ cmd'[q].text = cmd[q].text
  /\ f \in Halfway(q) => f \in Halfway(q)'

\* Nothing that was known of document f is lost.
Known(d, f) ==
  /\ f \in dbs[d].raced => f \in dbs'[d].raced
  /\ f \in dbs[d].broken => f \in dbs'[d].broken
  /\ f \in dbs'[d].broken => f \in dbs[d].broken \/ Replacing(d, f) # {}
  /\ Outdated(d, f) => Outdated(d, f)'
  /\ Vouched(d, f) => Vouched(d, f)'
  /\ dbs[d].rows[f] = NoRows => dbs'[d].rows[f] = NoRows
  /\ Texts(dbs'[d].rows[f]) = Texts(dbs[d].rows[f])

\* A document stays as it should be when p, at most, stops replacing its chunks,
\* and leaves it marked as broken if it was halfway.
LEMMA DocKept ==
  ASSUME NEW p, NEW d, NEW f, DocOK(d, f), Known(d, f),
         \A q \in Commands : q # p => cmd'[q] = cmd[q],
         p \in Replacing(d, f)' => p \in Replacing(d, f) /\ Stands(p, f),
         p \in Replacing(d, f) /\ p \notin Replacing(d, f)' /\ f \in Halfway(p)
           => f \in dbs'[d].broken
  PROVE  DocOK(d, f)'
<1>1. \A q \in Commands : q # p =>
        /\ q \in Replacing(d, f)' <=> q \in Replacing(d, f)
        /\ Stands(q, f)
  BY DEF Replacing, Stands, Halfway
<1>2. \A q \in Replacing(d, f)' : q \in Replacing(d, f) /\ Stands(q, f)
  BY <1>1 DEF Replacing
<1>3. SUFFICES ASSUME f \notin dbs'[d].raced
               PROVE  /\ \A q, s \in Replacing(d, f)' : q = s
                      /\ \A q \in Replacing(d, f)' : ReplacedBy(q, d, f)'
                      /\ f \in dbs'[d].broken => Outdated(d, f)'
                      /\ \/ f \in dbs'[d].broken
                         \/ Vouched(d, f)'
                         \/ \E q \in Replacing(d, f)' : f \in Halfway(q)'
  BY DEF DocOK
<1>4. /\ \A q, s \in Replacing(d, f) : q = s
      /\ \A q \in Replacing(d, f) : ReplacedBy(q, d, f)
      /\ f \in dbs[d].broken => Outdated(d, f)
      /\ \/ f \in dbs[d].broken
         \/ Vouched(d, f)
         \/ \E q \in Replacing(d, f) : f \in Halfway(q)
  BY <1>3 DEF DocOK, Known
<1>5. \A q, s \in Replacing(d, f)' : q = s
  BY <1>2, <1>4
<1>6. ASSUME NEW q \in Replacing(d, f)'
      PROVE  ReplacedBy(q, d, f)'
  <2>1. ReplacedBy(q, d, f) /\ Stands(q, f)
    BY <1>2, <1>4
  <2>2. QED
    BY <2>1 DEF ReplacedBy, Stands, Known
<1>7. ASSUME f \in dbs'[d].broken
      PROVE  Outdated(d, f)'
  <2>1. CASE f \in dbs[d].broken
    BY <1>4, <2>1 DEF Known
  <2>2. CASE Replacing(d, f) # {}
    BY <1>4, <2>2 DEF ReplacedBy, Known
  <2>3. QED
    BY <1>7, <2>1, <2>2 DEF Known
<1>8. ASSUME NEW q \in Replacing(d, f), f \in Halfway(q), f \notin dbs'[d].broken
      PROVE  \E s \in Replacing(d, f)' : f \in Halfway(s)'
  <2>1. q \in Replacing(d, f)'
    BY <1>1, <1>8 DEF Replacing
  <2>2. QED
    BY <1>2, <1>8, <2>1 DEF Stands
<1>9. QED
  BY <1>4, <1>5, <1>6, <1>7, <1>8 DEF Known

\* What is known of a document does not change with the database's other fields.
LEMMA SameKnown ==
  ASSUME NEW d, NEW f, docs' = docs,
         dbs'[d].rows[f] = dbs[d].rows[f], dbs'[d].meta[f] = dbs[d].meta[f],
         f \in dbs[d].raced => f \in dbs'[d].raced,
         f \in dbs[d].back => f \in dbs'[d].back,
         f \in dbs'[d].broken <=> f \in dbs[d].broken
  PROVE  Known(d, f)
BY DEF Known, Outdated, Vouched

\* In a new database nothing is indexed, and nobody is at work.
LEMMA EmptyDoc ==
  ASSUME NEW d, NEW f \in Files, NEW s, dbs'[d] = EmptyDb(s), Replacing(d, f)' = {}
  PROVE  DocOK(d, f)'
BY DEF DocOK, Vouched, EmptyDb

\* A step of a command that is not replacing anything, before or after.
LEMMA IdleDoc ==
  ASSUME TypeOK, NEW p \in Commands, Acts(p), NEW d, NEW f, DocOK(d, f), Known(d, f),
         cmd[p].pc \notin Replacement, cmd'[p].pc \notin Replacement,
         p \in Replacing(d, f) => f \notin Halfway(p),
         cmd'[p].pc \in {"file", "sync", "unindex", "unhash"} =>
           /\ cmd[p].pc \in {"file", "sync", "unindex", "unhash"}
           /\ cmd'[p].db = cmd[p].db /\ cmd'[p].walked = cmd[p].walked
  PROVE  DocOK(d, f)'
<1>1. \A q \in Commands : q # p => cmd'[q] = cmd[q]
  BY OthersStay
<1>2. p \in Replacing(d, f)' => p \in Replacing(d, f) /\ Stands(p, f)
  BY DEF Replacing, Stands, Replacement
<1>3. QED
  BY <1>1, <1>2, DocKept

\* The steps that change no database.
LEMMA ReadingDoc ==
  ASSUME TypeOK, NEW p \in Commands, NEW d, NEW f, DocOK(d, f),
         \/ Begin(p) \/ Lock(p) \/ Indexed(p) \/ FindStale(p) \/ SelectMissing(p)
         \/ EmbedEnds(p) \/ ReadVectors(p) \/ Hydrate(p)
         \/ \E g \in Files : ReadError(p, g) \/ Unchanged(p, g)
  PROVE  DocOK(d, f)'
<1> USE DEF Replacement, SamePlace, Halfway
<1>1. Acts(p)
  BY DEF Acts, Step
<1>2. dbs' = dbs /\ docs' = docs
  BY DEF Begin, Lock, Indexed, FindStale, SelectMissing, EmbedEnds, ReadVectors,
         Hydrate, ReadError, Unchanged, DbUnchanged
<1>3. Known(d, f)
  BY <1>2, SameKnown
<1>4. CASE Begin(p) \/ Lock(p)
  <2>1. cmd[p].pc \in {"new", "lock"} /\ cmd'[p].pc \in {"lock", "remove", "open"}
    BY <1>4, OpenMoves DEF Begin, Lock
  <2>2. QED
    BY <1>1, <1>3, <2>1, IdleDoc
<1>5. CASE Indexed(p) \/ EmbedEnds(p)
  <2>1. /\ \/ cmd[p].pc = "file" /\ cmd'[p].pc = "sync"
           \/ cmd[p].pc = "embed" /\ cmd'[p].pc = "done"
        /\ cmd'[p].db = cmd[p].db /\ cmd'[p].walked = cmd[p].walked
    BY <1>5, OpenMoves DEF Indexed, EmbedEnds
  <2>2. QED
    BY <1>1, <1>3, <2>1, IdleDoc
<1>6. CASE FindStale(p)
  <2>1. /\ cmd[p].pc = "sync"
        /\ cmd'[p].pc \in {"query", "select", "done", "unindex"}
        /\ cmd'[p].db = cmd[p].db /\ cmd'[p].walked = cmd[p].walked
    BY <1>6, SyncMoves DEF FindStale
  <2>2. QED
    BY <1>1, <1>3, <2>1, IdleDoc
<1>7. CASE SelectMissing(p) \/ ReadVectors(p) \/ Hydrate(p)
  <2>1. /\ cmd[p].pc \in {"select", "query", "start", "hydrate"}
        /\ cmd'[p].pc \in {"embed", "hydrate", "done"}
    BY <1>7, SyncMoves DEF SelectMissing, ReadVectors, Hydrate
  <2>2. QED
    BY <1>1, <1>3, <2>1, IdleDoc
<1>8. ASSUME NEW g \in Files, ReadError(p, g) \/ Unchanged(p, g)
      PROVE  DocOK(d, f)'
  <2>1. /\ cmd[p].pc = "file" /\ cmd'[p].pc = "file"
        /\ cmd'[p].db = cmd[p].db /\ cmd'[p].walked = cmd[p].walked
    BY <1>8, IndexMoves DEF ReadError, Unchanged
  <2>2. QED
    BY <1>1, <1>3, <2>1, IdleDoc
<1>9. QED
  BY <1>4, <1>5, <1>6, <1>7, <1>8

\* A step that replaces the chunks of another document.
LEMMA OtherDoc ==
  ASSUME TypeOK, NEW p \in Commands, NEW d, NEW f, DocOK(d, f), Known(d, f),
         d # cmd[p].db \/ f # cmd[p].file,
         DeleteChunks(p) \/ UpsertChunks(p) \/ SetFileHash(p) \/ TransactionFails(p)
  PROVE  DocOK(d, f)'
<1>1. \A q \in Commands : q # p => cmd'[q] = cmd[q]
  BY OthersStay DEF Acts, Step
<1>2. /\ cmd[p].pc \in Replacement
      /\ \/ cmd'[p].pc = "file"
         \/ cmd'[p].pc \in Replacement /\ cmd'[p].file = cmd[p].file
      /\ cmd'[p].db = cmd[p].db /\ cmd'[p].walked = cmd[p].walked
  <2>1. CASE DeleteChunks(p) \/ UpsertChunks(p)
    BY <2>1, OpenMoves DEF DeleteChunks, UpsertChunks, Replacement, SamePlace, SameDoc
  <2>2. CASE SetFileHash(p) \/ TransactionFails(p)
    <3>1. cmd[p].pc \in Replacement
      BY <2>2 DEF SetFileHash, TransactionFails, Replacement
    <3>2. cmd'[p].pc = "file" /\ SamePlace(p)
      BY <2>2, IndexMoves
    <3>3. QED
      BY <3>1, <3>2 DEF SamePlace
  <2>3. QED
    BY <2>1, <2>2
<1>3. CASE d # cmd[p].db
  <2>1. p \notin Replacing(d, f) /\ p \notin Replacing(d, f)'
    BY <1>2, <1>3 DEF Replacing
  <2>2. QED
    BY <1>1, <2>1, DocKept
<1>4. CASE f # cmd[p].file
  <2>1. f \notin Halfway(p)
    BY <1>2, <1>4 DEF Halfway, Replacement
  <2>2. p \in Replacing(d, f)' => p \in Replacing(d, f) /\ Stands(p, f)
    BY <1>2, <1>4, <2>1 DEF Replacing, Replacement, Stands
  <2>3. QED
    BY <1>1, <2>1, <2>2, DocKept
<1>5. QED
  BY <1>3, <1>4

\* The walk: a document that is gone will be taken out of the index.
LEMMA WalkDoc ==
  ASSUME TypeOK, NEW p \in Commands, CommandOK(p), NEW d \in 1 .. MaxDbs,
         NEW f \in Files, DocOK(d, f), Walk(p)
  PROVE  DocOK(d, f)'
<1>1. /\ \A q \in Commands : q # p => cmd'[q] = cmd[q]
      /\ cmd[p].pc = "start" /\ docs' = docs
  BY OthersStay DEF Acts, Step, Walk
<1>2. /\ cmd'[p].pc = "file" /\ cmd'[p].db = cmd[p].db
      /\ f \in cmd'[p].walked <=> docs[f] # Absent
  BY IndexMoves
<1>3. /\ dbs'[d].rows[f] = dbs[d].rows[f] /\ dbs'[d].meta[f] = dbs[d].meta[f]
      /\ f \in dbs[d].raced => f \in dbs'[d].raced
      /\ dbs'[d].broken = dbs[d].broken /\ dbs'[d].back = dbs[d].back
      /\ d = cmd[p].db /\ docs[f] = Absent /\ Replacing(d, f) # {} => f \in dbs'[d].raced
  BY MarksMoves DEF SameRows, SameMeta, SameBroken, SameBack
<1>4. Known(d, f)
  BY <1>1, <1>3, SameKnown
<1>5. p \notin Replacing(d, f)
  BY <1>1 DEF Replacing
<1>6. CASE p \notin Replacing(d, f)'
  BY <1>1, <1>4, <1>5, <1>6, DocKept
<1>7. CASE p \in Replacing(d, f)'
  <2>1. d = cmd[p].db /\ docs[f] = Absent /\ f \notin cmd'[p].walked
    BY <1>2, <1>7 DEF Replacing
  <2>2. SUFFICES ASSUME f \notin dbs'[d].raced
                 PROVE  DocOK(d, f)'
    BY DEF DocOK
  <2>3. Replacing(d, f) = {} /\ f \notin dbs[d].raced
    BY <1>3, <2>1, <2>2
  <2>4. Replacing(d, f)' = {p}
    BY <1>1, <1>7, <2>3 DEF Replacing
  <2>5. Outdated(d, f)'
    BY <1>1, <2>1 DEF Outdated
  <2>6. ReplacedBy(p, d, f)'
    BY <1>2, <2>5 DEF ReplacedBy
  <2>7. f \in dbs'[d].broken \/ Vouched(d, f)'
    BY <1>4, <2>3 DEF DocOK, Known
  <2>8. QED
    BY <2>4, <2>5, <2>6, <2>7 DEF DocOK
<1>8. QED
  BY <1>6, <1>7

\* Reading a document: its chunks will be replaced, by one command at a time.
LEMMA ReadDocDoc ==
  ASSUME TypeOK, NEW p \in Commands, CommandOK(p), NEW d \in 1 .. MaxDbs,
         NEW f \in Files, DocOK(d, f), NEW g \in Files, ReadDoc(p, g)
  PROVE  DocOK(d, f)'
<1>1. /\ \A q \in Commands : q # p => cmd'[q] = cmd[q]
      /\ cmd[p].pc = "file" /\ docs' = docs /\ docs[g] # Absent
      /\ g \in cmd[p].walked
  BY OthersStay DEF Acts, Step, ReadDoc, CommandOK
<1>2. /\ cmd'[p].pc = "delete" /\ cmd'[p].db = cmd[p].db /\ cmd'[p].file = g
      /\ cmd'[p].walked = cmd[p].walked
  BY IndexMoves DEF SamePlace
<1>3. /\ dbs'[d].rows[f] = dbs[d].rows[f] /\ dbs'[d].meta[f] = dbs[d].meta[f]
      /\ f \in dbs[d].raced => f \in dbs'[d].raced
      /\ dbs'[d].broken = dbs[d].broken
      /\ f = g /\ d = cmd[p].db /\ Replacing(d, f) # {} => f \in dbs'[d].raced
  BY MarksMoves DEF SameRows, SameMeta, SameBroken
<1>4. /\ f = g /\ d = cmd[p].db /\ dbs[d].meta[f] = docs[f] => f \in dbs'[d].back
      /\ f # g \/ d # cmd[p].db => (f \in dbs[d].back => f \in dbs'[d].back)
  BY MarksMoves DEF SameBack
<1>5. f \notin Halfway(p)
  BY <1>1 DEF Halfway
<1>6. CASE f # g \/ d # cmd[p].db
  <2>1. Known(d, f)
    BY <1>1, <1>3, <1>4, <1>6, SameKnown
  <2>2. p \in Replacing(d, f)' => p \in Replacing(d, f)
    BY <1>1, <1>2, <1>6 DEF Replacing
  <2>3. Stands(p, f)
    BY <1>2, <1>5 DEF Stands
  <2>4. QED
    BY <1>1, <1>5, <2>1, <2>2, <2>3, DocKept
<1>7. CASE f = g /\ d = cmd[p].db
  <2>1. SUFFICES ASSUME f \notin dbs'[d].raced
                 PROVE  DocOK(d, f)'
    BY DEF DocOK
  <2>2. Replacing(d, f) = {} /\ f \notin dbs[d].raced
    BY <1>3, <1>7, <2>1
  <2>3. Replacing(d, f)' = {p}
    BY <1>1, <1>2, <1>7, <2>2 DEF Replacing
  <2>4. f \in dbs[d].broken \/ Vouched(d, f)
    BY <2>2 DEF DocOK
  <2>5. Outdated(d, f)'
    BY <1>1, <1>3, <1>4, <1>7 DEF Outdated
  <2>6. ReplacedBy(p, d, f)'
    BY <1>2, <2>5 DEF ReplacedBy
  <2>7. f \in dbs'[d].broken \/ Vouched(d, f)'
    BY <1>3, <2>4 DEF Vouched
  <2>8. QED
    BY <2>3, <2>5, <2>6, <2>7 DEF DocOK
<1>8. QED
  BY <1>6, <1>7

\* The command that replaces the chunks of its document does it alone, unless
\* the document is marked.
LEMMA Alone ==
  ASSUME NEW p \in Commands, NEW d, NEW f, DocOK(d, f), f \notin dbs[d].raced,
         cmd[p].db = d, cmd[p].file = f, cmd[p].pc \in Replacement
  PROVE  /\ Replacing(d, f) = {p}
         /\ ReplacedBy(p, d, f)
<1>1. p \in Replacing(d, f)
  BY DEF Replacing, Replacement
<1>2. QED
  BY <1>1 DEF DocOK

\* The chunks of the document are deleted.
LEMMA DeleteDoc ==
  ASSUME TypeOK, NEW p \in Commands, CommandOK(p), NEW d \in 1 .. MaxDbs,
         NEW f \in Files, DocOK(d, f), DeleteChunks(p)
  PROVE  DocOK(d, f)'
<1>1. /\ \A q \in Commands : q # p => cmd'[q] = cmd[q]
      /\ cmd[p].pc = "delete" /\ docs' = docs
  BY OthersStay DEF Acts, Step, DeleteChunks
<1>2. /\ cmd'[p].pc = "upsert" /\ SamePlace(p) /\ SameDoc(p)
  BY OpenMoves DEF DeleteChunks
<1>3. /\ dbs'[d].rows[f] = IF d = cmd[p].db /\ f = cmd[p].file THEN NoRows
                           ELSE dbs[d].rows[f]
      /\ dbs'[d].meta[f] = dbs[d].meta[f] /\ dbs'[d].raced = dbs[d].raced
      /\ dbs'[d].broken = dbs[d].broken /\ dbs'[d].back = dbs[d].back
  BY ReplaceMoves DEF SameMeta, SameMarks, SameBroken, SameBack
<1>4. CASE d # cmd[p].db \/ f # cmd[p].file
  <2>1. Known(d, f)
    BY <1>1, <1>3, <1>4, SameKnown
  <2>2. QED
    BY <1>4, <2>1, OtherDoc
<1>5. CASE d = cmd[p].db /\ f = cmd[p].file
  <2>1. SUFFICES ASSUME f \notin dbs[d].raced
                 PROVE  DocOK(d, f)'
    BY <1>3 DEF DocOK
  <2>2. Replacing(d, f) = {p} /\ ReplacedBy(p, d, f)
    BY <1>1, <1>5, <2>1, Alone DEF Replacement
  <2>3. Replacing(d, f)' = {p}
    BY <1>1, <1>2, <1>5, <2>2 DEF Replacing, SamePlace, SameDoc
  <2>4. Outdated(d, f)'
    BY <1>1, <1>3, <2>2 DEF Outdated, ReplacedBy
  <2>5. ReplacedBy(p, d, f)'
    BY <1>2, <1>3, <1>5, <2>4 DEF ReplacedBy
  <2>6. f \in Halfway(p)'
    BY <1>2, <1>5 DEF Halfway, SameDoc
  <2>7. QED
    BY <2>3, <2>4, <2>5, <2>6 DEF DocOK
<1>6. QED
  BY <1>4, <1>5

\* New chunks are written where there are none.
LEMMA UpsertDoc ==
  ASSUME TypeOK, NEW p \in Commands, CommandOK(p), NEW d \in 1 .. MaxDbs,
         NEW f \in Files, DocOK(d, f), UpsertChunks(p)
  PROVE  DocOK(d, f)'
<1>1. /\ \A q \in Commands : q # p => cmd'[q] = cmd[q]
      /\ cmd[p].pc = "upsert" /\ docs' = docs
  BY OthersStay DEF Acts, Step, UpsertChunks
<1>2. /\ cmd'[p].pc = "hash" /\ SamePlace(p) /\ SameDoc(p)
  BY OpenMoves DEF UpsertChunks
<1>3. /\ dbs'[d].rows[f] =
           IF d = cmd[p].db /\ f = cmd[p].file
             THEN [r \in Ranges |-> IF RowsOf(cmd[p].text)[r] # NoRow
                                      THEN RowsOf(cmd[p].text)[r]
                                      ELSE dbs[d].rows[f][r]]
             ELSE dbs[d].rows[f]
      /\ dbs'[d].meta[f] = dbs[d].meta[f] /\ dbs'[d].raced = dbs[d].raced
      /\ dbs'[d].broken = dbs[d].broken /\ dbs'[d].back = dbs[d].back
  BY ReplaceMoves DEF SameMeta, SameMarks, SameBroken, SameBack
<1>4. CASE d # cmd[p].db \/ f # cmd[p].file
  <2>1. Known(d, f)
    BY <1>1, <1>3, <1>4, SameKnown
  <2>2. QED
    BY <1>4, <2>1, OtherDoc
<1>5. CASE d = cmd[p].db /\ f = cmd[p].file
  <2>1. SUFFICES ASSUME f \notin dbs[d].raced
                 PROVE  DocOK(d, f)'
    BY <1>3 DEF DocOK
  <2>2. Replacing(d, f) = {p} /\ ReplacedBy(p, d, f)
    BY <1>1, <1>5, <2>1, Alone DEF Replacement
  <2>3. Replacing(d, f)' = {p}
    BY <1>1, <1>2, <1>5, <2>2 DEF Replacing, SamePlace, SameDoc
  <2>4. Outdated(d, f)'
    BY <1>1, <1>3, <2>2 DEF Outdated, ReplacedBy
  <2>6. dbs[d].rows[f] = NoRows
    BY <1>1, <1>5, <2>2 DEF ReplacedBy
  <2>7. Texts(dbs'[d].rows[f]) = Texts(RowsOf(cmd[p].text))
    <3>1. \A r \in Ranges : dbs'[d].rows[f][r] = RowsOf(cmd[p].text)[r]
      BY <1>3, <1>5, <2>6 DEF NoRows
    <3>2. QED
      BY <3>1 DEF Texts
  <2>8. ReplacedBy(p, d, f)'
    BY <1>2, <2>4, <2>7 DEF ReplacedBy, SameDoc
  <2>9. f \in Halfway(p)'
    BY <1>2, <1>5 DEF Halfway, SameDoc
  <2>10. QED
    BY <2>3, <2>4, <2>8, <2>9 DEF DocOK
<1>6. QED
  BY <1>4, <1>5

\* The hash vouches for the chunks that were written before it.
LEMMA HashDoc ==
  ASSUME TypeOK, NEW p \in Commands, CommandOK(p), NEW d \in 1 .. MaxDbs,
         NEW f \in Files, DocOK(d, f), SetFileHash(p)
  PROVE  DocOK(d, f)'
<1>1. /\ \A q \in Commands : q # p => cmd'[q] = cmd[q]
      /\ cmd[p].pc = "hash" /\ docs' = docs
      /\ cmd[p].file \in cmd[p].walked
  BY OthersStay DEF Acts, Step, SetFileHash, CommandOK, Replacement
<1>2. cmd'[p].pc = "file" /\ SamePlace(p)
  BY IndexMoves
<1>3. /\ dbs'[d].rows[f] = dbs[d].rows[f]
      /\ dbs'[d].meta[f] = IF d = cmd[p].db /\ f = cmd[p].file
                             THEN cmd[p].text ELSE dbs[d].meta[f]
      /\ dbs'[d].raced = dbs[d].raced /\ dbs'[d].back = dbs[d].back
      /\ d # cmd[p].db \/ f # cmd[p].file
           => (f \in dbs'[d].broken <=> f \in dbs[d].broken)
      /\ d = cmd[p].db /\ f = cmd[p].file /\ Replacing(d, f) = {p}
           => f \notin dbs'[d].broken
  BY ReplaceMoves DEF SameRows, SameBack
<1>4. CASE d # cmd[p].db \/ f # cmd[p].file
  <2>1. Known(d, f)
    BY <1>1, <1>3, <1>4, SameKnown
  <2>2. QED
    BY <1>4, <2>1, OtherDoc
<1>5. CASE d = cmd[p].db /\ f = cmd[p].file
  <2>1. SUFFICES ASSUME f \notin dbs[d].raced
                 PROVE  DocOK(d, f)'
    BY <1>3 DEF DocOK
  <2>2. Replacing(d, f) = {p} /\ ReplacedBy(p, d, f)
    BY <1>1, <1>5, <2>1, Alone DEF Replacement
  <2>3. Replacing(d, f)' = {}
    BY <1>1, <1>2, <1>5, <2>2 DEF Replacing, SamePlace
  <2>4. Texts(dbs'[d].rows[f]) = Texts(RowsOf(dbs'[d].meta[f]))
    BY <1>1, <1>3, <1>5, <2>2 DEF ReplacedBy
  <2>5. f \notin dbs'[d].broken
    BY <1>3, <1>5, <2>2
  <2>6. QED
    BY <2>3, <2>4, <2>5 DEF DocOK, Vouched
<1>6. QED
  BY <1>4, <1>5

\* Interrupting a command leaves a mark on what it was halfway with.
LEMMA InterruptedKnown ==
  ASSUME TypeOK, NEW p \in Commands, CommandOK(p), NEW d \in 1 .. MaxDbs, NEW f \in Files,
         docs' = docs, dbs'[d] = Interrupted(p)[d]
  PROVE  /\ Known(d, f)
         /\ p \in Replacing(d, f) /\ f \in Halfway(p) => f \in dbs'[d].broken
<1>1. /\ dbs'[d].rows = dbs[d].rows /\ dbs'[d].meta = dbs[d].meta
      /\ dbs'[d].raced = dbs[d].raced /\ dbs'[d].back = dbs[d].back
      /\ dbs'[d].broken = IF d = cmd[p].db THEN dbs[d].broken \cup Halfway(p)
                          ELSE dbs[d].broken
  BY InterruptMoves
<1>2. d = cmd[p].db /\ f \in Halfway(p) => p \in Replacing(d, f)
  BY DEF Halfway, Replacing, CommandOK
<1>3. Known(d, f)
  BY <1>1, <1>2 DEF Known, Outdated, Vouched
<1>4. QED
  BY <1>1, <1>3 DEF Replacing

\* A transaction that fails keeps what is known of the document.
LEMMA FailDoc ==
  ASSUME TypeOK, NEW p \in Commands, CommandOK(p), NEW d \in 1 .. MaxDbs,
         NEW f \in Files, DocOK(d, f), TransactionFails(p)
  PROVE  DocOK(d, f)'
<1>1. /\ \A q \in Commands : q # p => cmd'[q] = cmd[q]
      /\ docs' = docs /\ dbs' = Interrupted(p)
      /\ cmd[p].pc \in Replacement /\ cmd[p].file \in cmd[p].walked
  BY OthersStay DEF Acts, TransactionFails, CommandOK, Replacement
<1>2. cmd'[p].pc = "file" /\ SamePlace(p)
  BY IndexMoves
<1>3. /\ Known(d, f)
      /\ p \in Replacing(d, f) /\ f \in Halfway(p) => f \in dbs'[d].broken
  BY <1>1, InterruptedKnown
<1>4. ASSUME p \in Replacing(d, f)'
      PROVE  p \in Replacing(d, f) /\ Stands(p, f)
  <2>1. f \notin cmd[p].walked /\ cmd[p].db = d
    BY <1>2, <1>4 DEF Replacing, SamePlace
  <2>2. f \notin Halfway(p)
    BY <1>1, <2>1 DEF Halfway, Replacement
  <2>3. QED
    BY <1>1, <1>2, <2>1, <2>2 DEF Replacing, Stands, Replacement, SamePlace
<1>5. QED
  BY <1>1, <1>3, <1>4, DocKept

\* A document that the walk has not seen is taken out of the index.
LEMMA StaleDoc ==
  ASSUME TypeOK, NEW p \in Commands, CommandOK(p), NEW d \in 1 .. MaxDbs,
         NEW f \in Files, DocOK(d, f), DeleteStale(p) \/ RemoveHashes(p)
  PROVE  DocOK(d, f)'
<1>1. /\ \A q \in Commands : q # p => cmd'[q] = cmd[q]
      /\ Acts(p) /\ docs' = docs
  BY OthersStay DEF Acts, Step, DeleteStale, RemoveHashes
<1>2. /\ cmd[p].pc \in {"unindex", "unhash"} /\ cmd'[p].pc \notin Replacement
      /\ SamePlace(p)
      /\ DeleteStale(p) => cmd'[p].pc = "unhash" /\ cmd'[p].stale = cmd[p].stale
  <2>1. CASE DeleteStale(p)
    BY <2>1, OpenMoves DEF DeleteStale, Replacement, SameLists
  <2>2. CASE RemoveHashes(p)
    BY <2>2, SyncMoves DEF RemoveHashes, DeleteStale, Replacement
  <2>3. QED
    BY <2>1, <2>2
<1>3. /\ dbs'[d].raced = dbs[d].raced /\ dbs'[d].back = dbs[d].back
      /\ d # cmd[p].db \/ f \notin cmd[p].stale =>
           /\ dbs'[d].rows[f] = dbs[d].rows[f] /\ dbs'[d].meta[f] = dbs[d].meta[f]
           /\ f \in dbs'[d].broken <=> f \in dbs[d].broken
      /\ dbs'[d].meta[f] \in {dbs[d].meta[f], Absent}
      /\ RemoveHashes(p) /\ d = cmd[p].db /\ f \in cmd[p].stale =>
           dbs'[d].meta[f] = Absent \/ f \in dbs'[d].broken
  <2>1. CASE DeleteStale(p)
    <3>1. ~ RemoveHashes(p)
      BY <2>1 DEF DeleteStale, RemoveHashes
    <3>2. QED
      BY <2>1, <3>1, SyncDbMoves DEF SameMeta, SameMarks, SameBroken, SameBack
  <2>2. CASE RemoveHashes(p)
    BY <2>2, SyncDbMoves DEF SameRows, SameBack
  <2>3. QED
    BY <2>1, <2>2
<1>4. CASE d # cmd[p].db \/ f \notin cmd[p].stale
  <2>1. Known(d, f)
    BY <1>1, <1>3, <1>4, SameKnown
  <2>2. p \in Replacing(d, f) => f \notin Halfway(p)
    BY <1>2, <1>4 DEF Replacing, Halfway
  <2>3. QED
    BY <1>1, <1>2, <2>1, <2>2, IdleDoc DEF SamePlace, Replacement
<1>5. CASE d = cmd[p].db /\ f \in cmd[p].stale
  <2>1. SUFFICES ASSUME f \notin dbs[d].raced
                 PROVE  DocOK(d, f)'
    BY <1>3 DEF DocOK
  <2>2. p \in Replacing(d, f) /\ f \notin cmd[p].walked
    BY <1>2, <1>5 DEF Replacing, CommandOK
  <2>3. Replacing(d, f) = {p} /\ Outdated(d, f)
    BY <2>1, <2>2 DEF DocOK, ReplacedBy
  <2>4. Outdated(d, f)'
    BY <1>1, <1>3, <2>3 DEF Outdated
  <2>5. Replacing(d, f)' \subseteq {p}
    BY <1>1, <2>3 DEF Replacing
  <2>6. ReplacedBy(p, d, f)'
    BY <1>2, <2>4 DEF ReplacedBy, Replacement
  <2>7. CASE DeleteStale(p)
    <3>1. p \in Replacing(d, f)' /\ f \in Halfway(p)'
      BY <1>2, <1>5, <2>2, <2>7 DEF Replacing, Halfway, SamePlace
    <3>2. QED
      BY <2>4, <2>5, <2>6, <3>1 DEF DocOK
  <2>8. CASE RemoveHashes(p)
    BY <1>3, <1>5, <2>4, <2>5, <2>6, <2>8 DEF DocOK, Vouched
  <2>9. QED
    BY <2>7, <2>8
<1>6. QED
  BY <1>4, <1>5

\* Vectors are stored beside the texts.
LEMMA EmbedDoc ==
  ASSUME TypeOK, NEW p \in Commands, CommandOK(p), NEW d \in 1 .. MaxDbs,
         NEW f \in Files, DocOK(d, f), EmbedBatch(p)
  PROVE  DocOK(d, f)'
<1>1. /\ Acts(p) /\ docs' = docs /\ cmd[p].pc = "embed" /\ cmd'[p].pc = "embed"
  BY SyncMoves DEF Acts, Step, EmbedBatch
<1>2. /\ dbs[d].rows[f] \in [Ranges -> Chunk] /\ dbs'[d].rows[f] \in [Ranges -> Chunk]
  <2>1. dbs[d] \in DbFile /\ dbs'[d] \in DbFile
    BY QueryShapes DEF TypeOK, Shapes
  <2>2. QED
    BY <2>1 DEF DbFile
<1>3. /\ dbs'[d].meta[f] = dbs[d].meta[f] /\ dbs'[d].raced = dbs[d].raced
      /\ dbs'[d].broken = dbs[d].broken /\ dbs'[d].back = dbs[d].back
  BY SyncDbMoves DEF SameMeta, SameMarks, SameBroken, SameBack
<1>4. ASSUME NEW r \in Ranges
      PROVE  /\ dbs[d].rows[f][r] = NoRow => dbs'[d].rows[f][r] = NoRow
             /\ dbs'[d].rows[f][r].text = dbs[d].rows[f][r].text
  <2>1. CASE dbs'[d].rows[f][r] = dbs[d].rows[f][r]
    BY <2>1
  <2>2. ASSUME NEW m, dbs[d].rows[f][r] # NoRow,
               dbs'[d].rows[f][r] = Embedded(dbs[d].rows[f][r], m)
        PROVE  dbs'[d].rows[f][r].text = dbs[d].rows[f][r].text
    <3>1. PICK row \in Chunk : row = dbs[d].rows[f][r]
      BY <1>2
    <3>2. Embedded(row, m).text = row.text
      BY <3>1 DEF Embedded, Chunk
    <3>3. QED
      BY <2>2, <3>1, <3>2
  <2>3. QED
    BY <2>1, <2>2, SyncDbMoves
<1>5. Texts(dbs'[d].rows[f]) = Texts(dbs[d].rows[f])
  BY <1>4 DEF Texts
<1>6. dbs[d].rows[f] = NoRows => dbs'[d].rows[f] = NoRows
  BY <1>2, <1>4 DEF NoRows
<1>7. Known(d, f)
  BY <1>1, <1>3, <1>5, <1>6 DEF Known, Vouched, Outdated
<1>8. QED
  BY <1>1, <1>7, IdleDoc DEF Replacement, Halfway

\* A database is opened, or removed.
LEMMA OpenDoc ==
  ASSUME TypeOK, NEW p \in Commands, CommandOK(p), NEW d \in 1 .. MaxDbs,
         NEW f \in Files, DocOK(d, f), OpenDb(p) \/ RemoveDb(p)
  PROVE  DocOK(d, f)'
<1>1. /\ \A q \in Commands : q # p => cmd'[q] = cmd[q]
      /\ Acts(p) /\ docs' = docs
  BY OthersStay DEF Acts, Step, OpenDb, RemoveDb
<1>2. /\ cmd[p].pc \in {"open", "remove"} /\ cmd'[p].pc \in {"start", "open"}
  BY OpenMoves DEF OpenDb, RemoveDb
<1>3. ASSUME Known(d, f)
      PROVE  DocOK(d, f)'
  BY <1>1, <1>2, <1>3, IdleDoc DEF Replacement, Halfway
<1>4. CASE OpenDb(p)
  <2>1. SameRows(d) /\ SameMeta(d) /\ SameMarks(d)
    BY <1>4, MarksMoves
  <2>2. Known(d, f)
    BY <1>1, <2>1, SameKnown DEF SameRows, SameMeta, SameMarks, SameBroken, SameBack
  <2>3. QED
    BY <1>3, <2>2
<1>5. CASE RemoveDb(p)
  <2>1. CASE dbs'[d] = dbs[d]
    BY <1>1, <1>3, <2>1, SameKnown
  <2>2. CASE dbs'[d] = EmptyDb("old") /\ \A q \in Commands : cmd[q].db # d
    <3>1. \A q \in Commands : cmd'[q].db # d
      BY <1>1, <1>5, <2>2, OpenMoves DEF RemoveDb, SamePlace
    <3>2. Replacing(d, f)' = {}
      BY <3>1 DEF Replacing
    <3>3. QED
      BY <2>2, <3>2, EmptyDoc
  <2>3. QED
    BY <1>5, <2>1, <2>2, EndMoves
<1>6. QED
  BY <1>4, <1>5

\* A command ends, or is killed.
LEMMA EndDoc ==
  ASSUME TypeOK, NEW p \in Commands, CommandOK(p), NEW d \in 1 .. MaxDbs,
         NEW f \in Files, DocOK(d, f), Done(p) \/ GivesUp(p) \/ Killed(p)
  PROVE  DocOK(d, f)'
<1>1. /\ \A q \in Commands : q # p => cmd'[q] = cmd[q]
      /\ docs' = docs
  BY OthersStay DEF Acts, Step, Done, GivesUp, Killed
<1>2. cmd'[p].db # d
  BY SyncMoves DEF NoDb
<1>3. p \notin Replacing(d, f)'
  BY <1>2 DEF Replacing
<1>4. \/ dbs'[d] = dbs[d] /\ f \notin Halfway(p)
      \/ dbs'[d] = Interrupted(p)[d]
      \/ /\ dbs'[d] = EmptyDb("old")
         /\ \A q \in Commands : q # p => cmd[q].db # d
  <2>1. CASE Done(p) \/ GivesUp(p)
    BY <2>1, EndMoves DEF Done, GivesUp, Halfway
  <2>2. CASE Killed(p)
    BY <2>2, EndMoves DEF Killed
  <2>3. QED
    BY <2>1, <2>2
<1>5. CASE dbs'[d] = dbs[d] /\ f \notin Halfway(p)
  BY <1>1, <1>3, <1>5, SameKnown, DocKept
<1>6. CASE dbs'[d] = Interrupted(p)[d]
  BY <1>1, <1>3, <1>6, InterruptedKnown, DocKept
<1>7. CASE dbs'[d] = EmptyDb("old") /\ \A q \in Commands : q # p => cmd[q].db # d
  <2>1. Replacing(d, f)' = {}
    BY <1>1, <1>2, <1>7 DEF Replacing
  <2>2. QED
    BY <1>7, <2>1, EmptyDoc
<1>8. QED
  BY <1>4, <1>5, <1>6, <1>7

\* A document is edited: whatever is recorded of it is outdated, or it has come
\* back to the contents that are recorded.
LEMMA EditDoc ==
  ASSUME TypeOK, NEW d \in 1 .. MaxDbs, NEW f \in Files, DocOK(d, f),
         NEW g \in Files, Edit(g)
  PROVE  DocOK(d, f)'
<1>1. cmd' = cmd /\ docs \in [Files -> Hash] /\ dbs[d] \in DbFile
  BY DEF Edit, TypeOK
<1>2. PICK c \in Hash :
        /\ docs' = [docs EXCEPT ![g] = c]
        /\ dbs'[d] = IF c = Absent \/ c # dbs[d].meta[g] THEN dbs[d]
                     ELSE [dbs[d] EXCEPT !.back = dbs[d].back \cup {g}]
  BY DEF Edit, Hash
<1>3. /\ dbs'[d].rows = dbs[d].rows /\ dbs'[d].meta = dbs[d].meta
      /\ dbs'[d].raced = dbs[d].raced /\ dbs'[d].broken = dbs[d].broken
      /\ dbs[d].back \subseteq dbs'[d].back
      /\ c = Absent \/ c # dbs[d].meta[g] \/ g \in dbs'[d].back
  <2>1. CASE c = Absent \/ c # dbs[d].meta[g]
    BY <1>2, <2>1
  <2>2. CASE ~ (c = Absent \/ c # dbs[d].meta[g])
    <3>1. dbs'[d] = [dbs[d] EXCEPT !.back = dbs[d].back \cup {g}]
      BY <1>2, <2>2
    <3>2. QED
      BY <1>1, <3>1 DEF DbFile
  <2>3. QED
    BY <2>1, <2>2
<1>4. Outdated(d, f) => Outdated(d, f)'
  <2>1. CASE f # g
    BY <1>1, <1>2, <1>3, <2>1 DEF Outdated
  <2>2. CASE f = g
    BY <1>1, <1>2, <1>3, <2>2 DEF Outdated
  <2>3. QED
    BY <2>1, <2>2
<1>5. Known(d, f)
  BY <1>3, <1>4 DEF Known, Vouched
<1>6. Nobody \notin Replacing(d, f) /\ Nobody \notin Replacing(d, f)'
  BY BoundsAssumption DEF Replacing
<1>7. QED
  BY <1>1, <1>5, <1>6, DocKept

\* A step of any command keeps what is known of a document.
LEMMA DocStep ==
  ASSUME TypeOK, NEW p \in Commands, CommandOK(p), Acts(p), NEW d \in 1 .. MaxDbs,
         NEW f \in Files, DocOK(d, f)
  PROVE  DocOK(d, f)'
BY ReadingDoc, WalkDoc, ReadDocDoc, DeleteDoc, UpsertDoc, HashDoc, FailDoc, StaleDoc,
   EmbedDoc, OpenDoc, EndDoc DEF Acts, Step

\* A step of any command keeps every type.
LEMMA ShapesStep ==
  ASSUME TypeOK, NEW p \in Commands, CommandOK(p), Acts(p)
  PROVE  Shapes'
<1>1. CASE \E f \in Files : ReadError(p, f) \/ Unchanged(p, f) \/ ReadDoc(p, f)
  BY <1>1, IndexShapes
<1>2. CASE Walk(p) \/ DeleteChunks(p) \/ UpsertChunks(p) \/ SetFileHash(p)
           \/ TransactionFails(p) \/ Indexed(p)
  BY <1>2, IndexShapes
<1>3. CASE Begin(p) \/ Lock(p) \/ RemoveDb(p) \/ OpenDb(p)
  BY <1>3, OpenShapes
<1>4. CASE FindStale(p) \/ DeleteStale(p) \/ RemoveHashes(p)
  BY <1>4, SyncShapes
<1>5. CASE SelectMissing(p) \/ EmbedBatch(p) \/ EmbedEnds(p) \/ ReadVectors(p) \/ Hydrate(p)
  BY <1>5, QueryShapes
<1>6. CASE Done(p) \/ GivesUp(p) \/ Killed(p)
  BY <1>6, EndShapes
<1>7. QED
  BY <1>1, <1>2, <1>3, <1>4, <1>5, <1>6 DEF Acts, Step
-----------------------------------------------------------------------------
(* The inductive invariant, and what follows from it.                        *)
LEMMA InitInv == Init => IInv
<1> SUFFICES ASSUME Init
             PROVE  IInv
  OBVIOUS
<1>1. TypeOK
  <2>1. docs \in [Files -> Hash]
    BY ContentsAssumption DEF Init, Hash
  <2>2. dbs \in [1 .. MaxDbs -> DbFile] /\ cmd \in [Commands -> Memory]
    BY NewTypes DEF Init, Schemas
  <2>3. path \in 0 .. MaxDbs /\ left \in 0 .. MaxFailures
    BY BoundsAssumption DEF Init, NoDb
  <2>4. \A p \in Commands : lock = p <=> cmd[p].pc \in {"remove", "open"}
    BY BoundsAssumption DEF Init, NewCommand
  <2>5. QED
    BY <2>1, <2>2, <2>3, <2>4 DEF TypeOK, Init
<1>2. \A p \in Commands : CommandOK(p)
  BY DEF Init, NewCommand, CommandOK, Opening, Replacement
<1>3. \A d \in 1 .. MaxDbs : dbs[d] = EmptyDb("old")
  BY DEF Init
<1>4. ASSUME NEW d \in 1 .. MaxDbs, NEW f \in Files
      PROVE  DocOK(d, f) /\ \A r \in Ranges : Labelled(dbs[d].rows[f][r])
  <2>1. Replacing(d, f) = {}
    BY DEF Init, NewCommand, Replacing
  <2>2. dbs[d].meta[f] = Absent
    BY <1>3 DEF EmptyDb
  <2>3. QED
    BY <1>3, <2>1, <2>2, NewRowsLabelled DEF DocOK, Vouched, EmptyDb
<1>5. QED
  BY <1>1, <1>2, <1>4 DEF IInv

\* Every step preserves the invariant.
LEMMA StepInv == IInv /\ [Next]_vars => IInv'
<1> SUFFICES ASSUME IInv, [Next]_vars
             PROVE  IInv'
  OBVIOUS
<1>1. /\ TypeOK /\ \A p \in Commands : CommandOK(p)
      /\ \A d \in 1 .. MaxDbs : \A f \in Files : DocOK(d, f)
      /\ \A d \in 1 .. MaxDbs : \A f \in Files : \A r \in Ranges :
           Labelled(dbs[d].rows[f][r])
  BY DEF IInv
<1>2. ASSUME NEW p \in Commands, Acts(p)
      PROVE  IInv'
  <2>1. CommandOK(p)
    BY <1>1
  <2>2. Shapes'
    BY <1>1, <1>2, <2>1, ShapesStep
  <2>3. \A q \in Commands : lock' = q <=> cmd'[q].pc \in {"remove", "open"}
    BY <1>1, <1>2, LockStep
  <2>4. TypeOK'
    BY <2>2, <2>3 DEF Shapes, TypeOK
  <2>5. \A q \in Commands : CommandOK(q)'
    BY <1>1, <1>2, <2>1, CommandStep
  <2>6. \A d \in 1 .. MaxDbs : \A f \in Files : DocOK(d, f)'
    BY <1>1, <1>2, <2>1, DocStep
  <2>7. \A d \in 1 .. MaxDbs : \A f \in Files : \A r \in Ranges :
          Labelled(dbs'[d].rows[f][r])
    BY <1>1, <1>2, <2>1, LabelStep
  <2>8. QED
    BY <2>4, <2>5, <2>6, <2>7 DEF IInv
<1>3. ASSUME NEW g \in Files, Edit(g)
      PROVE  IInv'
  <2>1. UNCHANGED <<path, lock, cmd, left>>
    BY <1>3 DEF Edit
  <2>2. docs' \in [Files -> Hash]
    BY <1>1, <1>3 DEF Edit, TypeOK, Hash
  <2>3. \A d \in 1 .. MaxDbs : /\ dbs'[d] \in DbFile
                              /\ dbs'[d].rows = dbs[d].rows
                              /\ dbs'[d].schema = dbs[d].schema
    <3>1. SUFFICES ASSUME NEW d \in 1 .. MaxDbs
                   PROVE  /\ dbs'[d] \in DbFile
                          /\ dbs'[d].rows = dbs[d].rows
                          /\ dbs'[d].schema = dbs[d].schema
      OBVIOUS
    <3>2. PICK db \in DbFile : db = dbs[d]
      BY <1>1 DEF TypeOK
    <3>3. dbs'[d] \in {db, [db EXCEPT !.back = @ \cup {g}]}
      BY <1>3, <3>2 DEF Edit
    <3>4. QED
      BY <3>2, <3>3 DEF DbFile
  <2>4. dbs' \in [1 .. MaxDbs -> DbFile]
    <3>1. dbs' = [d \in 1 .. MaxDbs |-> dbs'[d]]
      BY <1>3 DEF Edit
    <3>2. QED
      BY <2>3, <3>1
  <2>5. TypeOK'
    BY <1>1, <2>1, <2>2, <2>4 DEF TypeOK
  <2>6. path # NoDb => SameSchema(path)
    BY <1>1, <2>3, BoundsAssumption DEF TypeOK, NoDb, SameSchema
  <2>7. \A q \in Commands : CommandOK(q)'
    BY <1>1, <2>1, <2>6 DEF CommandOK, NeedsRebuild, SameSchema
  <2>8. \A d \in 1 .. MaxDbs : \A f \in Files : DocOK(d, f)'
    BY <1>1, <1>3, EditDoc
  <2>9. QED
    BY <1>1, <2>3, <2>5, <2>7, <2>8 DEF IInv
<1>4. CASE UNCHANGED vars
  <2>1. UNCHANGED <<docs, dbs, path, cmd, lock, left>>
    BY <1>4 DEF vars
  <2>2. TypeOK'
    BY <1>1, <2>1 DEF TypeOK
  <2>3. \A q \in Commands : CommandOK(q)'
    BY <1>1, <2>1 DEF CommandOK, NeedsRebuild
  <2>4. \A d \in 1 .. MaxDbs : \A f \in Files : DocOK(d, f)'
    BY <1>1, <2>1 DEF DocOK, Replacing, ReplacedBy, Halfway, Vouched, Outdated
  <2>5. QED
    BY <1>1, <2>1, <2>2, <2>3, <2>4 DEF IInv
<1>5. QED
  BY <1>2, <1>3, <1>4 DEF Next, Acts

\* The invariant holds at all times.
LEMMA Inductive == Spec => []IInv
<1>1. QED
  BY InitInv, StepInv, PTL DEF Spec

(* The variables keep their shapes, and the flock of OpenKnowledgeDB has     *)
(* exactly one holder: whoever removes or opens the database.                *)
THEOREM TypeCorrect == Spec => []TypeOK
<1>1. IInv => TypeOK
  BY DEF IInv
<1>2. QED
  BY <1>1, Inductive, PTL

(* A document whose recorded hash is that of its content has the chunks of   *)
(* that content: IndexDocs may skip it (indexSingleFile compares the hash    *)
(* alone).  The hash is written last, by a command that replaced the chunks  *)
(* alone; until then the document differs from the recorded hash, or has     *)
(* come back to it.  Nothing is claimed of a document whose replacement or   *)
(* removal was broken off and that is back at the hash that was left, by a   *)
(* reverted edit or by --force.                                              *)
THEOREM HashesVouch == Spec => []HashVouches
<1>1. IInv => HashVouches
  <2> SUFFICES ASSUME IInv, path # NoDb, NEW f \in Files, Quiet(path, f),
                      dbs[path].meta[f] # Absent, dbs[path].meta[f] = docs[f]
               PROVE  Texts(dbs[path].rows[f]) = Texts(RowsOf(dbs[path].meta[f]))
    BY DEF HashVouches
  <2>1. path \in 1 .. MaxDbs
    BY BoundsAssumption DEF IInv, TypeOK, NoDb
  <2>2. DocOK(path, f)
    BY <2>1 DEF IInv
  <2>3. QED
    BY <2>1, <2>2 DEF DocOK, Quiet, Vouched, Outdated
<1>2. QED
  BY <1>1, Inductive, PTL

(* A vector always comes with the hash of the text it was made of, as        *)
(* SetEmbedding writes the two together, whatever has replaced the chunk     *)
(* since EmbedChunks read it.                                                *)
THEOREM VectorsLabelled == Spec => []VectorsAreLabelled
<1>1. IInv => VectorsAreLabelled
  BY DEF IInv, VectorsAreLabelled, Labelled
<1>2. QED
  BY <1>1, Inductive, PTL

(* lockedOpenKnowledgeDB removes a database under the lock only while its    *)
(* schema is another than the command's, or when the command could not read  *)
(* the version: nobody can have rebuilt it between the check and the removal. *)
THEOREM OldSchemasOnly == Spec => OnlyOldSchemasAreRemoved
<1>1. IInv => \A p \in Commands : cmd[p].pc = "remove" /\ path' = NoDb /\ path # NoDb
                                   => dbs[path].schema # cmd[p].job.schema \/ cmd[p].unread
  BY DEF IInv, CommandOK, NeedsRebuild
<1>2. QED
  BY <1>1, Inductive, PTL DEF OnlyOldSchemasAreRemoved
=============================================================================
