---------------------------- MODULE KnowledgeIndex ----------------------------
(***************************************************************************)
(* The knowledge index: `ca index-docs` and `ca knowledge`                 *)
(* (go/internal/cli/commands_knowledge.go, go/internal/knowledge) on the   *)
(* SQLite database that go/internal/storage/knowledge_db.go keeps.         *)
(* Commands run side by side, each with a connection of its own, and may   *)
(* be killed anywhere; documents are edited meanwhile.                     *)
(*                                                                         *)
(* A document's content is a number.  What ChunkFile makes of a content is *)
(* a set of line ranges: the id of a chunk is its file and its range, its  *)
(* text the content it was cut from.                                       *)
(* A database is a file (an inode): a command keeps the one it opened,     *)
(* also when the path has been given to a new one.  Each transaction is    *)
(* one step, and fails when the database stays busy for too long.          *)
(***************************************************************************)
EXTENDS Naturals, FiniteSets

CONSTANTS
  Files,        \* the documents
  RangesOf,     \* for each content, the line ranges it is cut into
  Commands,     \* the commands that are started, each at most once
  Jobs,         \* what a command may be
  MaxDbs,       \* bound: how many database files there are at a time
  MaxFailures   \* bound: how often a transaction fails or a command is killed

Contents == DOMAIN RangesOf
Ranges == UNION {RangesOf[c] : c \in Contents}
Absent == 0
NoDb == 0
Nobody == "nobody"
\* KnowledgeSchemaVersion of this binary, and of an older one.
Schemas == {"old", "new"}
\* indexOptions of index-docs, or a search, by a binary of a schema.
JobKind == [kind : {"index", "search"}, force : BOOLEAN, embed : BOOLEAN,
            schema : Schemas]

ASSUME ContentsAssumption ==
  /\ Contents \subseteq Nat \ {0} /\ 1 \in Contents
  /\ RangesOf \in [Contents -> SUBSET Nat]
ASSUME FilesAssumption == IsFiniteSet(Files)
ASSUME JobsAssumption == Jobs \subseteq JobKind
ASSUME BoundsAssumption ==
  MaxDbs \in Nat \ {0} /\ MaxFailures \in Nat /\ Nobody \notin Commands

VARIABLES
  docs,     \* the content of each document, or Absent
  dbs,      \* the database files, each with three sets of documents as
            \* history: raced, that two commands replaced at a time; broken,
            \* whose chunks were deleted and whose hash was left alone; back,
            \* that have come back to the contents of the recorded hash, or
            \* are replaced in spite of it
  path,     \* the file that knowledge.sqlite names, or NoDb
  lock,     \* who holds the flock of knowledge.sqlite.lock
  cmd,      \* the commands
  left      \* what is left of MaxFailures

vars == <<docs, dbs, path, lock, cmd, left>>

NoRow == [text |-> Absent, hash |-> Absent, vec |-> Absent]

\* A chunk as UpsertChunks writes it, without a vector.
NewRow(c) == [text |-> c, hash |-> c, vec |-> Absent]

NoRows == [r \in Ranges |-> NoRow]

RowsOf(c) == [r \in Ranges |-> IF r \in RangesOf[c] THEN NewRow(c) ELSE NoRow]

EmptyDb(schema) == [schema |-> schema, rows |-> [f \in Files |-> NoRows],
                    meta |-> [f \in Files |-> Absent],
                    raced |-> {}, broken |-> {}, back |-> {}]

NewCommand == [pc |-> "new", job |-> [kind |-> "index", force |-> FALSE,
                                      embed |-> FALSE, schema |-> "new"],
               db |-> NoDb, walked |-> {}, todo |-> {}, file |-> "none",
               text |-> Absent, unread |-> FALSE, stale |-> {},
               missing |-> {}, found |-> {}]

Init ==
  /\ docs \in [Files -> {Absent, 1}]
  /\ dbs = [d \in 1 .. MaxDbs |-> EmptyDb("old")]
  /\ path \in {NoDb, 1}
  /\ lock = Nobody
  /\ cmd = [p \in Commands |-> NewCommand]
  /\ left = MaxFailures

\* A file that a new database gets.
Unused == CHOOSE d \in 1 .. MaxDbs : \A p \in Commands : cmd[p].db # d

Db(p) == dbs[cmd[p].db]
Row(p, f, r) == Db(p).rows[f][r]
Goto(p, pc) == cmd' = [cmd EXCEPT ![p].pc = pc]
Chunks(d) == {c \in Files \X Ranges : dbs[d].rows[c[1]][c[2]] # NoRow}

\* Documents are written, removed, and brought back, by somebody else.
Edit(f) ==
  /\ \E c \in (Contents \cup {Absent}) \ {docs[f]} :
       /\ docs' = [docs EXCEPT ![f] = c]
       /\ dbs' = [d \in 1 .. MaxDbs |->
                    IF c = Absent \/ c # dbs[d].meta[f] THEN dbs[d]
                    ELSE [dbs[d] EXCEPT !.back = @ \cup {f}]]
  /\ UNCHANGED <<path, lock, cmd, left>>

(***************************************************************************)
(* OpenKnowledgeDB.  Under the flock: a database with another schema is    *)
(* removed, and what the path names, or a new file, is opened.             *)
(***************************************************************************)
DbUnchanged == UNCHANGED <<dbs, path>>

Begin(p) ==
  /\ cmd[p].pc = "new"
  /\ \E j \in Jobs : cmd' = [cmd EXCEPT ![p].pc = "lock", ![p].job = j]
  /\ DbUnchanged
  /\ UNCHANGED <<docs, lock, left>>

\* Any error of the query for the version says that, too.
NeedsRebuild(p, unread) ==
  path # NoDb /\ (unread \/ dbs[path].schema # cmd[p].job.schema)

Checks(p) ==
  \E unread \in BOOLEAN :
    /\ unread => path # NoDb /\ left > 0
    /\ left' = IF unread THEN left - 1 ELSE left
    /\ cmd' = [cmd EXCEPT ![p].pc = IF NeedsRebuild(p, unread) THEN "remove" ELSE "open",
                          ![p].unread = unread]

\* MUTANT of Lock: the lock is not taken.
LockShared(p) ==
  /\ cmd[p].pc = "lock"
  /\ Checks(p)
  /\ DbUnchanged
  /\ UNCHANGED <<docs, lock>>

Lock(p) ==
  /\ cmd[p].pc = "lock"
  /\ lock = Nobody
  /\ lock' = p
  /\ Checks(p)
  /\ DbUnchanged
  /\ UNCHANGED docs

RemoveDb(p) ==
  /\ cmd[p].pc = "remove"
  /\ path' = NoDb
  /\ dbs' = [d \in 1 .. MaxDbs |-> IF \E q \in Commands : cmd[q].db = d
                                     THEN dbs[d] ELSE EmptyDb("old")]
  /\ Goto(p, "open")
  /\ UNCHANGED <<docs, lock, left>>

\* MUTANT of OpenDb: the lock is not released.
OpenDbLocked(p) ==
  /\ cmd[p].pc = "open"
  /\ \E d \in 1 .. MaxDbs :
       /\ IF path = NoDb THEN d = Unused ELSE d = path
       /\ dbs' = [dbs EXCEPT ![d].schema = cmd[p].job.schema]
       /\ path' = d
       /\ cmd' = [cmd EXCEPT ![p].pc = "start", ![p].db = d]
  /\ UNCHANGED <<docs, lock, left>>

\* initKnowledgeSchema, on what sql.Open found or created.
OpenDb(p) ==
  /\ cmd[p].pc = "open"
  /\ \E d \in 1 .. MaxDbs :
       /\ IF path = NoDb THEN d = Unused ELSE d = path
       /\ dbs' = [dbs EXCEPT ![d].schema = cmd[p].job.schema]
       /\ path' = d
       /\ cmd' = [cmd EXCEPT ![p].pc = "start", ![p].db = d]
  /\ lock' = IF lock = p THEN Nobody ELSE lock
  /\ UNCHANGED <<docs, left>>

(***************************************************************************)
(* IndexDocs.  The documents are listed once; each is read, and its chunks *)
(* replaced unless its hash is the recorded one: three transactions.  A    *)
(* search indexes, too, when there is no chunk at all.                     *)
(***************************************************************************)
\* The commands that are replacing, or about to delete, the chunks of f in d.
Replacing(d, f) ==
  {q \in Commands :
     /\ cmd[q].db = d
     /\ \/ cmd[q].pc \in {"delete", "upsert", "hash"} /\ cmd[q].file = f
        \/ cmd[q].pc \in {"file", "delete", "upsert", "hash", "sync", "unindex",
                          "unhash"} /\ f \notin cmd[q].walked}

Walk(p) ==
  /\ cmd[p].pc = "start"
  /\ cmd[p].job.kind = "search" => Chunks(cmd[p].db) = {}
  /\ LET found == {f \in Files : docs[f] # Absent} IN
       /\ cmd' = [cmd EXCEPT ![p].pc = "file", ![p].walked = found,
                             ![p].todo = found]
       /\ dbs' = [dbs EXCEPT ![cmd[p].db].raced =
                    @ \cup {f \in Files \ found : Replacing(cmd[p].db, f) # {}}]
  /\ UNCHANGED <<docs, path, lock, left>>

ReadError(p, f) ==
  /\ cmd[p].pc = "file"
  /\ f \in cmd[p].todo
  /\ docs[f] = Absent
  /\ cmd' = [cmd EXCEPT ![p].todo = @ \ {f}]
  /\ DbUnchanged
  /\ UNCHANGED <<docs, lock, left>>

Unchanged(p, f) ==
  /\ cmd[p].pc = "file"
  /\ f \in cmd[p].todo
  /\ docs[f] # Absent
  /\ ~ cmd[p].job.force
  /\ Db(p).meta[f] = docs[f]
  /\ cmd' = [cmd EXCEPT ![p].todo = @ \ {f}]
  /\ DbUnchanged
  /\ UNCHANGED <<docs, lock, left>>

ReadDoc(p, f) ==
  /\ cmd[p].pc = "file"
  /\ f \in cmd[p].todo
  /\ docs[f] # Absent
  /\ cmd[p].job.force \/ Db(p).meta[f] # docs[f]
  /\ cmd' = [cmd EXCEPT ![p].pc = "delete", ![p].todo = @ \ {f},
                        ![p].file = f, ![p].text = docs[f]]
  /\ dbs' = [dbs EXCEPT
       ![cmd[p].db].back = IF Db(p).meta[f] = docs[f] THEN @ \cup {f} ELSE @ \ {f},
       ![cmd[p].db].raced = IF Replacing(cmd[p].db, f) = {} THEN @ ELSE @ \cup {f}]
  /\ UNCHANGED <<docs, path, lock, left>>

\* indexSingleFile is done with its document, for good or ill.
NextFile(p) == [cmd EXCEPT ![p].pc = "file", ![p].file = "none",
                        ![p].text = Absent]

\* MUTANT of DeleteChunks: chunks that are not replaced stay.
DeleteNothing(p) ==
  /\ cmd[p].pc = "delete"
  /\ Goto(p, "upsert")
  /\ DbUnchanged
  /\ UNCHANGED <<docs, lock, left>>

DeleteChunks(p) ==
  /\ cmd[p].pc = "delete"
  /\ dbs' = [dbs EXCEPT ![cmd[p].db].rows[cmd[p].file] = NoRows]
  /\ Goto(p, "upsert")
  /\ UNCHANGED <<docs, path, lock, left>>

UpsertChunks(p) ==
  /\ cmd[p].pc = "upsert"
  /\ LET f == cmd[p].file
         new == RowsOf(cmd[p].text) IN
       dbs' = [dbs EXCEPT ![cmd[p].db].rows[f] =
                 [r \in Ranges |-> IF new[r] # NoRow THEN new[r] ELSE @[r]]]
  /\ Goto(p, "hash")
  /\ UNCHANGED <<docs, path, lock, left>>

SetFileHash(p) ==
  /\ cmd[p].pc = "hash"
  /\ LET f == cmd[p].file IN
       dbs' = [dbs EXCEPT ![cmd[p].db].meta[f] = cmd[p].text,
                          ![cmd[p].db].broken =
                             IF Replacing(cmd[p].db, f) = {p} THEN @ \ {f} ELSE @]
  /\ cmd' = NextFile(p)
  /\ UNCHANGED <<docs, path, lock, left>>

\* The documents whose chunks p has deleted, and whose hash is still there.
Halfway(p) == CASE cmd[p].pc \in {"upsert", "hash"} -> {cmd[p].file}
                [] cmd[p].pc = "unhash" -> cmd[p].stale
                [] OTHER -> {}

Interrupted(p) == IF Halfway(p) = {} THEN dbs
                  ELSE [dbs EXCEPT ![cmd[p].db].broken = @ \cup Halfway(p)]

\* A transaction of indexSingleFile fails, and the document counts as errored.
TransactionFails(p) ==
  /\ cmd[p].pc \in {"delete", "upsert", "hash"}
  /\ left > 0
  /\ left' = left - 1
  /\ dbs' = Interrupted(p)
  /\ cmd' = NextFile(p)
  /\ UNCHANGED <<docs, path, lock>>

Indexed(p) ==
  /\ cmd[p].pc = "file"
  /\ cmd[p].todo = {}
  /\ Goto(p, "sync")
  /\ DbUnchanged
  /\ UNCHANGED <<docs, lock, left>>

(***************************************************************************)
(* syncDeletedFiles: documents with chunks that the walk has not seen are  *)
(* taken out of the index; the hashes after the chunks, and a hash that    *)
(* cannot be removed stays.                                                *)
(***************************************************************************)
AfterIndex(p) == IF cmd[p].job.kind = "search" THEN "query"
                 ELSE IF cmd[p].job.embed THEN "select" ELSE "done"

FindStale(p) ==
  /\ cmd[p].pc = "sync"
  /\ LET stale == {f \in Files \ cmd[p].walked : Db(p).rows[f] # NoRows} IN
       cmd' = [cmd EXCEPT ![p].pc = IF stale = {} THEN AfterIndex(p)
                                    ELSE "unindex", ![p].stale = stale]
  /\ DbUnchanged
  /\ UNCHANGED <<docs, lock, left>>

DeleteStale(p) ==
  /\ cmd[p].pc = "unindex"
  /\ dbs' = [dbs EXCEPT ![cmd[p].db].rows =
               [f \in Files |-> IF f \in cmd[p].stale THEN NoRows ELSE @[f]]]
  /\ Goto(p, "unhash")
  /\ UNCHANGED <<docs, path, lock, left>>

RemoveHashes(p) ==
  /\ cmd[p].pc = "unhash"
  /\ \E kept \in SUBSET cmd[p].stale :
       /\ Cardinality(kept) <= left
       /\ left' = left - Cardinality(kept)
       /\ dbs' = [dbs EXCEPT ![cmd[p].db].meta =
                               [f \in Files |-> IF f \in cmd[p].stale \ kept
                                                  THEN Absent ELSE @[f]],
                             ![cmd[p].db].broken = @ \cup kept]
  /\ cmd' = [cmd EXCEPT ![p].pc = AfterIndex(p), ![p].stale = {}]
  /\ UNCHANGED <<docs, path, lock>>

(***************************************************************************)
(* EmbedChunks: the chunks without a vector are read once, and sent to the *)
(* daemon in batches; a batch is stored under the ids of its chunks,       *)
(* together with the hashes of the texts that were sent.                   *)
(***************************************************************************)
Unembedded(p) ==
  {c \in Chunks(cmd[p].db) : Row(p, c[1], c[2]).vec = Absent}

SelectMissing(p) ==
  /\ cmd[p].pc = "select"
  /\ cmd' = [cmd EXCEPT ![p].pc = "embed", ![p].missing =
       {[file |-> c[1], range |-> c[2], text |-> Row(p, c[1], c[2]).text,
         hash |-> Row(p, c[1], c[2]).hash] : c \in Unembedded(p)}]
  /\ DbUnchanged
  /\ UNCHANGED <<docs, lock, left>>

\* MUTANT of Embedded: the hash is left alone.
EmbeddedUnlabelled(row, chunk) == [row EXCEPT !.vec = chunk.text]

Embedded(row, chunk) == [row EXCEPT !.vec = chunk.text, !.hash = chunk.hash]

\* A batch, here of one chunk; an UPDATE of no row does nothing.
EmbedBatch(p) ==
  /\ cmd[p].pc = "embed"
  /\ \E m \in cmd[p].missing :
       /\ cmd' = [cmd EXCEPT ![p].missing = @ \ {m}]
       /\ dbs' = IF Row(p, m.file, m.range) = NoRow THEN dbs
                 ELSE [dbs EXCEPT ![cmd[p].db].rows[m.file][m.range] =
                         Embedded(@, m)]
  /\ UNCHANGED <<docs, path, lock, left>>

EmbedEnds(p) ==
  /\ cmd[p].pc = "embed"
  /\ cmd[p].missing = {}
  /\ Goto(p, "done")
  /\ DbUnchanged
  /\ UNCHANGED <<docs, lock, left>>

(***************************************************************************)
(* SearchKnowledgeVector: the vectors are read, the query is embedded, and *)
(* the texts of the best chunks are read afterwards, by their ids.         *)
(***************************************************************************)
ReadVectors(p) ==
  /\ \/ cmd[p].pc = "query"
     \/ cmd[p].pc = "start" /\ cmd[p].job.kind = "search"
        /\ Chunks(cmd[p].db) # {}
  /\ cmd' = [cmd EXCEPT ![p].pc = "hydrate", ![p].found =
       Chunks(cmd[p].db) \ Unembedded(p)]
  /\ DbUnchanged
  /\ UNCHANGED <<docs, lock, left>>

\* Chunks that are gone by now are left out of the results.
Hydrate(p) ==
  /\ cmd[p].pc = "hydrate"
  /\ cmd' = [cmd EXCEPT ![p].pc = "done",
                        ![p].found = @ \cap Chunks(cmd[p].db)]
  /\ DbUnchanged
  /\ UNCHANGED <<docs, lock, left>>

\* The end of a command closes its connection, and a database file that was
\* removed meanwhile is gone when nobody has it open.
Ended(p, files) ==
  /\ cmd' = [cmd EXCEPT ![p] = [NewCommand EXCEPT !.pc = "ended"]]
  /\ dbs' = [d \in 1 .. MaxDbs |->
               IF d = path \/ \E q \in Commands \ {p} : cmd[q].db = d
                 THEN files[d] ELSE EmptyDb("old")]

\* The command returns; a failed transaction outside of indexSingleFile, or a
\* daemon that fails, ends it early.
Done(p) ==
  /\ cmd[p].pc = "done"
  /\ Ended(p, dbs)
  /\ UNCHANGED <<docs, path, lock, left>>

GivesUp(p) ==
  /\ cmd[p].pc \in {"unindex", "embed"}
  /\ left > 0
  /\ left' = left - 1
  /\ Ended(p, dbs)
  /\ UNCHANGED <<docs, path, lock>>

Killed(p) ==
  /\ cmd[p].pc \notin {"new", "ended"}
  /\ left > 0
  /\ left' = left - 1
  /\ Ended(p, Interrupted(p))
  /\ lock' = IF lock = p THEN Nobody ELSE lock
  /\ UNCHANGED <<docs, path>>

Step(p) ==
  \/ Lock(p) \/ RemoveDb(p) \/ OpenDb(p)
  \/ Walk(p) \/ (\E f \in Files : ReadError(p, f) \/ Unchanged(p, f)
                                  \/ ReadDoc(p, f))
  \/ DeleteChunks(p) \/ UpsertChunks(p) \/ SetFileHash(p) \/ Indexed(p)
  \/ FindStale(p) \/ DeleteStale(p) \/ RemoveHashes(p)
  \/ SelectMissing(p) \/ EmbedBatch(p) \/ EmbedEnds(p)
  \/ ReadVectors(p) \/ Hydrate(p) \/ Done(p)

Next ==
  \/ \E p \in Commands : \/ Begin(p) \/ Step(p) \/ TransactionFails(p)
                         \/ GivesUp(p) \/ Killed(p)
  \/ \E f \in Files : Edit(f)

Spec == Init /\ [][Next]_vars /\ \A p \in Commands : WF_vars(Step(p))
-----------------------------------------------------------------------------
\* What the variables hold.
Hash == Contents \cup {Absent}
Chunk == [text : Hash, hash : Hash, vec : Hash]
ToEmbed == [file : Files, range : Ranges, text : Hash, hash : Hash]
DbFile == [schema : Schemas, rows : [Files -> [Ranges -> Chunk]],
           meta : [Files -> Hash], raced : SUBSET Files,
           broken : SUBSET Files, back : SUBSET Files]
Opening == {"new", "lock", "remove", "open", "ended"}
Replacement == {"delete", "upsert", "hash"}
Steps == Opening \cup Replacement \cup
           {"start", "file", "sync", "unindex", "unhash", "select", "embed",
            "query", "hydrate", "done"}
Memory == [pc : Steps,
           job : JobKind,
           db : 0 .. MaxDbs, walked : SUBSET Files, todo : SUBSET Files,
           file : Files \cup {"none"}, text : Hash, unread : BOOLEAN,
           stale : SUBSET Files,
           missing : SUBSET ToEmbed, found : SUBSET (Files \X Ranges)]

(* Every variable keeps its shape; the lock is held exactly by the command  *)
(* that is opening the database.                                            *)
TypeOK ==
  /\ docs \in [Files -> Hash]
  /\ dbs \in [1 .. MaxDbs -> DbFile]
  /\ path \in 0 .. MaxDbs
  /\ cmd \in [Commands -> Memory]
  /\ lock \in Commands \cup {Nobody}
  /\ \A p \in Commands : lock = p <=> cmd[p].pc \in {"remove", "open"}
  /\ left \in 0 .. MaxFailures

(* A document that index-docs takes for unchanged has all of its chunks and  *)
(* no others, however it was edited, removed or reverted, and whatever was   *)
(* killed or failed in between: unless two commands replaced its chunks at a *)
(* time, or replacing or removing them was broken off and its contents were, *)
(* or came back to be, those of the hash that was left.                      *)
Quiet(d, f) ==
  /\ f \notin dbs[d].raced \cup (dbs[d].broken \cap dbs[d].back)
  /\ Replacing(d, f) = {}

Texts(rows) == [r \in Ranges |-> rows[r].text]

HashVouches ==
  path # NoDb => \A f \in Files :
    LET c == dbs[path].meta[f] IN
      Quiet(path, f) /\ c # Absent /\ c = docs[f]
        => Texts(dbs[path].rows[f]) = Texts(RowsOf(c))

(* A vector always comes with the hash of the text it was made of, though    *)
(* the text may be another by now: the two are written together.             *)
VectorsAreLabelled ==
  \A d \in 1 .. MaxDbs : \A f \in Files : \A r \in Ranges :
    LET row == dbs[d].rows[f][r] IN row.vec # Absent => row.vec = row.hash

(* lockedOpenKnowledgeDB: a database with the right schema is not removed,   *)
(* by whatever number of commands that open it at a time, except by one that *)
(* could not read its version.                                               *)
OnlyOldSchemasAreRemoved ==
  [][\A p \in Commands : cmd[p].pc = "remove" /\ path' = NoDb /\ path # NoDb
       => dbs[path].schema # cmd[p].job.schema \/ cmd[p].unread]_vars

(* Every command that has begun ends, though it waits for the lock of        *)
(* another that may be killed.                                               *)
CommandsEnd == \A p \in Commands : cmd[p].pc # "new" ~> cmd[p].pc = "ended"

-----------------------------------------------------------------------------
(* The inductive invariant.                                                 *)

\* What a command remembers fits where it is.
CommandOK(p) ==
  /\ cmd[p].pc \notin Opening => cmd[p].db # NoDb
  /\ cmd[p].pc = "remove" => NeedsRebuild(p, cmd[p].unread)
  /\ cmd[p].pc \in Replacement => /\ cmd[p].file \in cmd[p].walked
                                  /\ cmd[p].text # Absent
  /\ cmd[p].todo \subseteq cmd[p].walked
  /\ cmd[p].stale \cap cmd[p].walked = {}
  /\ cmd[p].stale # {} => cmd[p].pc \in {"unindex", "unhash"}
  /\ \A m \in cmd[p].missing : m.text = m.hash /\ m.text # Absent

\* A vector is labelled, and a text that has none yet labels itself.
Labelled(row) == IF row.vec = Absent THEN row.text = row.hash ELSE row.vec = row.hash

\* index-docs would replace the chunks of f, or its contents have come back.
Outdated(d, f) ==
  dbs[d].meta[f] = Absent \/ dbs[d].meta[f] # docs[f] \/ f \in dbs[d].back

Vouched(d, f) ==
  \/ dbs[d].meta[f] = Absent
  \/ Texts(dbs[d].rows[f]) = Texts(RowsOf(dbs[d].meta[f]))

\* One command at a time replaces or removes the chunks of f.  It does so
\* where they are outdated, and has written what its step says.
ReplacedBy(p, d, f) ==
  /\ Outdated(d, f)
  /\ cmd[p].file = f /\ cmd[p].pc = "upsert" => dbs[d].rows[f] = NoRows
  /\ cmd[p].file = f /\ cmd[p].pc = "hash" =>
       Texts(dbs[d].rows[f]) = Texts(RowsOf(cmd[p].text))

DocOK(d, f) ==
  f \notin dbs[d].raced =>
    /\ \A p, q \in Replacing(d, f) : p = q
    /\ \A p \in Replacing(d, f) : ReplacedBy(p, d, f)
    /\ f \in dbs[d].broken => Outdated(d, f)
    /\ \/ f \in dbs[d].broken
       \/ Vouched(d, f)
       \/ \E p \in Replacing(d, f) : f \in Halfway(p)

IInv ==
  /\ TypeOK
  /\ \A p \in Commands : CommandOK(p)
  /\ \A d \in 1 .. MaxDbs : \A f \in Files :
       DocOK(d, f) /\ \A r \in Ranges : Labelled(dbs[d].rows[f][r])
-----------------------------------------------------------------------------
(* indexFiles "atomically replaces chunks in the database": a document that  *)
(* counts as unchanged has its chunks, also after a command was killed.      *)
ReplacedAtomically ==
  path # NoDb => \A f \in Files :
    LET c == dbs[path].meta[f] IN
      f \notin dbs[path].raced /\ Replacing(path, f) = {} /\ c # Absent /\ c = docs[f]
        => Texts(dbs[path].rows[f]) = Texts(RowsOf(c))
=============================================================================
