------------------------------ MODULE SchemaStore ------------------------------
(***************************************************************************)
(* The SchemaBundle file and the invariant-schema commands that read and   *)
(* replace it (go/cmd/invariant-schema, CompileDescriptorBytes in          *)
(* go/data/compiler.go, go/data/bundle.go).  The file is the only memory   *)
(* of stable ids and tombstones: `compile' reads it, evolves every dataset *)
(* and replaces it through a temporary file and a rename, `migrate' does   *)
(* the same with a bundle of the historical version, and renderers read    *)
(* it.  Commands are processes; each can fail or be killed between any two *)
(* of its system calls, and the machine can lose power.                    *)
(***************************************************************************)
EXTENDS SchemaEvolution

CONSTANTS
    Message,            \* protobuf messages that can be dataset roots
    TableName,          \* storageName of a message's full name
    Sources,            \* the descriptors that commands are given
    Process,            \* invariant-schema commands running at the same time
    MaxOverlapping,     \* bound on the roots of compilations that may overlap
    MaxPowerLosses,     \* bound on power failures, of overlapping commands
    MaxRendered         \* bound on the ids in artifacts, of serial commands

ASSUME StoreAssumption ==
    /\ Sources \subseteq Descriptors
    /\ Message \subseteq DOMAIN TableName
    /\ MaxOverlapping \in Nat /\ MaxPowerLosses \in Nat /\ MaxRendered \in Nat

\* What a compile command is given: the selected roots and their descriptors.
Inputs == UNION {[roots -> Sources] : roots \in (SUBSET Message) \ {{}}}

(***************************************************************************)
(* A bundle file: its version pair, the dataset of each root, and whether  *)
(* its bytes are on stable storage, only in the cache, or lost.            *)
(***************************************************************************)
Bundle ==
    [version : {"absent", "3/2", "4/3"},
     datasets : UNION {[roots -> Dataset] : roots \in SUBSET Message},
     bytes : {"stable", "cached", "lost"}]

NoBundle == [version |-> "absent", datasets |-> <<>>, bytes |-> "stable"]

VARIABLES
    serial,     \* whether whoever runs the commands runs one at a time
    file,       \* what the output path names
    disk,       \* what it names after a power failure, unless the rename got there
    pc, out,    \* of each command: where it is, and the bundle it writes
    rendered,   \* the ids in rendered artifacts: <<message, identity, id>>
    losses      \* power failures so far

vars == <<serial, file, disk, pc, out, rendered, losses>>

\* No bundle yet, or one of the historical version that has one dataset.
Init ==
    /\ serial \in BOOLEAN
    /\ \E m \in Message, d \in Sources : \E last \in LastIdBefore(TRUE, NoDataset, d) :
          /\ Accepts(TRUE, NoDataset, d, last)
          /\ file \in {NoBundle,
                       [version |-> "3/2", bytes |-> "stable",
                        datasets |-> [x \in {m} |-> Result(TRUE, NoDataset, d, last)]]}
    /\ disk = file
    /\ pc = [p \in Process |-> "idle"]
    /\ out = [p \in Process |-> NoBundle]
    /\ rendered = {}
    /\ losses = 0

CanStart(p) ==
    /\ pc[p] = "idle"
    /\ serial => \A q \in Process : pc[q] = "idle"

\* ParseSchemaBundle and MigrateSchemaBundle: both known versions are read, and
\* nothing of the datasets changes; lost bytes do not decode.
Readable(b) == b.version # "absent" => b.bytes # "lost"

(***************************************************************************)
(* CompileDescriptorBytes: roots are append-only, table names are distinct *)
(* and every root compiles.                                                *)
(***************************************************************************)
Previous(b, m) == IF m \in DOMAIN b.datasets THEN b.datasets[m] ELSE NoDataset
IsFirst(b, m) == m \notin DOMAIN b.datasets
LastId(b, m, d) == CHOOSE last \in LastIdBefore(IsFirst(b, m), Previous(b, m), d) : TRUE

\* Mutant: the roots may be any.
RootsUnchecked(b, input) == TRUE

RootsAppended(b, input) == DOMAIN b.datasets \subseteq DOMAIN input

Compiles(b, input) ==
    /\ RootsAppended(b, input)
    /\ \A m, n \in DOMAIN input : TableName[m] = TableName[n] => m = n
    /\ \A m \in DOMAIN input :
          Accepts(IsFirst(b, m), Previous(b, m), input[m], LastId(b, m, input[m]))

Compiled(b, input) ==
    [version |-> "4/3", bytes |-> "cached",
     datasets |-> [m \in DOMAIN input |->
         Result(IsFirst(b, m), Previous(b, m), input[m], LastId(b, m, input[m]))]]

\* runCompile up to the write: the previous bundle is read, the new one is made.
Compile(p, input) ==
    /\ CanStart(p)
    /\ serial \/ Cardinality(DOMAIN input) <= MaxOverlapping
    /\ Readable(file)
    /\ Compiles(file, input)
    /\ pc' = [pc EXCEPT ![p] = "compiled"]
    /\ out' = [out EXCEPT ![p] = Compiled(file, input)]
    /\ UNCHANGED <<serial, file, disk, rendered, losses>>

\* runMigrate up to the write, in place.
Migrate(p) ==
    /\ CanStart(p)
    /\ file.version # "absent" /\ Readable(file)
    /\ pc' = [pc EXCEPT ![p] = "compiled"]
    /\ out' = [out EXCEPT ![p] = [file EXCEPT !.version = "4/3", !.bytes = "cached"]]
    /\ UNCHANGED <<serial, file, disk, rendered, losses>>

(***************************************************************************)
(* writeFileAtomically.                                                    *)
(***************************************************************************)
\* The temporary file is created, given its mode and written: nothing reads it.
Write(p) ==
    /\ pc[p] = "compiled"
    /\ pc' = [pc EXCEPT ![p] = "written"]
    /\ UNCHANGED <<serial, file, disk, out, rendered, losses>>

Sync(p) ==
    /\ pc[p] = "written"
    /\ pc' = [pc EXCEPT ![p] = "synced"]
    /\ out' = [out EXCEPT ![p].bytes = "stable"]
    /\ UNCHANGED <<serial, file, disk, rendered, losses>>

\* Mutant: the temporary file is not synced before the rename.
RenameUnsynced(p) ==
    /\ pc[p] \in {"written", "synced"}
    /\ file' = out[p]
    /\ pc' = [pc EXCEPT ![p] = "idle"]
    /\ out' = [out EXCEPT ![p] = NoBundle]
    /\ UNCHANGED <<serial, disk, rendered, losses>>

Rename(p) ==
    /\ pc[p] = "synced"
    /\ file' = out[p]
    /\ pc' = [pc EXCEPT ![p] = "idle"]
    /\ out' = [out EXCEPT ![p] = NoBundle]
    /\ UNCHANGED <<serial, disk, rendered, losses>>

\* The command fails and removes its temporary file, or is killed and leaves one
\* that nothing reads.
Stops(p) ==
    /\ pc[p] # "idle"
    /\ pc' = [pc EXCEPT ![p] = "idle"]
    /\ out' = [out EXCEPT ![p] = NoBundle]
    /\ UNCHANGED <<serial, file, disk, rendered, losses>>

\* Mutant: a bundle is rendered before it replaces the file.
RenderUnpublished(m) ==
    /\ \E b \in {file} \cup {out[p] : p \in Process} :
          /\ m \in DOMAIN b.datasets
          /\ rendered' = rendered \cup
                {<<m, i, b.datasets[m].id[i]>> : i \in b.datasets[m].active}
    /\ serial /\ Cardinality(rendered') <= MaxRendered
    /\ UNCHANGED <<serial, file, disk, pc, out, losses>>

\* runRender: an artifact with the ids of one dataset.
Render(m) ==
    /\ Readable(file)
    /\ m \in DOMAIN file.datasets
    /\ rendered' = rendered \cup
          {<<m, i, file.datasets[m].id[i]>> : i \in file.datasets[m].active}
    /\ serial /\ Cardinality(rendered') <= MaxRendered
    /\ UNCHANGED <<serial, file, disk, pc, out, losses>>

(***************************************************************************)
(* The file system: a rename reaches the disk some time after it happened, *)
(* since the directory is not synced, and a power failure may undo it.     *)
(***************************************************************************)
Settles ==
    /\ ~serial /\ losses < MaxPowerLosses      \* disk is read by nothing else
    /\ disk # file
    /\ disk' = file
    /\ UNCHANGED <<serial, file, pc, out, rendered, losses>>

Survives(b) == IF b.bytes = "cached" THEN [b EXCEPT !.bytes = "lost"] ELSE b

PowerLoss ==
    /\ ~serial /\ losses < MaxPowerLosses
    /\ \E b \in {disk, Survives(file)} : file' = b /\ disk' = b
    /\ pc' = [p \in Process |-> "idle"]
    /\ out' = [p \in Process |-> NoBundle]
    /\ losses' = losses + 1
    /\ UNCHANGED <<serial, rendered>>

Next ==
    \/ \E p \in Process :
          \/ \E input \in Inputs : Compile(p, input)
          \/ Migrate(p) \/ Write(p) \/ Sync(p) \/ Rename(p) \/ Stops(p)
    \/ \E m \in Message : Render(m)
    \/ Settles
    \/ PowerLoss

Spec == Init /\ [][Next]_vars

(***************************************************************************)
(* Properties.                                                             *)
(***************************************************************************)
\* Whatever fails, is killed or loses power, and whichever commands overlap, the
\* file is absent or a whole bundle whose datasets the compiler can evolve.
BundleAlwaysUsable ==
    /\ Readable(file)
    /\ \A m \in DOMAIN file.datasets : AcceptsPrevious(file.datasets[m])

\* An id in artifacts rendered from the file at different times never stands for
\* two fields of a table, and a field never has two ids.
ArtifactsAgree ==
    \A r, s \in rendered : r[1] = s[1] => (r[2] = s[2] <=> r[3] = s[3])

\* When commands do not overlap, one that replaces the file keeps every dataset
\* and every identity in it, active or retired, with its id.
HistoryKept ==
    [][serial => \A m \in DOMAIN file.datasets :
          /\ m \in DOMAIN file'.datasets
          /\ \A i \in Known(file.datasets[m]) :
                /\ i \in Known(file'.datasets[m])
                /\ file'.datasets[m].id[i] = file.datasets[m].id[i]]_vars

\* Dataset roots are never discarded once they are in the bundle file.
RootsAppendOnly == [][DOMAIN file.datasets \subseteq DOMAIN file'.datasets]_vars
================================================================================
