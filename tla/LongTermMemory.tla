--------------------------- MODULE LongTermMemory ---------------------------
(***************************************************************************)
(* The long-term memory of a workspace (core/long_term_memory.py): rows in *)
(* SQLite, an index of vectors that is saved as a whole (vector_store.py), *)
(* and an archive file to which the text of cold entries moves.  The three *)
(* are written one after the other, and the process may stop, or a write   *)
(* fail, between any two of them.                                          *)
(***************************************************************************)
EXTENDS Naturals, Sequences, FiniteSets

CONSTANTS
    Entries,        \* ids of memory entries
    WarmAfter,      \* warm_after_days
    ColdAfter,      \* cold_after_days
    LastDay,        \* bound: the day on which time stops
    MaxLines,       \* bound: lines of the archive file
    MaxFaults       \* bound: crashes and failed writes

ASSUME MemoryAssumption ==
    /\ {WarmAfter, ColdAfter, LastDay, MaxLines, MaxFaults} \subseteq Nat
    /\ 1 < WarmAfter /\ WarmAfter <= ColdAfter

VARIABLES
    day,            \* datetime.now
    rows,           \* memory_entries: what every stored entry's row says
    index,          \* the ids in VectorStore.ids
    saved,          \* the ids in the saved index file
    archive,        \* the lines of memory_archive.jsonl
    torn,           \* the archive ends in a part of a line
    doing,          \* the steps still to do for one entry
    pending,        \* the targets that apply_retention or archive_old_runs has left to do
    faults,         \* crashes and failed writes so far
    hurt            \* entries which a fault may have left out of the index

memoryVars == <<day, rows, index, saved, archive, torn, doing, pending, faults, hurt>>

-----------------------------------------------------------------------------
Stored == DOMAIN rows
Idle == [step |-> "none"]
AtRest == doing = Idle /\ pending = <<>>

\* Semantic and procedural entries are searched by their vectors, episodic ones are not.
Searched(e) == rows[e].semantic

AgeOf(e) == day - rows[e].born
IdleDays(e) == day - rows[e].used

\* apply_retention: what becomes of an entry.
Target(e) ==
    IF \/ rows[e].policy = "cold"
       \/ AgeOf(e) >= ColdAfter /\ rows[e].access < 2
       \/ rows[e].weak /\ rows[e].access = 0 /\ AgeOf(e) > 1
    THEN "cold"
    ELSE IF AgeOf(e) >= WarmAfter \/ IdleDays(e) >= WarmAfter THEN "warm" ELSE "hot"

\* The line restore_from_cold uses: it reads from the start and gives up at the first line
\* it cannot parse.
FirstOf(e) ==
    {i \in 1..Len(archive) :
        /\ archive[i].id = e /\ archive[i].whole
        /\ \A j \in 1..(i - 1) : archive[j].whole /\ archive[j].id # e}

Quiet == UNCHANGED <<archive, torn, faults>>

-----------------------------------------------------------------------------
(* New entries and retrieval. *)

\* _add_entry commits the row before it adds the vector (store_episode, add_semantic,
\* promote_to_procedure).  An episode has a confidence that is never weak.
AddEntry(e, semantic, weak) ==
    /\ AtRest /\ e \in Entries \ Stored /\ (weak => semantic)
    /\ rows' = [x \in Stored \cup {e} |-> IF x \in Stored THEN rows[x] ELSE
                  [semantic |-> semantic, weak |-> weak, policy |-> "hot", text |-> "full",
                   born |-> day, used |-> day, access |-> 0]]
    /\ doing' = IF semantic THEN [step |-> "index", id |-> e] ELSE Idle
    /\ Quiet /\ UNCHANGED <<day, index, saved, pending, hurt>>

\* VectorStore.add and its _save: the file is replaced as a whole.
IndexEntry ==
    /\ doing.step = "index"
    /\ index' = index \cup {doing.id} /\ saved' = index'
    /\ hurt' = hurt \ {doing.id}
    /\ doing' = Idle
    /\ Quiet /\ UNCHANGED <<day, rows, pending>>

\* retrieve: every hit counts as a use of the entry.
Retrieve(hits) ==
    /\ AtRest /\ hits # {} /\ hits \subseteq index
    /\ rows' = [e \in Stored |-> IF e \in hits
                  THEN [rows[e] EXCEPT !.used = day, !.access = IF @ < 2 THEN @ + 1 ELSE @]
                  ELSE rows[e]]
    /\ Quiet /\ UNCHANGED <<day, index, saved, doing, pending, hurt>>

-----------------------------------------------------------------------------
(* Retention: every target is computed before the first entry is moved.    *)

ApplyRetention ==
    /\ AtRest
    /\ pending' = [e \in {x \in Stored : Target(x) # rows[x].policy} |-> Target(e)]
    /\ Quiet /\ UNCHANGED <<day, rows, index, saved, doing, hurt>>

\* archive_old_runs: the entries of old runs that are not cold yet.
ArchiveOldRuns(run) ==
    /\ AtRest /\ \A e \in run : AgeOf(e) >= ColdAfter
    /\ pending' = [e \in {x \in run : rows[x].policy # "cold"} |-> "cold"]
    /\ Quiet /\ UNCHANGED <<day, rows, index, saved, doing, hurt>>

Without(e) == [x \in DOMAIN pending \ {e} |-> pending[x]]

\* _set_retention
SetRetention(e) ==
    /\ doing = Idle /\ e \in DOMAIN pending /\ pending[e] # "cold"
    /\ rows' = [rows EXCEPT ![e].policy = pending[e]]
    /\ pending' = Without(e)
    /\ Quiet /\ UNCHANGED <<day, index, saved, doing, hurt>>

\* _move_to_cold appends the line first; a line that follows a torn one is lost in it.
ArchiveLine(e) ==
    /\ doing = Idle /\ e \in DOMAIN pending /\ pending[e] = "cold" /\ Len(archive) < MaxLines
    /\ archive' = Append(archive, [id |-> e, text |-> rows[e].text, whole |-> ~torn])
    /\ torn' = FALSE
    /\ doing' = [step |-> "unindex", id |-> e]
    /\ pending' = Without(e)
    /\ UNCHANGED <<day, rows, index, saved, faults, hurt>>

\* Mutation: a failed write is reported and the entry moved all the same.
WriteFailureIgnored(e) ==
    /\ doing = Idle /\ e \in DOMAIN pending /\ pending[e] = "cold" /\ faults < MaxFaults
    /\ torn' \in {torn, TRUE}
    /\ faults' = faults + 1
    /\ doing' = [step |-> "unindex", id |-> e]
    /\ pending' = Without(e)
    /\ UNCHANGED <<day, rows, index, saved, archive, hurt>>

\* The write fails, perhaps in the middle of the line: the entry stays as it is.
ArchiveWriteFails(e) ==
    /\ doing = Idle /\ e \in DOMAIN pending /\ pending[e] = "cold" /\ faults < MaxFaults
    /\ torn' \in {torn, TRUE}
    /\ faults' = faults + 1
    /\ pending' = Without(e)
    /\ UNCHANGED <<day, rows, index, saved, archive, doing, hurt>>

\* VectorStore.delete, which saves the index only if the entry was in it.
Unindex ==
    /\ doing.step = "unindex"
    /\ index' = index \ {doing.id}
    /\ saved' = IF doing.id \in index THEN index' ELSE saved
    /\ doing' = [doing EXCEPT !.step = "stub"]
    /\ Quiet /\ UNCHANGED <<day, rows, pending, hurt>>

\* The row becomes a stub of the archived entry.
MakeStub ==
    /\ doing.step = "stub"
    /\ rows' = [rows EXCEPT ![doing.id].text = "stub", ![doing.id].policy = "cold"]
    /\ doing' = Idle
    /\ Quiet /\ UNCHANGED <<day, index, saved, pending, hurt>>

\* restore_from_cold
RestoreFromCold(e) ==
    /\ AtRest /\ e \in Stored
    /\ \E i \in FirstOf(e) : rows' = [rows EXCEPT ![e].text = archive[i].text,
                                                  ![e].policy = "warm"]
    /\ doing' = IF Searched(e) THEN [step |-> "index", id |-> e] ELSE Idle
    /\ Quiet /\ UNCHANGED <<day, index, saved, pending, hurt>>

-----------------------------------------------------------------------------
(* Faults and time. *)

\* The index cannot be saved: the exception ends the operation and the retention.
SaveFails ==
    /\ doing.step = "index" \/ (doing.step = "unindex" /\ doing.id \in index)
    /\ faults < MaxFaults /\ faults' = faults + 1
    /\ index' = IF doing.step = "index" THEN index \cup {doing.id} ELSE index \ {doing.id}
    /\ hurt' = hurt \cup {doing.id}
    /\ doing' = Idle /\ pending' = <<>>
    /\ UNCHANGED <<day, rows, saved, archive, torn>>

\* The process stops and the workspace is opened again later.
Crash ==
    /\ faults < MaxFaults /\ faults' = faults + 1
    /\ torn' \in IF \E e \in DOMAIN pending : pending[e] = "cold" THEN {torn, TRUE} ELSE {torn}
    /\ index' = saved
    /\ hurt' = hurt \cup {e \in Entries : doing # Idle /\ e = doing.id} \cup (index \ saved)
    /\ doing' = Idle /\ pending' = <<>>
    /\ UNCHANGED <<day, rows, saved, archive>>

NextDay ==
    /\ AtRest /\ day < LastDay /\ day' = day + 1
    /\ Quiet /\ UNCHANGED <<rows, index, saved, doing, pending, hurt>>

-----------------------------------------------------------------------------
MemoryInit ==
    /\ day = 0 /\ rows = <<>> /\ index = {} /\ saved = {}
    /\ archive = <<>> /\ torn = FALSE
    /\ doing = Idle /\ pending = <<>>
    /\ faults = 0 /\ hurt = {}

MemoryNext ==
    \/ \E e \in Entries, semantic, weak \in BOOLEAN : AddEntry(e, semantic, weak)
    \/ \E hits \in SUBSET Entries : Retrieve(hits)
    \/ \E run \in SUBSET Stored : ArchiveOldRuns(run)
    \/ \E e \in Entries : SetRetention(e) \/ ArchiveLine(e) \/ ArchiveWriteFails(e)
                          \/ RestoreFromCold(e)
    \/ ApplyRetention \/ IndexEntry \/ Unindex \/ MakeStub
    \/ SaveFails \/ Crash \/ NextDay

-----------------------------------------------------------------------------
(* Properties. *)

MemoryTypeOK ==
    /\ day \in 0..LastDay /\ faults \in 0..MaxFaults /\ torn \in BOOLEAN
    /\ Stored \subseteq Entries /\ {index, saved, hurt} \subseteq SUBSET Entries
    /\ rows \in [Stored -> [semantic : BOOLEAN, weak : BOOLEAN,
                            policy : {"hot", "warm", "cold"}, text : {"full", "stub"},
                            born : 0..LastDay, used : 0..LastDay, access : 0..2]]
    /\ archive \in Seq([id : Entries, text : {"full", "stub"}, whole : BOOLEAN])
    /\ doing = Idle \/ doing \in [step : {"index", "unindex", "stub"}, id : Stored]
    /\ DOMAIN pending \subseteq Stored
    /\ \A e \in DOMAIN pending : pending[e] \in {"hot", "warm", "cold"}

\* The full text of an entry is in its row or in the archive, wherever a crash or a failed
\* write came in between (_move_to_cold's comments, CHANGELOG on cold storage).
TextIsKept ==
    \A e \in Stored : rows[e].text = "full"
        \/ \E i \in 1..Len(archive) : archive[i].id = e /\ archive[i].text = "full"

\* As long as no line is torn, a cold entry can be restored and gets its full text back,
\* however often it went to the archive (restore_from_cold).
ColdIsRestorable ==
    (\A i \in 1..Len(archive) : archive[i].whole) =>
        \A e \in Stored : rows[e].policy = "cold" =>
            \E i \in FirstOf(e) : archive[i].text = "full"

\* The search never gives a stub for an answer, not even after a restart, except for an
\* entry whose removal from the index could once not be saved: the next removal does not
\* find it in the index and leaves the saved file as it is (VectorStore.delete).
StubIsNotSearched ==
    \A e \in index \cup saved : rows[e].text = "full" \/ e \in hurt

\* What is not cold is found by the search, unless a fault left it out; a restore that
\* completes repairs that (IndexEntry).
IndexIsComplete ==
    doing = Idle => \A e \in Stored \ hurt :
        Searched(e) /\ rows[e].policy # "cold" => e \in index
=============================================================================
