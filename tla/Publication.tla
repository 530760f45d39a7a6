----------------------------- MODULE Publication -----------------------------
(***************************************************************************)
(* The publication ledger of a release (dev_orchestrator/                  *)
(* release_publication.py): a plan of the artifacts and a chain of         *)
(* receipts for what was published where.  Processes create it and record  *)
(* receipts under its lock file while the release directory may change.    *)
(***************************************************************************)
EXTENDS LockFile, Sequences

CONSTANTS
    Artifacts,      \* files of the release directory
    Drive, Github   \* the required targets: a mirror of the artifacts, the source repository

ASSUME PublicationAssumption == Drive # Github /\ "none" \notin {Drive, Github}

VARIABLES
    request,        \* what every process wants to do
    content,        \* the version of every file in the release directory
    read,           \* the ledger a process writes, or takes as the one to extend
    ledger,         \* the file
    acknowledged    \* the processes whose call has returned without an error

ledgerVars == <<lockVars, request, content, read, ledger, acknowledged>>

-----------------------------------------------------------------------------
Versions == 0..1

\* The receipts: an artifact in the mirror with the digest of its remote copy, and the
\* commit in the repository, which the plan fixes.
Receipt(target, item, digest) == [target |-> target, item |-> item, digest |-> digest]
Receipts == {Receipt(Drive, a, v) : a \in Artifacts, v \in Versions}
            \cup {Receipt(Github, "commit", 0)}
CreateLedger == Receipt("none", "plan", 0)

NoLedger == [plan |-> <<>>, events |-> <<>>]

\* An event carries the hash of the one before, which stands for all events up to it.
Hash(events) == [i \in 1..Len(events) |-> events[i].receipt]
Event(events, receipt) == [receipt |-> receipt, previous |-> Hash(events)]

\* _validate_ledger_payload: the chain is whole, and every receipt the first of its target
\* and artifact.
ValidChain(events) ==
    \A i \in 1..Len(events) :
        /\ events[i].previous = Hash(SubSeq(events, 1, i - 1))
        /\ \A j \in 1..(i - 1) :
              <<events[j].receipt.target, events[j].receipt.item>>
                 # <<events[i].receipt.target, events[i].receipt.item>>

\* With the release directory also: its files are those of the plan, and their digests the
\* ones of the remote copies.
ValidFiles(l) ==
    /\ \A a \in Artifacts : content[a] = l.plan[a]
    /\ \A i \in 1..Len(l.events) :
          l.events[i].receipt.target = Drive =>
              l.events[i].receipt.digest = content[l.events[i].receipt.item]

Recorded(l) == {l.events[i].receipt : i \in 1..Len(l.events)}

\* verify_publication_ledger: what complete means.
Published(l) ==
    /\ \A a \in Artifacts : \E r \in Recorded(l) : r.target = Drive /\ r.item = a
    /\ \E r \in Recorded(l) : r.target = Github

-----------------------------------------------------------------------------
(* create_publication_ledger takes the inventory before it waits for the   *)
(* lock; the file must not exist when it has it.                           *)

TakeInventory(p) ==
    /\ at[p] = "waiting" /\ request[p] = CreateLedger /\ read[p] = NoLedger
    /\ read' = [read EXCEPT ![p] = [plan |-> content, events |-> <<>>]]
    /\ UNCHANGED <<lockVars, request, content, ledger, acknowledged>>

CheckAbsent(p) ==
    /\ at[p] = "working" /\ request[p] = CreateLedger /\ read[p] # NoLedger
    /\ at' = [at EXCEPT ![p] = IF ledger = NoLedger THEN "loaded" ELSE "leaving"]
    /\ UNCHANGED <<rule, file, displaced, fault, request, content, read, ledger, acknowledged>>

\* Mutation: a second receipt for an artifact is not refused.
AdmittedTwice(r, l) ==
    /\ l # NoLedger /\ ValidChain(l.events)
    /\ r.target = Drive => ValidFiles(l) /\ r.digest = content[r.item]

\* record_artifact_receipt and record_source_receipt: what they check of the ledger they
\* load; the latter does without the release directory.
Admitted(r, l) ==
    /\ l # NoLedger /\ ValidChain(l.events)
    /\ \A s \in Recorded(l) : <<s.target, s.item>> # <<r.target, r.item>>
    /\ r.target = Drive => ValidFiles(l) /\ r.digest = content[r.item]

LoadLedger(p) ==
    /\ at[p] = "working" /\ request[p] # CreateLedger
    /\ read' = [read EXCEPT ![p] = ledger]
    /\ at' = [at EXCEPT ![p] = IF Admitted(request[p], ledger) THEN "loaded" ELSE "leaving"]
    /\ UNCHANGED <<rule, file, displaced, fault, request, content, ledger, acknowledged>>

\* _atomic_write_json
WriteLedger(p) ==
    /\ at[p] = "loaded"
    /\ ledger' = [read[p] EXCEPT !.events = Append(@, Event(@, request[p]))]
    /\ acknowledged' = acknowledged \cup {p}
    /\ at' = [at EXCEPT ![p] = "leaving"]
    /\ UNCHANGED <<rule, file, displaced, fault, request, content, read>>

\* A file of the release is built again.
Rebuild(a) ==
    /\ content[a] = 0
    /\ content' = [content EXCEPT ![a] = 1]
    /\ UNCHANGED <<lockVars, request, read, ledger, acknowledged>>

\* A process that creates the ledger waits only once it has the inventory.
LedgerLockStep ==
    /\ LockStep
    /\ \A p \in Processes : request[p] = CreateLedger /\ read[p] = NoLedger => at'[p] = "waiting"
    /\ UNCHANGED <<request, content, read, ledger, acknowledged>>

LedgerInit ==
    /\ request \in [Processes -> Receipts \cup {CreateLedger}]
    /\ content = [a \in Artifacts |-> 0]
    /\ read = [p \in Processes |-> NoLedger]
    /\ ledger \in {NoLedger, [plan |-> content, events |-> <<Event(<<>>, CreateLedger)>>]}
    /\ acknowledged = {}

LedgerNext ==
    \/ LedgerLockStep
    \/ \E p \in Processes : TakeInventory(p) \/ CheckAbsent(p) \/ LoadLedger(p) \/ WriteLedger(p)
    \/ \E a \in Artifacts : Rebuild(a)

-----------------------------------------------------------------------------
(* Properties. *)

LedgerTypeOK ==
    /\ request \in [Processes -> Receipts \cup {CreateLedger}]
    /\ content \in [Artifacts -> Versions]
    /\ \A l \in {ledger} \cup {read[p] : p \in Processes} : l = NoLedger \/
          /\ l.plan \in [Artifacts -> Versions]
          /\ Recorded(l) \subseteq Receipts \cup {CreateLedger}
    /\ acknowledged \subseteq Processes

\* However processes overlap, die and take locks from each other, the ledger in the file
\* is one that verifies: it starts with its creation, the chain is whole, no receipt is
\* there twice, and every remote copy is of the planned version.
LedgerVerifies ==
    ledger # NoLedger =>
        /\ ValidChain(ledger.events) /\ ledger.events[1].receipt = CreateLedger
        /\ \A r \in Recorded(ledger) : r.target = Drive => r.digest = ledger.plan[r.item]

\* A receipt or a plan whose call has returned stays in the ledger, unless a lock was taken
\* from a process that still worked, as the check of gigabytes under the lock allows.
ReceiptsAreKept ==
    ~displaced => \A p \in acknowledged : request[p] \in Recorded(ledger)

\* Only receipts from calls that wrote them make a release complete.
CompleteIsPublished ==
    Published(ledger) => \A r \in Recorded(ledger) \ {CreateLedger} :
        \E p \in acknowledged : request[p] = r
=============================================================================
