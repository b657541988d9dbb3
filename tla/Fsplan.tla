------------------------------- MODULE Fsplan -------------------------------
(***************************************************************************)
(* internal/fsplan: what a command of omnicore-gen may do to one file.     *)
(* Every operator here is a pure function of what is on disk and what the  *)
(* lock records; module Project makes commands out of them.                *)
(*                                                                         *)
(* A file's bytes are abstracted to what the code can tell apart: whether  *)
(* it carries a checksum (gofile.VerifyHeader) and which text it holds.    *)
(* Hash is taken to be collision free, so a hash is the content it hashes; *)
(* both Hash and VerifyHeader normalise line endings, so two contents that *)
(* differ in CRLF only are one content here.                               *)
(***************************************************************************)
EXTENDS Naturals, FiniteSets

CONSTANTS
    Entities,      \* aggregates, numbered in the order of their names
    Paths,         \* paths relative to the root, numbered in sorted order
    Migrations,    \* the paths of the SQL pairs (IsMigration)
    GenTexts,      \* texts the emitters produce
    AuthorTexts,   \* texts only a person writes
    Torn,          \* the text of a file whose write was cut short
    Everyone,      \* what a shared file's header names instead of an entity
    Gone,          \* no file at the path
    NoRecord       \* the entity's lock entry has no record of the path

ASSUME NumberedAssumption == Entities \subseteq Nat /\ Paths \subseteq Nat
ASSUME MigrationsAssumption == Migrations \subseteq Paths
ASSUME TextsAssumption ==
    /\ GenTexts \cap AuthorTexts = {}
    /\ Torn \notin GenTexts \cup AuthorTexts
ASSUME EveryoneAssumption == Everyone \notin Entities

Seals == {"sealed",   \* checksum present and matching
          "broken",   \* checksum present, contents differ
          "bare"}     \* no checksum

Content == [seal : Seals,
            text : GenTexts \cup AuthorTexts \cup {Torn},
            by   : Entities \cup {Everyone}]

Classes == {"owned", "hook"}

\* One planned output, before sealFiles gives it its header.
File == [path : Paths, class : Classes, text : GenTexts, shared : BOOLEAN]

Actions == {"create", "update", "unchanged", "refused", "kept"}

Record == [class : Classes, hash : Content, adopted : BOOLEAN]

ASSUME GoneAssumption == Gone \notin Content
ASSUME NoRecordAssumption == NoRecord \notin Record

Lock == [Entities -> [Paths -> Record \cup {NoRecord}]]

EmptyLock == [e \in Entities |-> [p \in Paths |-> NoRecord]]

WithRecord(l, e, p, rec) == [l EXCEPT ![e] = [@ EXCEPT ![p] = rec]]

-----------------------------------------------------------------------------
(* Sealing: gofile.ApplyHeaderWith, called by emit's sealFiles.            *)

\* Sealed as it was when a shared file named the entity that ran.
SealedByRunner(e, f) ==
    [seal |-> IF f.class = "hook" THEN "bare" ELSE "sealed", text |-> f.text, by |-> e]

\* A hook's header carries no checksum; an owned file is sealed with one, and
\* a shared file names no entity. The date is left out: it moves only when
\* the rest of the content does.
Sealed(e, f) ==
    [seal |-> IF f.class = "hook" THEN "bare" ELSE "sealed",
     text |-> f.text,
     by   |-> IF f.shared THEN Everyone ELSE e]

Intact(c) == c.seal = "sealed"
Tracked(c) == c.seal # "bare"

-----------------------------------------------------------------------------
(* Planning a generation.                                                  *)

Adopted(rec) == rec # NoRecord /\ rec.adopted

\* Decide as it would be if adoptions were not consulted.
DecideUnadopted(e, f, onDisk, rec, forced) ==
    IF onDisk = Gone THEN "create"
    ELSE IF f.class = "hook" THEN "kept"
    ELSE IF forced THEN "update"
    ELSE IF ~Intact(onDisk) THEN "refused"
    ELSE IF onDisk = Sealed(e, f) THEN "unchanged"
    ELSE "update"

\* ... if -force outranked an adoption.
DecideForceFirst(e, f, onDisk, rec, forced) ==
    IF onDisk = Gone THEN "create"
    ELSE IF f.class = "owned" /\ forced THEN "update"
    ELSE DecideUnadopted(e, f, onDisk, rec, forced)

\* ... if -force reached hooks.
DecideForceHooks(e, f, onDisk, rec, forced) ==
    IF onDisk # Gone /\ forced THEN "update"
    ELSE DecideUnadopted(e, f, onDisk, rec, forced)

\* ... if a checksum that is there were not compared.
DecideUnverified(e, f, onDisk, rec, forced) ==
    IF onDisk # Gone /\ f.class = "owned" /\ Tracked(onDisk) THEN "update"
    ELSE DecideUnadopted(e, f, onDisk, rec, forced)

\* ... if an intact file were always written again.
DecideRewriting(e, f, onDisk, rec, forced) ==
    LET a == DecideUnadopted(e, f, onDisk, rec, forced)
    IN  IF a = "unchanged" THEN "update" ELSE a

\* What Plan decides for file f of entity e: onDisk is the path's content,
\* rec the entity's own record of the path, forced whether -force names it.
Decide(e, f, onDisk, rec, forced) ==
    IF onDisk = Gone THEN "create"
    ELSE IF f.class = "hook" \/ Adopted(rec) THEN "kept"
    ELSE IF forced THEN "update"
    ELSE IF ~Tracked(onDisk) \/ ~Intact(onDisk) THEN "refused"
    ELSE IF onDisk = Sealed(e, f) THEN "unchanged"
    ELSE "update"

Writes(action) == action \in {"create", "update"}

TracksAsHook(f) == f.class = "hook" /\ f.path \notin Migrations

\* RecordAfter as it was before hooks were recorded.
RecordAfterNoHooks(e, f, action, rec) ==
    LET fresh == [class |-> f.class, hash |-> Sealed(e, f), adopted |-> FALSE]
    IN  IF f.class = "hook" THEN NoRecord
        ELSE IF action \in {"refused", "kept"} THEN rec ELSE fresh

\* ... if a refusal were recorded the way an adoption is.
RecordAfterRefusal(e, f, action, rec) ==
    LET fresh == [class |-> f.class, hash |-> Sealed(e, f), adopted |-> FALSE]
    IN  IF action = "refused" THEN [fresh EXCEPT !.adopted = TRUE]
        ELSE IF action = "kept" THEN rec ELSE fresh

\* ... if a kept owned file's record were dropped, as a kept migration's is.
RecordAfterForgetful(e, f, action, rec) ==
    LET fresh == [class |-> f.class, hash |-> Sealed(e, f), adopted |-> FALSE]
    IN  IF action = "refused" THEN rec
        ELSE IF action = "kept" /\ ~TracksAsHook(f) THEN NoRecord
        ELSE IF action = "kept" THEN rec ELSE fresh

\* The record Apply leaves for f, given the action it carried out on it.
RecordAfter(e, f, action, rec) ==
    LET fresh == [class |-> f.class, hash |-> Sealed(e, f), adopted |-> FALSE]
    IN  IF Writes(action)
        THEN IF f.class = "owned" \/ TracksAsHook(f) THEN fresh ELSE NoRecord
        ELSE IF action = "unchanged"
        THEN IF f.class = "owned" THEN fresh ELSE NoRecord
        ELSE IF action = "refused" \/ f.class = "owned" THEN rec
        ELSE IF ~TracksAsHook(f) THEN NoRecord
        ELSE IF rec # NoRecord /\ rec.class = "hook" THEN rec
        ELSE fresh

-----------------------------------------------------------------------------
(* Planning a prune, and adopting.                                         *)

Recorded(l, e, p) == l[e][p] # NoRecord

Claimants(l, p) == {e \in Entities : Recorded(l, e, p)}

ClaimedByOther(l, e, p) == Claimants(l, p) \ {e} # {}

\* PruneKind as it would be if other entities' records were not consulted.
PruneKindUnclaimed(l, e, p, onDisk) ==
    IF onDisk = Gone THEN "forget"
    ELSE IF l[e][p].adopted \/ onDisk # l[e][p].hash THEN "keep"
    ELSE "delete"

\* ... if an adopted file were an ordinary leftover.
PruneKindUnadopted(l, e, p, onDisk) ==
    IF onDisk = Gone THEN "forget"
    ELSE IF ClaimedByOther(l, e, p) \/ onDisk # l[e][p].hash THEN "keep"
    ELSE "delete"

\* ... if the file's hash were not compared.
PruneKindUnhashed(l, e, p, onDisk) ==
    IF onDisk = Gone THEN "forget"
    ELSE IF ClaimedByOther(l, e, p) \/ l[e][p].adopted THEN "keep"
    ELSE "delete"

\* What PlanPrune decides for a path entity e records and no longer produces.
PruneKind(l, e, p, onDisk) ==
    IF onDisk = Gone THEN "forget"
    ELSE IF ClaimedByOther(l, e, p) \/ l[e][p].adopted \/ onDisk # l[e][p].hash
         THEN "keep"
    ELSE "delete"

\* The entity whose record an adoption of p changes is the first by name.
IsAdopter(l, e, p) == e \in Claimants(l, p) /\ \A o \in Claimants(l, p) : e <= o

-----------------------------------------------------------------------------
(* Whose work is on disk.                                                  *)

\* A person wrote what the path holds.
Authored(c) == c # Gone /\ c.text \in AuthorTexts

\* The path holds what the generator wrote, whole.
Generated(c) == c # Gone /\ c.text \in GenTexts
=============================================================================
