---------------------------- MODULE Registrations ---------------------------
(***************************************************************************)
(* The files every entity registers in: notification declarations and      *)
(* translation catalogs. They have no header and no checksum; the lock     *)
(* records, for each entity, the hash of every entry it wrote, and that is *)
(* what tells the generator's text from the author's.                      *)
(*                                                                         *)
(* generate merges an entity's entries into the files, prune -apply takes  *)
(* the ones it no longer declares out; both plan from one reading, write   *)
(* the files one by one and save the lock last. One command runs at a      *)
(* time. Whitespace is normalised before hashing, so an entry is its text. *)
(***************************************************************************)
EXTENDS Naturals, FiniteSets

CONSTANTS
    Entities,      \* aggregates of the project
    Names,         \* entries: notification types and catalog keys
    Sites,         \* the shared files
    Catalogs,      \* the sites that hold catalog keys
    SiteOf,        \* the site of each entry
    Texts,         \* texts the generator writes
    AuthorTexts,   \* texts only a person writes
    Odd,           \* a catalog value that is not one quoted string on its line
    Absent,        \* no such entry, no such record
    Idle,          \* no command
    Shapes,        \* what an entity's spec may declare
    Declares       \* the entries an entity declares in each shape

ASSUME SitesAssumption == SiteOf \in [Names -> Sites] /\ Catalogs \subseteq Sites
ASSUME EntriesAssumption ==
    /\ Texts \cap AuthorTexts = {}
    /\ Odd \notin Texts \cup AuthorTexts
    /\ Absent \notin Texts \cup AuthorTexts \cup {Odd}
ASSUME DeclaresAssumption ==
    Declares \in [Entities -> [Shapes -> [Names -> Texts \cup {Absent}]]]

VARIABLES
    text,      \* the text of each entry on disk
    site,      \* whether each file is there, parses, and closes its map
    record,    \* the lock's registrations: what each entity wrote, by entry
    spec,      \* the shape each entity's spec describes
    run        \* the command in progress

vars == <<text, site, record, spec, run>>

Written == Texts \cup AuthorTexts \cup {Odd, Absent}
Records == [Entities -> [Names -> Written \ {Odd}]]

Run == [cmd : {"generate", "prune"}, entity : Entities, todo : SUBSET Sites,
        next : [Names -> Written], mem : Records, drifted : SUBSET Names]

ASSUME IdleAssumption == Idle \notin Run

\* A file left unfinished does not parse; a catalog may also be open, the end of
\* its map not found: cut short inside it, or the map written some other way.
Unfinished(s) == IF s \in Catalogs THEN {"broken", "open"} ELSE {"broken"}

TypeOK ==
    /\ text \in [Names -> Written]
    /\ site \in [Sites -> {"gone", "parses", "broken", "open"}]
    /\ \A s \in Sites \ Catalogs : site[s] # "open"
    /\ record \in Records
    /\ spec \in [Entities -> Shapes]
    /\ run \in Run \cup {Idle}

NoRecords == [e \in Entities |-> [n \in Names |-> Absent]]

Init ==
    /\ text = [n \in Names |-> Absent]
    /\ site = [s \in Sites |-> "gone"]
    /\ record = NoRecords
    /\ spec \in [Entities -> Shapes]
    /\ run = Idle

-----------------------------------------------------------------------------
(* Reading an entry back. A declaration is found by parsing the file, a    *)
(* catalog value by a pattern on its line.                                 *)

Wants(e, n) == Declares[e][spec[e]][n]

ReadsBack(n) ==
    /\ text[n] # Absent
    /\ IF SiteOf[n] \in Catalogs THEN text[n] # Odd ELSE site[SiteOf[n]] = "parses"

-----------------------------------------------------------------------------
(* The merge: MergeTypeDeclsWith and MergeMapEntries.                      *)

\* A catalog whose map has no end is left alone, and none of its keys counted.
Considers(e, n) == Wants(e, n) # Absent /\ site[SiteOf[n]] # "open"

Adds(e, n) == Considers(e, n) /\ text[n] = Absent

Confirms(e, n) == Considers(e, n) /\ ReadsBack(n) /\ text[n] = Wants(e, n)

\* Moves as it would be if any record would do for the licence to replace.
MovesForeign(e, n) ==
    /\ Considers(e, n) /\ ReadsBack(n) /\ text[n] # Wants(e, n)
    /\ \E o \in Entities : record[o][n] = text[n]

\* ... if the text on disk were not compared with the record.
MovesRecorded(e, n) ==
    /\ Considers(e, n) /\ ReadsBack(n) /\ text[n] # Wants(e, n)
    /\ record[e][n] # Absent

\* The text is still what this entity's record says, and the spec has moved.
Moves(e, n) ==
    /\ Considers(e, n) /\ ReadsBack(n) /\ text[n] # Wants(e, n)
    /\ record[e][n] = text[n]

Drifted(e, n) ==
    /\ Considers(e, n) /\ ReadsBack(n)
    /\ ~Confirms(e, n) /\ ~Moves(e, n)

Merged(e) ==
    [n \in Names |-> IF Adds(e, n) \/ Moves(e, n) THEN Wants(e, n) ELSE text[n]]

\* The entries this run is responsible for.
WrittenBy(e, n) == Adds(e, n) \/ Confirms(e, n) \/ Moves(e, n)

\* What other entities recorded: of several, whichever comes first.
Foreign(e, n) ==
    LET others == {record[o][n] : o \in Entities \ {e}} \ {Absent}
    IN  IF others = {} THEN {Absent} ELSE others

Changed(e) ==
    {s \in Sites : \/ s \in Catalogs /\ site[s] = "gone"
                   \/ \E n \in Names : SiteOf[n] = s /\ Merged(e)[n] # text[n]}

\* gofmt refuses what does not parse, and the command stops there.
Emits(e) == \A s \in Changed(e) : site[s] # "broken"

-----------------------------------------------------------------------------
(* generate                                                                *)

\* What is reported as a hand edit depends on which other record was read.
Reported(e, drifted) ==
    LET told == {n \in Names : Drifted(e, n) /\ SiteOf[n] \notin Catalogs}
    IN  /\ {n \in told : text[n] \notin Foreign(e, n)} \subseteq drifted
        /\ drifted \subseteq {n \in told : Foreign(e, n) # {text[n]}}

StartGenerate(e) ==
    /\ run = Idle /\ Emits(e)
    /\ \E drifted \in SUBSET Names :
          /\ Reported(e, drifted)
          /\ run' = [cmd |-> "generate", entity |-> e, todo |-> Changed(e),
                     next |-> Merged(e), drifted |-> drifted,
                     mem |-> [record EXCEPT ![e] =
                        [n \in Names |-> IF WrittenBy(e, n) THEN Wants(e, n)
                                                            ELSE @[n]]]]
    /\ UNCHANGED <<text, site, record, spec>>

(* prune -apply: planRegistrationPrune and applyRegistrationPrune.         *)

\* PruneKind as it would be if the hash were not compared.
PruneKindUnhashed(e, n) ==
    IF ~ReadsBack(n) THEN "forget"
    ELSE IF \E o \in Entities \ {e} : record[o][n] # Absent THEN "keep" ELSE "delete"

\* ... if other entities' records were not consulted.
PruneKindUnclaimed(e, n) ==
    IF ~ReadsBack(n) THEN "forget"
    ELSE IF text[n] # record[e][n] THEN "keep" ELSE "delete"

\* ... if an edited entry were forgotten.
PruneKindForgetting(e, n) ==
    IF ~ReadsBack(n) \/ text[n] # record[e][n] \/ \E o \in Entities \ {e} : record[o][n] # Absent
    THEN "forget" ELSE "delete"

PruneKind(e, n) ==
    IF ~ReadsBack(n) THEN "forget"
    ELSE IF text[n] # record[e][n] \/ \E o \in Entities \ {e} : record[o][n] # Absent
         THEN "keep"
    ELSE "delete"

\* Recorded, in a file that is there, and not something the merge would write.
Leftovers(e) ==
    {n \in Names : /\ record[e][n] # Absent /\ ~WrittenBy(e, n)
                   /\ site[SiteOf[n]] # "gone"}

StartPrune(e) ==
    LET doomed == {n \in Leftovers(e) : PruneKind(e, n) # "keep"}
        removed == {n \in doomed : PruneKind(e, n) = "delete"}
    IN  /\ run = Idle /\ Emits(e) /\ doomed # {}
        /\ run' = [cmd |-> "prune", entity |-> e,
                   todo |-> {SiteOf[n] : n \in removed},
                   next |-> [n \in Names |-> IF n \in removed THEN Absent ELSE text[n]],
                   mem |-> [record EXCEPT ![e] =
                      [n \in Names |-> IF n \in doomed THEN Absent ELSE @[n]]],
                   drifted |-> {}]
        /\ UNCHANGED <<text, site, record, spec>>

(* Both write their files one at a time, generate in the order of their    *)
(* paths and prune in no order, and save the lock last.                    *)

WriteSite(s) ==
    /\ run # Idle /\ s \in run.todo
    /\ text' = [n \in Names |-> IF SiteOf[n] = s THEN run.next[n] ELSE text[n]]
    /\ site' = [site EXCEPT ![s] = IF @ = "gone" THEN "parses" ELSE @]
    /\ run' = [run EXCEPT !.todo = @ \ {s}]
    /\ UNCHANGED <<record, spec>>

SaveLock ==
    /\ run # Idle /\ run.todo = {}
    /\ record' = run.mem
    /\ run' = Idle
    /\ UNCHANGED <<text, site, spec>>

Crash ==
    /\ run # Idle
    /\ run' = Idle
    /\ UNCHANGED <<text, site, record, spec>>

\* The write is cut short: the file ends where it was cut.
CrashWriting(s) ==
    /\ run # Idle /\ s \in run.todo
    /\ \E lost \in SUBSET {n \in Names : SiteOf[n] = s} :
          text' = [n \in Names |-> IF n \in lost THEN Absent
                                   ELSE IF SiteOf[n] = s THEN run.next[n] ELSE text[n]]
    /\ \E cut \in Unfinished(s) : site' = [site EXCEPT ![s] = cut]
    /\ run' = Idle
    /\ UNCHANGED <<record, spec>>

-----------------------------------------------------------------------------
(* The author.                                                             *)

EditSpec(e, s) ==
    /\ run = Idle /\ spec[e] # s
    /\ spec' = [spec EXCEPT ![e] = s]
    /\ UNCHANGED <<text, site, record, run>>

\* Rewords an entry, adds or removes one, or restores a generated text.
EditEntry(n, t) ==
    /\ run = Idle /\ site[SiteOf[n]] # "gone"
    /\ t = Odd => SiteOf[n] \in Catalogs
    /\ text' = [text EXCEPT ![n] = t]
    /\ UNCHANGED <<site, record, spec, run>>

\* Leaves a file in the middle of an edit, or finishes it.
EditSite(s) ==
    /\ run = Idle /\ site[s] # "gone"
    /\ \E left \in ({"parses"} \cup Unfinished(s)) \ {site[s]} :
          site' = [site EXCEPT ![s] = left]
    /\ UNCHANGED <<text, record, spec, run>>

DeleteSite(s) ==
    /\ run = Idle /\ site[s] # "gone"
    /\ site' = [site EXCEPT ![s] = "gone"]
    /\ text' = [n \in Names |-> IF SiteOf[n] = s THEN Absent ELSE text[n]]
    /\ UNCHANGED <<record, spec, run>>

DeleteLock ==
    /\ run = Idle /\ record # NoRecords
    /\ record' = NoRecords
    /\ UNCHANGED <<text, site, spec, run>>

-----------------------------------------------------------------------------
Generate == \E e \in Entities : StartGenerate(e)
Prune == \E e \in Entities : StartPrune(e)
Command == Generate \/ Prune \/ (\E s \in Sites : WriteSite(s)) \/ SaveLock

Failure == Crash \/ \E s \in Sites : CrashWriting(s)

Author ==
    \/ \E e \in Entities, s \in Shapes : EditSpec(e, s)
    \/ \E n \in Names, t \in Written : EditEntry(n, t)
    \/ \E s \in Sites : EditSite(s) \/ DeleteSite(s)
    \/ DeleteLock

Next == Command \/ Failure \/ Author

Spec == Init /\ [][Next]_vars

\* A command that is running goes on, and every entity keeps being generated.
Fairness ==
    /\ \A s \in Sites : WF_vars(WriteSite(s))
    /\ WF_vars(SaveLock)
    /\ \A e \in Entities : SF_vars(StartGenerate(e))

FairSpec == Spec /\ Fairness

-----------------------------------------------------------------------------
(* Properties.                                                             *)

\* "It is theirs": a command neither moves nor removes an entry somebody
\* rewrote, in whatever order specs, hand edits, crashes and a lost lock come.
\* A write cut short is the exception: it takes what it cuts off with it.
\* (MergeTypeDeclsWith, MergeMapEntries, planRegistrationPrune)
AuthorsEntriesKept ==
    [][\/ \A n \in Names : text[n] \in AuthorTexts \cup {Odd} => text'[n] = text[n]
       \/ Author \/ \E s \in Sites : CrashWriting(s)]_vars

\* A record holds what the generator wrote or confirmed, never what it merely
\* found: otherwise a hand edit would be the licence to discard it. (written)
RecordsAreGenerated ==
    \A e \in Entities, n \in Names : record[e][n] \in Texts \cup {Absent}

\* The entry on disk is on record as some entity's work.
Known(n) ==
    \/ \E e \in Entities : record[e][n] = text[n]
    \/ run # Idle /\ \E e \in Entities : run.mem[e][n] = text[n]

\* A command that does not die leaves no entry of the generator's behind that
\* no record knows: "the record is the only evidence" that it may be removed
\* later. A declaration in a file that does not parse is the exception: prune
\* takes what it cannot read there for gone. (ApplyWith, ForgetRegistration,
\* RegisteredText)
NothingGoesUnknown ==
    [][\/ \A n \in Names :
             text[n] \in Texts /\ Known(n) /\ ReadsBack(n)
                => Known(n)' \/ text'[n] = Absent \/ run' # Idle
       \/ Failure \/ Author]_vars

\* Prune takes out nothing that another entity has on record as well.
\* (planRegistrationPrune: "another entity of this project declares it too")
PruneSparesNeighbours ==
    [][run # Idle /\ run.cmd = "prune" => \A n \in Names :
          text[n] # Absent /\ text'[n] = Absent
             => \/ \A e \in Entities \ {run.entity} : record[e][n] = Absent
                \/ Failure]_vars

\* Once only commands happen, the entities stop rewriting shared entries: the
\* same one is not handed back and forth for ever. (MergeTypeDeclsWith)
Settles == <>[][Command]_vars => <>[][text' = text]_text

\* What is about to be written still spares the author's entries as they are.
RunHolds ==
    run # Idle =>
       /\ \A e \in Entities, n \in Names : run.mem[e][n] \in Texts \cup {Absent}
       /\ \A n \in Names : text[n] \in AuthorTexts \cup {Odd} => run.next[n] = text[n]

\* Why the author's entries are kept. (RecordsAreGenerated: what a record
\* licenses is never a person's text)
Safe == TypeOK /\ RecordsAreGenerated /\ RunHolds

\* What an entry will be when the command has written all its files.
Final(n) == IF SiteOf[n] \in run.todo THEN run.next[n] ELSE text[n]

\* Nothing moves under a command: the records it is about to save are the lock's
\* for every other entity, and for its own they still cover what they covered of
\* what will be there; what prune takes out no other entity has on record.
RunIsCurrent ==
    run # Idle =>
       /\ \A o \in Entities \ {run.entity} : run.mem[o] = record[o]
       /\ \A n \in Names :
             /\ Final(n) \in Texts /\ record[run.entity][n] = Final(n)
             /\ SiteOf[n] \in Catalogs \/ site[SiteOf[n]] # "broken"
             => run.mem[run.entity][n] = Final(n)
       /\ run.cmd = "prune" => \A n \in Names :
             run.next[n] = Absent =>
                \/ text[n] = Absent
                \/ \A o \in Entities \ {run.entity} : record[o][n] = Absent

\* A command writes what it planned, over what it planned from.
Inv == Safe /\ RunIsCurrent
=============================================================================
