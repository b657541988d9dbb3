------------------------ MODULE Registrations_proofs ------------------------
(***************************************************************************)
(* Proofs about module Registrations, for every set of entities, entries,  *)
(* files and texts. What keeps the author's entries is that a record never *)
(* holds a person's text: RecordsAreGenerated, for the lock and for what a *)
(* command is about to save, is what makes the comparison with the record  *)
(* a licence to replace. What prune may take for the generator's own, and  *)
(* whose, rests on nothing moving under a command: RunIsCurrent.           *)
(***************************************************************************)
EXTENDS Registrations, TLAPS

Authored(n) == text[n] \in AuthorTexts \cup {Odd}

\* A spec wants one of the generator's texts, or nothing.
LEMMA WantsLemma ==
    ASSUME TypeOK, NEW e \in Entities, NEW n \in Names
    PROVE  Wants(e, n) \in Texts \cup {Absent}
BY DeclaresAssumption DEF Wants, TypeOK

\* The merge neither adds over nor moves an authored entry.
LEMMA MergeLemma ==
    ASSUME TypeOK, RecordsAreGenerated, NEW e \in Entities
    PROVE  /\ Merged(e) \in [Names -> Written]
           /\ \A n \in Names : Authored(n) => Merged(e)[n] = text[n]
<1>1. Merged(e) \in [Names -> Written]
  BY WantsLemma DEF Merged, TypeOK, Written
<1>2. ASSUME NEW n \in Names, Authored(n)
      PROVE  Merged(e)[n] = text[n]
  <2>1. ~Adds(e, n)
    BY <1>2, EntriesAssumption DEF Adds, Authored
  <2>2. ~Moves(e, n)
    BY <1>2, EntriesAssumption DEF Moves, Considers, Authored, RecordsAreGenerated
  <2> QED
    BY <2>1, <2>2 DEF Merged
<1> QED
  BY <1>1, <1>2

\* Prune takes no authored entry out.
LEMMA PruneLemma ==
    ASSUME TypeOK, RecordsAreGenerated, NEW e \in Entities, NEW n \in Names,
           PruneKind(e, n) = "delete"
    PROVE  ~Authored(n)
<1>1. ReadsBack(n) /\ text[n] = record[e][n]
  BY DEF PruneKind
<1>2. text[n] \in Texts \cup {Absent}
  BY <1>1 DEF RecordsAreGenerated
<1> QED
  BY <1>2, EntriesAssumption DEF Authored

\* Replacing an entity's records by generated texts leaves only those.
LEMMA RecordsLemma ==
    ASSUME TypeOK, RecordsAreGenerated, NEW e \in Entities,
           NEW m \in [Names -> Texts \cup {Absent}]
    PROVE  /\ [record EXCEPT ![e] = m] \in Records
           /\ \A o \in Entities, n \in Names :
                 [record EXCEPT ![e] = m][o][n] \in Texts \cup {Absent}
BY EntriesAssumption DEF TypeOK, Records, Written, RecordsAreGenerated

-----------------------------------------------------------------------------
LEMMA SafeInit == Init => Safe
<1>1. NoRecords \in Records /\ \A e \in Entities, n \in Names : NoRecords[e][n] = Absent
  BY EntriesAssumption DEF NoRecords, Records, Written
<1> QED
  BY <1>1 DEF Init, Safe, TypeOK, RecordsAreGenerated, RunHolds, Written

LEMMA StartGenerateLemma ==
    ASSUME Safe, NEW e \in Entities, StartGenerate(e)
    PROVE  Safe' /\ run' # Idle
<1> USE DEF Safe
<1> DEFINE mine == [n \in Names |-> IF WrittenBy(e, n) THEN Wants(e, n) ELSE record[e][n]]
           mem == [record EXCEPT ![e] = mine]
<1>1. mine \in [Names -> Texts \cup {Absent}]
  BY WantsLemma DEF RecordsAreGenerated
<1>2. /\ mem \in Records
      /\ \A o \in Entities, n \in Names : mem[o][n] \in Texts \cup {Absent}
  <2> HIDE DEF mine
  <2> QED BY <1>1, RecordsLemma
<1>3. PICK drifted \in SUBSET Names :
         run' = [cmd |-> "generate", entity |-> e, todo |-> Changed(e),
                 next |-> Merged(e), drifted |-> drifted, mem |-> mem]
  <2>1. [record EXCEPT ![e] = [n \in Names |-> IF WrittenBy(e, n) THEN Wants(e, n)
                                                                  ELSE @[n]]] = mem
    BY DEF TypeOK, Records
  <2> HIDE DEF mem
  <2> QED BY <2>1 DEF StartGenerate
<1> HIDE DEF mem
<1>4. UNCHANGED <<text, site, record, spec>>
  BY DEF StartGenerate
<1>5. Changed(e) \in SUBSET Sites
  BY DEF Changed
<1>6. /\ run' \in Run /\ run'.mem = mem /\ run'.next = Merged(e)
  BY <1>2, <1>3, <1>5, MergeLemma DEF Run
<1>7. TypeOK'
  BY <1>4, <1>6 DEF TypeOK
<1>8. RunHolds'
  BY <1>2, <1>4, <1>6, MergeLemma DEF RunHolds, Authored
<1> QED
  BY <1>4, <1>6, <1>7, <1>8, IdleAssumption DEF RecordsAreGenerated

LEMMA StartPruneLemma ==
    ASSUME Safe, NEW e \in Entities, StartPrune(e)
    PROVE  Safe' /\ run' # Idle
<1> USE DEF Safe
<1> DEFINE doomed == {n \in Leftovers(e) : PruneKind(e, n) # "keep"}
           removed == {n \in doomed : PruneKind(e, n) = "delete"}
           kept == [n \in Names |-> IF n \in doomed THEN Absent ELSE record[e][n]]
           mem == [record EXCEPT ![e] = kept]
           next == [n \in Names |-> IF n \in removed THEN Absent ELSE text[n]]
<1>1. kept \in [Names -> Texts \cup {Absent}]
  BY DEF RecordsAreGenerated
<1>2. /\ mem \in Records
      /\ \A o \in Entities, n \in Names : mem[o][n] \in Texts \cup {Absent}
  <2> HIDE DEF kept
  <2> QED BY <1>1, RecordsLemma
<1>3. /\ next \in [Names -> Written]
      /\ \A n \in Names : Authored(n) => next[n] = text[n]
  <2>1. \A n \in Names : Authored(n) => n \notin removed
    BY PruneLemma
  <2>2. Absent \in Written
    BY DEF Written
  <2> HIDE DEF removed
  <2> QED BY <2>1, <2>2 DEF TypeOK
<1>4. {SiteOf[n] : n \in removed} \in SUBSET Sites
  BY SitesAssumption DEF Leftovers
<1>5. [record EXCEPT ![e] = [n \in Names |-> IF n \in doomed THEN Absent ELSE @[n]]] = mem
  BY DEF TypeOK, Records
<1>6. /\ run' = [cmd |-> "prune", entity |-> e, todo |-> {SiteOf[n] : n \in removed},
                 next |-> next, mem |-> mem, drifted |-> {}]
      /\ UNCHANGED <<text, site, record, spec>>
  <2> HIDE DEF mem
  <2> QED BY <1>5 DEF StartPrune
<1> HIDE DEF mem, next, removed
<1>7. run' \in Run /\ run'.mem = mem /\ run'.next = next
  BY <1>2, <1>3, <1>4, <1>6 DEF Run
<1>8. TypeOK'
  BY <1>6, <1>7 DEF TypeOK
<1>9. RunHolds'
  BY <1>2, <1>3, <1>6, <1>7 DEF RunHolds, Authored
<1> QED
  BY <1>6, <1>7, <1>8, <1>9, IdleAssumption DEF RecordsAreGenerated

\* A file written as planned still holds every authored entry it held.
LEMMA WriteSiteLemma ==
    ASSUME Safe, NEW s \in Sites, WriteSite(s)
    PROVE  /\ Safe' /\ run' # Idle
           /\ \A n \in Names : Authored(n) => text'[n] = text[n]
<1> USE DEF Safe
<1>1. /\ run \in Run /\ run # Idle
      /\ run' = [run EXCEPT !.todo = @ \ {s}]
      /\ text' = [n \in Names |-> IF SiteOf[n] = s THEN run.next[n] ELSE text[n]]
      /\ site' = [site EXCEPT ![s] = IF @ = "gone" THEN "parses" ELSE @]
      /\ UNCHANGED <<record, spec>>
  BY DEF WriteSite, TypeOK
<1>2. run' \in Run /\ run'.mem = run.mem /\ run'.next = run.next
  BY <1>1 DEF Run
<1>3. \A n \in Names : Authored(n) => text'[n] = text[n]
  BY <1>1 DEF RunHolds, Authored
<1>4. TypeOK'
  BY <1>1, <1>2 DEF TypeOK, Run
<1>5. RunHolds'
  <2>1. \A n \in Names : text'[n] \in AuthorTexts \cup {Odd} => run.next[n] = text'[n]
    BY <1>1 DEF RunHolds
  <2> QED BY <1>1, <1>2, <2>1 DEF RunHolds
<1> QED
  BY <1>1, <1>2, <1>3, <1>4, <1>5, IdleAssumption DEF RecordsAreGenerated

LEMMA CrashWritingLemma ==
    ASSUME Safe, NEW s \in Sites, CrashWriting(s)
    PROVE  Safe'
<1> USE DEF Safe
<1>1. run \in Run /\ run' = Idle /\ record' = record /\ spec' = spec
  BY DEF CrashWriting, TypeOK
<1>2. text' \in [Names -> Written]
  <2> PICK lost \in SUBSET {n \in Names : SiteOf[n] = s} :
         text' = [n \in Names |-> IF n \in lost THEN Absent
                                  ELSE IF SiteOf[n] = s THEN run.next[n] ELSE text[n]]
    BY DEF CrashWriting
  <2>1. Absent \in Written /\ run.next \in [Names -> Written]
    BY <1>1 DEF Written, Run
  <2> QED BY <2>1 DEF TypeOK
<1>3. /\ site' \in [Sites -> {"gone", "parses", "broken", "open"}]
      /\ \A o \in Sites \ Catalogs : site'[o] # "open"
  BY DEF CrashWriting, TypeOK, Unfinished
<1> QED
  BY <1>1, <1>2, <1>3 DEF TypeOK, RecordsAreGenerated, RunHolds

\* What the author does leaves no command in progress and no record behind.
LEMMA AuthorLemma ==
    ASSUME Safe, Author
    PROVE  Safe'
<1> USE DEF Safe
<1>1. ASSUME NEW e \in Entities, NEW s \in Shapes, EditSpec(e, s)
      PROVE  Safe'
  BY <1>1 DEF EditSpec, TypeOK, RecordsAreGenerated, RunHolds
<1>2. ASSUME NEW n \in Names, NEW t \in Written, EditEntry(n, t)
      PROVE  Safe'
  BY <1>2 DEF EditEntry, TypeOK, RecordsAreGenerated, RunHolds
<1>3. ASSUME NEW s \in Sites, EditSite(s)
      PROVE  Safe'
  BY <1>3 DEF EditSite, Unfinished, TypeOK, RecordsAreGenerated, RunHolds
<1>4. ASSUME NEW s \in Sites, DeleteSite(s)
      PROVE  Safe'
  <2>1. text' \in [Names -> Written]
    BY <1>4 DEF DeleteSite, TypeOK, Written
  <2> QED BY <1>4, <2>1 DEF DeleteSite, TypeOK, RecordsAreGenerated, RunHolds
<1>5. ASSUME DeleteLock
      PROVE  Safe'
  <2>1. NoRecords \in Records /\ \A e \in Entities, n \in Names : NoRecords[e][n] = Absent
    BY EntriesAssumption DEF NoRecords, Records, Written
  <2> QED BY <1>5, <2>1 DEF DeleteLock, TypeOK, RecordsAreGenerated, RunHolds
<1> QED
  BY <1>1, <1>2, <1>3, <1>4, <1>5 DEF Author

LEMMA StepLemma ==
    ASSUME Safe, [Next]_vars
    PROVE  /\ Safe'
           /\ \/ Author \/ \E s \in Sites : CrashWriting(s)
              \/ \A n \in Names : Authored(n) => text'[n] = text[n]
<1> USE DEF Safe
<1>1. ASSUME NEW e \in Entities, StartGenerate(e)
      PROVE  Safe' /\ text' = text
  BY <1>1, StartGenerateLemma DEF StartGenerate
<1>2. ASSUME NEW e \in Entities, StartPrune(e)
      PROVE  Safe' /\ text' = text
  BY <1>2, StartPruneLemma DEF StartPrune
<1>3. ASSUME NEW s \in Sites, WriteSite(s)
      PROVE  Safe' /\ \A n \in Names : Authored(n) => text'[n] = text[n]
  BY <1>3, WriteSiteLemma
<1>4. ASSUME SaveLock
      PROVE  Safe' /\ text' = text
  BY <1>4 DEF SaveLock, TypeOK, RecordsAreGenerated, RunHolds, Run
<1>5. ASSUME Crash
      PROVE  Safe' /\ text' = text
  BY <1>5 DEF Crash, TypeOK, RecordsAreGenerated, RunHolds
<1>6. ASSUME NEW s \in Sites, CrashWriting(s)
      PROVE  Safe'
  BY <1>6, CrashWritingLemma
<1>7. ASSUME UNCHANGED vars
      PROVE  Safe' /\ text' = text
  BY <1>7 DEF vars, TypeOK, RecordsAreGenerated, RunHolds
<1> QED
  BY <1>1, <1>2, <1>3, <1>4, <1>5, <1>6, <1>7, AuthorLemma
  DEF Next, Command, Generate, Prune, Failure

-----------------------------------------------------------------------------
\* Types, what a record may hold and what a command in progress may write.
LEMMA Safety == Spec => []Safe
<1>1. Safe /\ [Next]_vars => Safe'
  BY StepLemma
<1> QED
  BY <1>1, SafeInit, PTL DEF Spec

\* A command neither moves nor removes an entry somebody rewrote, except by
\* dying in the middle of a write. (MergeTypeDeclsWith, MergeMapEntries,
\* planRegistrationPrune)
THEOREM AuthorsEntriesAreKept == Spec => AuthorsEntriesKept
<1>1. Safe /\ [Next]_vars =>
         [\/ \A n \in Names : text[n] \in AuthorTexts \cup {Odd} => text'[n] = text[n]
          \/ Author \/ \E s \in Sites : CrashWriting(s)]_vars
  BY StepLemma DEF Authored
<1> QED
  BY <1>1, Safety, PTL DEF Spec, AuthorsEntriesKept

-----------------------------------------------------------------------------
(* Nothing moves under a command.                                          *)

\* A generation's records cover what will be there, if the entity's did.
LEMMA StartGenerateCurrent ==
    ASSUME Safe, NEW e \in Entities, StartGenerate(e)
    PROVE  RunIsCurrent'
<1> DEFINE mine == [n \in Names |-> IF WrittenBy(e, n) THEN Wants(e, n) ELSE record[e][n]]
           mem == [record EXCEPT ![e] = mine]
<1>1. PICK drifted \in SUBSET Names :
         run' = [cmd |-> "generate", entity |-> e, todo |-> Changed(e),
                 next |-> Merged(e), drifted |-> drifted, mem |-> mem]
  <2>1. [record EXCEPT ![e] = [n \in Names |-> IF WrittenBy(e, n) THEN Wants(e, n)
                                                                  ELSE @[n]]] = mem
    BY DEF Safe, TypeOK, Records
  <2> HIDE DEF mem
  <2> QED BY <2>1 DEF StartGenerate
<1>2. /\ \A o \in Entities \ {e} : mem[o] = record[o]
      /\ \A n \in Names : mem[e][n] = IF WrittenBy(e, n) THEN Wants(e, n) ELSE record[e][n]
  <2> HIDE DEF mine
  <2>1. mem[e] = mine /\ \A o \in Entities \ {e} : mem[o] = record[o]
    BY DEF Safe, TypeOK, Records
  <2> QED BY <2>1 DEF mine
<1> HIDE DEF mem
<1>3. UNCHANGED <<text, site, record, spec>>
  BY DEF StartGenerate
<1>4. /\ run'.cmd = "generate" /\ run'.entity = e /\ run'.mem = mem
      /\ run'.next = Merged(e) /\ run'.todo = Changed(e)
  BY <1>1
<1>5. \A n \in Names : Final(n)' = Merged(e)[n]
  <2>1. ASSUME NEW n \in Names, SiteOf[n] \notin Changed(e)
        PROVE  Merged(e)[n] = text[n]
    BY <2>1, SitesAssumption DEF Changed
  <2> QED
    BY <1>3, <1>4, <2>1 DEF Final
<1>6. \A n \in Names : record[e][n] = Merged(e)[n] => mem[e][n] = Merged(e)[n]
  <2>1. SUFFICES ASSUME NEW n \in Names, record[e][n] = Merged(e)[n]
                 PROVE  mem[e][n] = Merged(e)[n]
    OBVIOUS
  <2>2. CASE Adds(e, n) \/ Moves(e, n)
    BY <1>2, <2>2 DEF Merged, WrittenBy
  <2>3. CASE ~Adds(e, n) /\ ~Moves(e, n)
    BY <1>2, <2>1, <2>3 DEF Merged, WrittenBy, Confirms
  <2> QED
    BY <2>2, <2>3
<1> QED
  BY <1>2, <1>3, <1>4, <1>5, <1>6 DEF RunIsCurrent

\* Prune drops the record of what will not be there, or cannot be read.
LEMMA StartPruneCurrent ==
    ASSUME Safe, NEW e \in Entities, StartPrune(e)
    PROVE  RunIsCurrent'
<1> DEFINE doomed == {n \in Leftovers(e) : PruneKind(e, n) # "keep"}
           removed == {n \in doomed : PruneKind(e, n) = "delete"}
           kept == [n \in Names |-> IF n \in doomed THEN Absent ELSE record[e][n]]
           mem == [record EXCEPT ![e] = kept]
           next == [n \in Names |-> IF n \in removed THEN Absent ELSE text[n]]
           todo == {SiteOf[n] : n \in removed}
<1>1. [record EXCEPT ![e] = [n \in Names |-> IF n \in doomed THEN Absent ELSE @[n]]] = mem
  BY DEF Safe, TypeOK, Records
<1>2. /\ run' = [cmd |-> "prune", entity |-> e, todo |-> todo,
                 next |-> next, mem |-> mem, drifted |-> {}]
      /\ UNCHANGED <<text, site, record, spec>>
  <2> HIDE DEF mem
  <2> QED BY <1>1 DEF StartPrune
<1>3. /\ \A o \in Entities \ {e} : mem[o] = record[o]
      /\ \A n \in Names : mem[e][n] = IF n \in doomed THEN Absent ELSE record[e][n]
  <2> HIDE DEF kept
  <2>1. mem[e] = kept /\ \A o \in Entities \ {e} : mem[o] = record[o]
    BY DEF Safe, TypeOK, Records
  <2> HIDE DEF doomed
  <2> QED BY <2>1 DEF kept
<1>4. \A n \in Names : /\ n \in removed => SiteOf[n] \in todo /\ next[n] = Absent
                       /\ n \notin removed => next[n] = text[n]
  <2> HIDE DEF removed
  <2> QED OBVIOUS
<1>5. \A n \in doomed \ removed :
         \/ text[n] = Absent \/ text[n] = Odd
         \/ SiteOf[n] \notin Catalogs /\ site[SiteOf[n]] = "broken"
  <2>1. SUFFICES ASSUME NEW n \in doomed \ removed,
                        text[n] # Absent, text[n] # Odd
                 PROVE  SiteOf[n] \notin Catalogs /\ site[SiteOf[n]] = "broken"
    OBVIOUS
  <2>2. n \in Names /\ ~ReadsBack(n) /\ site[SiteOf[n]] # "gone"
    BY <2>1 DEF PruneKind, Leftovers
  <2>3. SiteOf[n] \notin Catalogs /\ site[SiteOf[n]] # "parses"
    BY <2>1, <2>2 DEF ReadsBack
  <2> QED
    BY <2>2, <2>3, SitesAssumption DEF Safe, TypeOK
<1>6. \A n \in removed : \A o \in Entities \ {e} : record[o][n] = Absent
  BY DEF PruneKind
<1>7. /\ run'.cmd = "prune" /\ run'.entity = e /\ run'.mem = mem
      /\ run'.next = next /\ run'.todo = todo
  <2> HIDE DEF mem, next, todo
  <2> QED BY <1>2
<1>8. doomed \subseteq Names /\ removed \subseteq doomed
  BY DEF Leftovers
<1> HIDE DEF mem, next, todo, doomed, removed
<1>9. \A n \in Names : Final(n)' = IF n \in removed THEN Absent ELSE text[n]
  BY <1>2, <1>4, <1>7 DEF Final
<1>10. Absent \notin Texts /\ Odd \notin Texts
  BY EntriesAssumption
<1>11. ASSUME NEW n \in Names, Final(n)' \in Texts, record[e][n] = Final(n)',
              SiteOf[n] \in Catalogs \/ site[SiteOf[n]] # "broken"
       PROVE  mem[e][n] = Final(n)'
  <2>1. n \notin removed /\ Final(n)' = text[n]
    BY <1>9, <1>10, <1>11
  <2>2. n \notin doomed
    BY <1>5, <1>10, <1>11, <2>1
  <2> QED
    BY <1>3, <1>11, <2>1, <2>2
<1>12. ASSUME NEW n \in Names, next[n] = Absent
       PROVE  text[n] = Absent \/ \A o \in Entities \ {e} : record[o][n] = Absent
  BY <1>4, <1>6, <1>12
<1> QED
  BY <1>2, <1>3, <1>7, <1>11, <1>12 DEF RunIsCurrent

\* Writing a file brings it where it was going.
LEMMA WriteSiteCurrent ==
    ASSUME Safe, RunIsCurrent, NEW s \in Sites, WriteSite(s)
    PROVE  RunIsCurrent'
<1>1. /\ run \in Run /\ run # Idle
      /\ run' = [run EXCEPT !.todo = @ \ {s}]
      /\ text' = [n \in Names |-> IF SiteOf[n] = s THEN run.next[n] ELSE text[n]]
      /\ site' = [site EXCEPT ![s] = IF @ = "gone" THEN "parses" ELSE @]
      /\ s \in run.todo
      /\ UNCHANGED <<record, spec>>
  BY DEF WriteSite, Safe, TypeOK
<1>2. /\ run'.mem = run.mem /\ run'.next = run.next /\ run'.entity = run.entity
      /\ run'.cmd = run.cmd /\ run'.todo = run.todo \ {s}
  BY <1>1 DEF Run
<1>3. \A n \in Names : Final(n)' = Final(n)
  BY <1>1, <1>2 DEF Final
<1>4. \A n \in Names : site'[SiteOf[n]] # "broken" => site[SiteOf[n]] # "broken"
  BY <1>1, SitesAssumption DEF Safe, TypeOK
<1>5. \A n \in Names : text'[n] = text[n] \/ text'[n] = run.next[n]
  BY <1>1
<1> QED
  BY <1>1, <1>2, <1>3, <1>4, <1>5 DEF RunIsCurrent

LEMMA CurrentStep ==
    ASSUME Safe, RunIsCurrent, [Next]_vars
    PROVE  RunIsCurrent'
<1>1. CASE UNCHANGED vars
  BY <1>1 DEF vars, RunIsCurrent, Final
<1>2. CASE Generate \/ Prune
  BY <1>2, StartGenerateCurrent, StartPruneCurrent DEF Generate, Prune
<1>3. CASE \E s \in Sites : WriteSite(s)
  BY <1>3, WriteSiteCurrent
<1>4. CASE SaveLock \/ Failure \/ Author
  <2>1. run' = Idle
    BY <1>4 DEF SaveLock, Failure, Crash, CrashWriting, Author, EditSpec, EditEntry,
       EditSite, DeleteSite, DeleteLock
  <2> QED
    BY <2>1 DEF RunIsCurrent
<1> QED
  BY <1>1, <1>2, <1>3, <1>4 DEF Next, Command

\* The invariant holds for every project. (LockEntity.Registrations)
THEOREM Invariance == Spec => []Inv
<1>1. Init => RunIsCurrent
  BY DEF Init, RunIsCurrent
<1>2. Safe /\ RunIsCurrent /\ [Next]_vars => RunIsCurrent'
  BY CurrentStep
<1>3. Inv <=> Safe /\ RunIsCurrent
  BY DEF Inv
<1> QED
  BY <1>1, <1>2, <1>3, Safety, PTL DEF Spec

\* Only the end of a command leaves none in progress.
LEMMA EndsLemma ==
    ASSUME Safe, Command, run' = Idle
    PROVE  SaveLock
BY StartGenerateLemma, StartPruneLemma, WriteSiteLemma DEF Command, Generate, Prune

\* A command that does not die leaves no entry of the generator's behind that no
\* record knows, where it can be read back. (ApplyWith, ForgetRegistration)
THEOREM KnownStaysKnown == Spec => NothingGoesUnknown
<1>1. ASSUME Inv, [Next]_vars
      PROVE  [\/ \A n \in Names :
                    text[n] \in Texts /\ Known(n) /\ ReadsBack(n)
                       => Known(n)' \/ text'[n] = Absent \/ run' # Idle
              \/ Failure \/ Author]_vars
  <2>1. SUFFICES ASSUME Command, NEW n \in Names, text[n] \in Texts, Known(n),
                        ReadsBack(n), run' = Idle
                 PROVE  Known(n)'
    BY <1>1 DEF Next
  <2>2. /\ run # Idle /\ run.todo = {} /\ text' = text /\ record' = run.mem
    BY <1>1, <2>1, EndsLemma DEF Inv, SaveLock
  <2>3. Final(n) = text[n]
    BY <2>2 DEF Final
  <2>4. run.entity \in Entities
    BY <1>1, <2>2 DEF Inv, Safe, TypeOK, Run
  <2>5. \A e \in Entities : record[e][n] = text[n] => run.mem[e][n] = text[n]
    BY <1>1, <2>1, <2>2, <2>3 DEF Inv, RunIsCurrent, ReadsBack
  <2> QED
    BY <2>1, <2>2, <2>5 DEF Known
<1> QED
  BY <1>1, Invariance, PTL DEF Spec, NothingGoesUnknown

\* Prune takes out nothing that another entity has on record as well.
\* (planRegistrationPrune)
THEOREM NeighboursAreSpared == Spec => PruneSparesNeighbours
<1>1. ASSUME Inv, [Next]_vars
      PROVE  [run # Idle /\ run.cmd = "prune" => \A n \in Names :
                 text[n] # Absent /\ text'[n] = Absent
                    => \/ \A e \in Entities \ {run.entity} : record[e][n] = Absent
                       \/ Failure]_vars
  <2>1. SUFFICES ASSUME Command \/ Author, run # Idle, run.cmd = "prune", NEW n \in Names,
                        text[n] # Absent, text'[n] = Absent
                 PROVE  \A e \in Entities \ {run.entity} : record[e][n] = Absent
    BY <1>1 DEF Next
  <2>2. \E s \in Sites : WriteSite(s)
    BY <2>1 DEF Command, Author, Generate, Prune, StartGenerate, StartPrune, SaveLock,
       EditSpec, EditEntry, EditSite, DeleteSite, DeleteLock
  <2>3. run.next[n] = Absent
    BY <2>1, <2>2 DEF WriteSite
  <2> QED
    BY <1>1, <2>1, <2>3 DEF Inv, RunIsCurrent
<1> QED
  BY <1>1, Invariance, PTL DEF Spec, PruneSparesNeighbours
=============================================================================
