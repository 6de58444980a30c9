------------------------ MODULE SourceRecordsProofs ------------------------
(***************************************************************************)
(* Proofs about the messages of references and the calls they make, for    *)
(* all messages, any number of workers, and any number of failures.        *)
(***************************************************************************)
EXTENDS SourceRecords, SequenceTheorems, FiniteSetTheorems, TLAPS

---------------------------------------------------------------------------
(* The inductive invariants: the calls. *)

Label == UNION {s.pref \cup s.alt : s \in Subject}
Copies == [pref : SUBSET Label, alt : SUBSET Label]
NoSubject == [concept |-> "", pref |-> {}, alt |-> {}]
ConceptPlace == {"none", "finding", "creating", "reading", "writing", "returned", "failed"}
ConceptCalls == [at : ConceptPlace, subject : Subject \cup {NoSubject},
                 found : SUBSET Label, copy : Copies, read : Copies]

(***************************************************************************)
(* A call that found its concept does not lose it: concepts stay.          *)
(***************************************************************************)
ConceptInv ==
    /\ concepts \subseteq Concept
    /\ prefLabels \in [Concept -> SUBSET Label] /\ altLabels \in [Concept -> SUBSET Label]
    /\ DOMAIN languages = Concept
    /\ \A c \in Concept \ concepts : prefLabels[c] = {} /\ altLabels[c] = {}
    /\ conceptCall \in [Worker -> ConceptCalls]
    /\ \A w \in Worker :
        /\ conceptCall[w].at # "none" => conceptCall[w].subject \in Subject
        /\ conceptCall[w].at \in {"reading", "writing", "returned"} => C!Called(w) \in concepts

JournalPlace == {"none", "finding", "storing", "linking", "checking", "recording", "returned",
                 "failed", "timed_out"}
JournalCalls == [at : JournalPlace, journal : SourceJournal \cup {""}, issns : SUBSET Issn,
                 exists : BOOLEAN, left : SUBSET Issn, checking : SUBSET DOMAIN Portal,
                 stamped : SUBSET Issn]
JournalInv ==
    /\ J!TypeOK
    /\ journalCall \in [Worker -> JournalCalls]
    /\ \A w \in Worker :
        /\ journalCall[w].at # "none" => journalCall[w].journal \in SourceJournal
        /\ journalCall[w].at \in {"linking", "checking", "recording", "returned"} =>
              journalCall[w].journal \in sourceJournals

---------------------------------------------------------------------------
(* The inductive invariants: records. *)

Jobs == [message : Message \cup {NoMessage}, mode : {"", "created", "updated", "unchanged"},
         first : BOOLEAN, subjects : SUBSET Concept, journals : SUBSET SourceJournal,
         left : Seq(Subject) \cup Seq(Contribution), flawed : BOOLEAN]
Filled == {"clearing", "contributing"}

(***************************************************************************)
(* Past the check of its owner, a message has one; a record that is filled *)
(* exists, and so does what was registered for it.                         *)
(***************************************************************************)
Sane(place, j) ==
    /\ place # "idle" =>
          /\ j.message \in Message /\ j.mode # ""
          /\ j.mode = "unchanged" <=> j.message.event = "unchanged"
    /\ place \notin {"idle", "looking"} => j.mode # "unchanged"
    /\ place = "subjects" => j.left \in Seq(Subject)
    /\ place = "journal" => j.message.journals # {}
    /\ place = "contributing" => j.left \in Seq(Contribution)
Backed(place, j) ==
    /\ place \notin {"idle", "looking", "checking"} => j.message.owner \in people
    /\ place \in Filled => j.message.record \in records
    /\ j.subjects \subseteq concepts /\ j.journals \subseteq sourceJournals

JobsInv ==
    /\ pc \in [Worker -> PC] /\ job \in [Worker -> Jobs]
    /\ \A w \in Worker : Sane(pc[w], job[w]) /\ Backed(pc[w], job[w])
RecordInv ==
    /\ people \subseteq Person /\ records \subseteq SourceRecord
    /\ sourcePeople \subseteq SourcePerson /\ sourceOrganizations \subseteq SourceOrganization
    /\ harvestedFor \in [SourceRecord -> SUBSET people]
    /\ subjects \in [SourceRecord -> SUBSET concepts]
    /\ publishedIn \in [SourceRecord -> SUBSET Issue]
    /\ issuedBy \in [Issue -> SUBSET sourceJournals]
    /\ contributions \in [SourceRecord -> Seq(Contribution)]
    /\ \A r \in SourceRecord : Contributors([contributions |-> contributions[r]]) \subseteq sourcePeople
CountInv ==
    /\ messages \in 0 .. MaxMessages /\ errors \in 0 .. MaxErrors
    /\ requeued \subseteq Message /\ dropped \subseteq Message
    /\ unanswered \subseteq dropped
    /\ latest \in [SourceRecord -> Message \cup {NoMessage}]
    /\ disturbed \subseteq records /\ unannounced \subseteq records /\ silenced \subseteq unannounced
TypeInv == ConceptInv /\ JournalInv /\ JobsInv /\ RecordInv /\ CountInv

(***************************************************************************)
(* The copy that a call is to write is what it found, with the labels of   *)
(* its subject in place of those of their languages.                       *)
(***************************************************************************)
Completed(call) ==
    call.copy.pref = {l \in call.found : l[1] \notin C!LanguagesOf(call.subject.pref)}
                        \cup call.subject.pref
Copied(w) == conceptCall[w].at \in {"reading", "writing"} => Completed(conceptCall[w])
LabelInv == TypeInv /\ OneLabelPerLanguage /\ \A w \in Worker : Copied(w)

(***************************************************************************)
(* The portal answers the same of all the ISSNs of a journal.              *)
(***************************************************************************)
WholeGroups ==
    \A i, k \in DOMAIN Portal : Portal[i].journal = Portal[k].journal => Portal[i].issns = Portal[k].issns

(***************************************************************************)
(* A journal has the ISSNs the portal gives it.                            *)
(***************************************************************************)
FromPortal(j) == \E i \in DOMAIN Portal : Portal[i].journal = j /\ issns[j] = Portal[i].issns
CheckedInv == TypeInv /\ CheckedHaveAJournal /\ \A j \in journals : FromPortal(j)

(***************************************************************************)
(* An update that was a creation, or that looked for its record, found it. *)
(***************************************************************************)
Found(w) ==
    (pc[w] # "idle" /\ job[w].mode = "updated" /\ (pc[w] # "looking" \/ ~ job[w].first))
    => About(w) \in records
DroppedInv == TypeInv /\ DroppedHaveARecord /\ \A w \in Worker : Found(w)

(***************************************************************************)
(* Some worker is to tell of a record that changed, or some message about  *)
(* it is to be delivered again; neither will be given up in silence.       *)
(***************************************************************************)
Telling(w, r) ==
    /\ pc[w] # "idle" /\ About(w) = r /\ job[w].message.owner \in people
    /\ \/ pc[w] \in Filled \/ job[w].mode = "updated"
       \/ pc[w] = "looking" /\ job[w].mode = "created" /\ job[w].first
Comes(r) == \E m \in requeued : m.record = r /\ m.event # "unchanged" /\ m.owner \in people
ToldInv ==
    /\ TypeInv
    /\ \A r \in unannounced \ silenced : Comes(r) \/ \E w \in Worker : Telling(w, r)

(***************************************************************************)
(* Until it stores its record, a worker without flaw has found all that    *)
(* its message refers to, but for the subjects that are left.              *)
(***************************************************************************)
ConceptsOf(s) == {x.concept : x \in Range(s)}
Present(cs) == \A c \in Range(cs) : /\ c.contributor \in sourcePeople
                                    /\ c.affiliations \subseteq sourceOrganizations
Gathered(w) ==
    LET m == job[w].message IN
    /\ pc[w] \in {"looking", "checking"} => job[w].subjects = {}
    /\ pc[w] \in {"looking", "checking", "subjects"} => job[w].journals = {}
    /\ conceptCall[w].at # "none" =>
          pc[w] = "subjects" /\ job[w].left # <<>> /\ conceptCall[w].subject = Head(job[w].left)
    /\ journalCall[w].at # "none" => pc[w] = "journal" /\ m.journals = {journalCall[w].journal}
    /\ pc[w] \in {"subjects", "journal", "storing"} /\ ~ job[w].flawed =>
        /\ Present(m.contributions)
        /\ ConceptsOf(m.subjects) =
              job[w].subjects \cup (IF pc[w] = "subjects" THEN ConceptsOf(job[w].left) ELSE {})
        /\ pc[w] = "storing" => m.journals = job[w].journals

(***************************************************************************)
(* A record that nothing disturbed is filled by one worker at most, from   *)
(* the message it was last stored from, and has the contributions that are *)
(* not left to this worker.                                                *)
(***************************************************************************)
Follows(r) ==
    /\ subjects[r] = ConceptsOf(latest[r].subjects)
    /\ publishedIn[r] = {latest[r].issue}
    /\ latest[r].journals \subseteq issuedBy[latest[r].issue]
    /\ latest[r].owner \in harvestedFor[r]
    /\ latest[r] \in Message
    /\ \A v, w \in Filling(r) : v = w
    /\ \A w \in Filling(r) :
        /\ job[w].message = latest[r]
        /\ pc[w] = "clearing" => Present(latest[r].contributions)
        /\ pc[w] = "contributing" =>
              /\ Present(job[w].left)
              /\ contributions[r] \o job[w].left = latest[r].contributions
    /\ Filling(r) = {} => contributions[r] = latest[r].contributions
FollowsInv ==
    /\ TypeInv
    /\ \A w \in Worker : Gathered(w)
    /\ \A r \in records \ disturbed : Follows(r)

---------------------------------------------------------------------------
(* Types: the calls. *)

(***************************************************************************)
(* A subject has labels and a concept; so has one a message refers to.     *)
(***************************************************************************)
LEMMA SubjectsTyped ==
    \A s \in Subject : s.concept \in Concept /\ s.pref \subseteq Label /\ s.alt \subseteq Label
<1>1. \A s \in Subject : s.concept \in Concept
  BY CallsAssumption DEF C!ConceptsAssumption
<1>2. \A s \in Subject : s.pref \subseteq Label /\ s.alt \subseteq Label
  BY DEF Label
<1>3. QED
  BY <1>1, <1>2

\* What the call of w is after a step of it.
Calls(w, place) ==
    /\ conceptCall' \in [Worker -> ConceptCalls]
    /\ \A v \in Worker \ {w} : conceptCall'[v] = conceptCall[v]
    /\ conceptCall'[w].at = place /\ place # "none"
    /\ conceptCall'[w].subject = conceptCall[w].subject

LEMMA ConceptStep ==
    ASSUME ConceptInv, NEW w \in Worker, C!Work(w) \/ C!Fail(w)
    PROVE  ConceptInv' /\ concepts \subseteq concepts'
<1> DEFINE c == C!Called(w)
<1> USE DEF C!Called
<1>1. /\ conceptCall[w] \in ConceptCalls /\ conceptCall[w].at # "none"
      /\ conceptCall[w].subject \in Subject /\ c \in Concept
      /\ conceptCall[w].subject.pref \subseteq Label /\ conceptCall[w].subject.alt \subseteq Label
  BY SubjectsTyped DEF ConceptInv, C!Work, C!Find, C!Create, C!Reread, C!Update, C!Fail
<1>k. ASSUME NEW place, Calls(w, place), concepts \subseteq concepts',
             place \in {"reading", "writing", "returned"} => c \in concepts'
      PROVE  /\ conceptCall' \in [Worker -> ConceptCalls]
             /\ \A v \in Worker :
                  /\ conceptCall'[v].at # "none" => conceptCall'[v].subject \in Subject
                  /\ conceptCall'[v].at \in {"reading", "writing", "returned"} =>
                        conceptCall'[v].subject.concept \in concepts'
  BY <1>1, <1>k DEF Calls, ConceptInv
<1>2. CASE C!Find(w)
  <2>1. /\ UNCHANGED <<concepts, prefLabels, altLabels, languages>>
    BY <1>2 DEF C!Find
  <2>2. CASE c \notin concepts
    <3>1. conceptCall' = [conceptCall EXCEPT ![w] = [@ EXCEPT !.at = "creating"]]
      BY <1>2, <2>2 DEF C!Find
    <3>2. Calls(w, "creating")
      BY <1>1, <3>1 DEF Calls, ConceptInv, ConceptCalls, ConceptPlace
    <3>3. QED
      BY <3>2, <2>1, <1>k DEF ConceptInv
  <2>3. CASE c \in concepts /\ c \notin WithUri
    <3>1. conceptCall' = [conceptCall EXCEPT ![w] = [@ EXCEPT !.at = "returned"]]
      BY <1>2, <2>3 DEF C!Find
    <3>2. Calls(w, "returned")
      BY <1>1, <3>1 DEF Calls, ConceptInv, ConceptCalls, ConceptPlace
    <3>3. QED
      BY <3>2, <2>1, <2>3, <1>k DEF ConceptInv
  <2>4. CASE c \in concepts /\ c \in WithUri
    <3>1. PICK copy \in Copies, found \in SUBSET Label :
            conceptCall' = [conceptCall EXCEPT ![w] =
                [@ EXCEPT !.at = "reading", !.found = found, !.copy = copy]]
      <4>1. C!Merged([pref |-> prefLabels[c], alt |-> altLabels[c]], conceptCall[w].subject) \in Copies
        BY <1>1 DEF C!Merged, Copies, ConceptInv
      <4>2. prefLabels[c] \in SUBSET Label
        BY <1>1 DEF ConceptInv
      <4>3. QED
        BY <1>2, <2>4, <4>1, <4>2 DEF C!Find
    <3>2. Calls(w, "reading")
      BY <1>1, <3>1 DEF Calls, ConceptInv, ConceptCalls, ConceptPlace
    <3>3. QED
      BY <3>2, <2>1, <2>4, <1>k DEF ConceptInv
  <2>5. QED
    BY <2>2, <2>3, <2>4
<1>3. CASE C!Create(w)
  <2>1. CASE c \in concepts
    <3>1. Calls(w, "finding") /\ UNCHANGED <<concepts, prefLabels, altLabels, languages>>
      BY <1>1, <1>3, <2>1 DEF C!Create, Calls, ConceptInv, ConceptCalls, ConceptPlace
    <3>2. QED
      BY <3>1, <1>k DEF ConceptInv
  <2>2. CASE c \notin concepts
    <3>1. Calls(w, "returned")
      BY <1>1, <1>3, <2>2 DEF C!Create, Calls, ConceptInv, ConceptCalls, ConceptPlace
    <3>2. /\ concepts' = concepts \cup {c}
          /\ DOMAIN languages' = Concept
          /\ prefLabels' = [prefLabels EXCEPT ![c] = conceptCall[w].subject.pref]
          /\ altLabels' = [altLabels EXCEPT ![c] = IF conceptCall[w].subject.pref = {} THEN {}
                                                   ELSE conceptCall[w].subject.alt]
      BY <1>3, <2>2 DEF C!Create, ConceptInv
    <3>3. /\ prefLabels' \in [Concept -> SUBSET Label] /\ altLabels' \in [Concept -> SUBSET Label]
          /\ concepts' \subseteq Concept
          /\ \A d \in Concept \ concepts' : prefLabels'[d] = {} /\ altLabels'[d] = {}
      BY <1>1, <3>2 DEF ConceptInv
    <3>4. QED
      BY <3>1, <3>2, <3>3, <1>k DEF ConceptInv
  <2>3. QED
    BY <2>1, <2>2
<1>4. CASE C!Reread(w)
  <2>1. Calls(w, "writing") /\ UNCHANGED <<concepts, prefLabels, altLabels, languages>>
    BY <1>1, <1>4 DEF C!Reread, Calls, ConceptInv, ConceptCalls, ConceptPlace, Copies
  <2>2. c \in concepts
    BY <1>4 DEF ConceptInv, C!Reread
  <2>3. QED
    BY <2>1, <2>2, <1>k DEF ConceptInv
<1>5. CASE C!Update(w)
  <2>1. Calls(w, "returned") /\ UNCHANGED concepts
    BY <1>1, <1>5 DEF C!Update, Calls, ConceptInv, ConceptCalls, ConceptPlace
  <2>2. c \in concepts
    BY <1>5 DEF ConceptInv, C!Update
  <2>3. /\ prefLabels' \in [Concept -> SUBSET Label] /\ altLabels' \in [Concept -> SUBSET Label]
        /\ DOMAIN languages' = Concept
        /\ \A d \in Concept \ {c} : prefLabels'[d] = prefLabels[d] /\ altLabels'[d] = altLabels[d]
    BY <1>1, <1>5 DEF C!Update, ConceptInv, ConceptCalls, Copies
  <2>4. QED
    BY <2>1, <2>2, <2>3, <1>k DEF ConceptInv
<1>6. CASE C!Fail(w)
  <2>1. Calls(w, "failed") /\ UNCHANGED <<concepts, prefLabels, altLabels, languages>>
    BY <1>1, <1>6 DEF C!Fail, Calls, ConceptInv, ConceptCalls, ConceptPlace
  <2>2. QED
    BY <2>1, <1>k DEF ConceptInv
<1>7. QED
  BY <1>2, <1>3, <1>4, <1>5, <1>6 DEF C!Work

\* A call of a worker begins with a subject; it ends, or it is forgotten.
LEMMA ConceptCallKept ==
    ASSUME ConceptInv, NEW w \in Worker, NEW call \in {C!NoCall} \cup {C!Call(s) : s \in Subject},
           conceptCall' = [conceptCall EXCEPT ![w] = call],
           UNCHANGED <<concepts, prefLabels, altLabels, languages>>
    PROVE  ConceptInv'
<1>1. call \in ConceptCalls /\ call.at \in {"none", "finding"}
  <2>1. CASE call = C!NoCall
    BY <2>1 DEF ConceptCalls, ConceptPlace, Copies, NoSubject, C!NoCall, C!NoLabels
  <2>2. ASSUME NEW s \in Subject, call = C!Call(s)
        PROVE  call \in ConceptCalls /\ call.at = "finding"
    BY <2>2 DEF ConceptCalls, ConceptPlace, Copies, NoSubject, C!NoCall, C!Call, C!NoLabels
  <2>3. QED
    BY <2>1, <2>2
<1>2. call.at # "none" => call.subject \in Subject
  <2>1. CASE call = C!NoCall
    BY <2>1 DEF C!NoCall
  <2>2. ASSUME NEW s \in Subject, call = C!Call(s)
        PROVE  call.subject \in Subject
    BY <2>2 DEF C!NoCall, C!Call
  <2>3. QED
    BY <2>1, <2>2
<1>3. /\ conceptCall' \in [Worker -> ConceptCalls] /\ conceptCall'[w] = call
      /\ \A v \in Worker \ {w} : conceptCall'[v] = conceptCall[v]
  BY <1>1 DEF ConceptInv
<1>4. QED
  BY <1>1, <1>2, <1>3 DEF ConceptInv, C!Called

\* What the journal call of w is after a step of it.
Asks(w, place) ==
    /\ journalCall' \in [Worker -> JournalCalls]
    /\ \A v \in Worker \ {w} : journalCall'[v] = journalCall[v]
    /\ journalCall'[w].at = place /\ place # "none"
    /\ journalCall'[w].journal = journalCall[w].journal

LEMMA JournalGoes ==
    ASSUME JournalInv, NEW w \in Worker, NEW place \in JournalPlace \ {"none"}, J!Goes(w, place)
    PROVE  Asks(w, place)
<1>1. journalCall[w] \in JournalCalls
  BY DEF JournalInv
<1>2. [journalCall[w] EXCEPT !.at = place] \in JournalCalls
  BY <1>1 DEF JournalCalls
<1>3. journalCall' = [journalCall EXCEPT ![w] = [journalCall[w] EXCEPT !.at = place]]
  BY DEF J!Goes
<1>4. QED
  BY <1>1, <1>2, <1>3 DEF Asks, JournalInv, JournalCalls

LEMMA JournalStep ==
    ASSUME JournalInv, NEW w \in Worker, J!Work(w) \/ J!Fail(w)
    PROVE  JournalInv' /\ sourceJournals \subseteq sourceJournals'
<1> DEFINE s == journalCall[w].journal
<1>1. /\ journalCall[w] \in JournalCalls /\ journalCall[w].at # "none" /\ s \in SourceJournal
      /\ journalCall[w].at \in {"linking", "checking", "recording", "returned"} =>
              s \in sourceJournals
  BY DEF JournalInv, J!Work, J!Find, J!Store, J!ReadSource, J!CheckWithoutPage, J!TimesOut,
         J!CheckWithoutJournal, J!Check, J!Record, J!Fail
<1>2. \A i \in DOMAIN Portal :
        /\ i \in Issn /\ Portal[i].journal \in Journal
        /\ i \in Portal[i].issns /\ Portal[i].issns \subseteq Issn
  BY CallsAssumption DEF J!JournalsAssumption
<1>3. ASSUME NEW i \in journalCall[w].left \cup journalCall[w].checking, J!Treated(w, i)
      PROVE  Asks(w, "returned") \/ Asks(w, "checking")
  BY <1>1, <1>3 DEF J!Treated, Asks, JournalInv, JournalCalls, JournalPlace
<1>k. ASSUME NEW place, Asks(w, place), sourceJournals \subseteq sourceJournals',
             sourceJournals' \subseteq SourceJournal, sourceIssns' \in [SourceJournal -> SUBSET Issn],
             journals' \subseteq Journal, issns' \in [Journal -> SUBSET Issn],
             checked' \subseteq Issn,
             place \in {"linking", "checking", "recording", "returned"} => s \in sourceJournals'
      PROVE  JournalInv'
  <2>1. \A v \in Worker :
          /\ journalCall'[v].at # "none" => journalCall'[v].journal \in SourceJournal
          /\ journalCall'[v].at \in {"linking", "checking", "recording", "returned"} =>
                journalCall'[v].journal \in sourceJournals'
    BY <1>1, <1>k DEF Asks, JournalInv
  <2>2. \A v \in Worker : journalCall'[v].left \subseteq Issn
    BY <1>k DEF Asks, JournalCalls
  <2>3. QED
    BY <1>k, <2>1, <2>2 DEF JournalInv, J!TypeOK, Asks
<1> USE DEF JournalInv, J!TypeOK
<1>4. CASE J!Find(w) \/ J!Fail(w) \/ J!CheckWithoutJournal(w) \/ J!TimesOut(w)
  <2>1. UNCHANGED <<sourceJournals, sourceIssns, journals, issns, checked>>
    BY <1>4 DEF J!Find, J!Fail, J!CheckWithoutJournal, J!TimesOut
  <2>2. Asks(w, "storing") \/ Asks(w, "failed") \/ Asks(w, "timed_out")
    <3>1. CASE J!Find(w)
      <4>0. (s \in sourceJournals) \in BOOLEAN
        OBVIOUS
      <4> HIDE DEF s
      <4>1. PICK b \in BOOLEAN : b = (s \in sourceJournals)
        BY <4>0, Zenon
      <4> USE DEF s
      <4>2. journalCall' = [journalCall EXCEPT ![w].at = "storing", ![w].exists = b]
        BY <3>1, <4>1 DEF J!Find
      <4>3. QED
        BY <1>1, <4>2 DEF Asks, JournalCalls, JournalPlace
    <3>2. CASE J!Fail(w) \/ J!CheckWithoutJournal(w) \/ J!TimesOut(w)
      BY <3>2, JournalGoes DEF J!Fail, J!CheckWithoutJournal, J!TimesOut, JournalPlace
    <3>3. QED
      BY <1>4, <3>1, <3>2
  <2>3. QED
    BY <2>1, <2>2, <1>k
<1>5. CASE J!Store(w)
  <2>1. CASE ~ journalCall[w].exists /\ s \in sourceJournals
    <3>1. /\ UNCHANGED <<sourceJournals, sourceIssns, journals, issns, checked>>
          /\ Asks(w, "failed")
      BY <1>5, <2>1, JournalGoes DEF J!Store, JournalPlace
    <3>2. QED
      BY <3>1, <1>k
  <2>2. CASE ~ (~ journalCall[w].exists /\ s \in sourceJournals)
    <3>1. /\ UNCHANGED <<journals, issns, checked>> /\ sourceJournals' = sourceJournals \cup {s}
          /\ sourceIssns' = [sourceIssns EXCEPT ![s] = journalCall[w].issns]
          /\ Asks(w, "linking")
      BY <1>5, <2>2, JournalGoes DEF J!Store, JournalPlace
    <3>2. sourceIssns' \in [SourceJournal -> SUBSET Issn]
      BY <1>1, <3>1 DEF JournalCalls
    <3>3. QED
      BY <1>1, <3>1, <3>2, <1>k
  <2>3. QED
    BY <2>1, <2>2
<1>6. CASE J!ReadSource(w)
  <2>1. UNCHANGED <<sourceJournals, sourceIssns, journals, issns, checked>>
        /\ s \in sourceJournals
    BY <1>1, <1>6 DEF J!ReadSource
  <2>2. J!ToCheck(w) \subseteq Issn
    BY <1>1 DEF J!ToCheck
  <2>3. Asks(w, "returned") \/ Asks(w, "checking")
    BY <1>1, <1>6, <2>2 DEF J!ReadSource, Asks, JournalCalls, JournalPlace
  <2>4. QED
    BY <2>1, <2>3, <1>k
<1>7. CASE J!CheckWithoutPage(w)
  <2>1. /\ UNCHANGED <<sourceJournals, sourceIssns, journals, issns, checked>>
        /\ s \in sourceJournals
    BY <1>1, <1>7 DEF J!CheckWithoutPage, J!Unanswered
  <2>2. Asks(w, "returned") \/ Asks(w, "checking")
    BY <1>3, <1>7 DEF J!CheckWithoutPage
  <2>3. QED
    BY <2>1, <2>2, <1>k
<1>8. CASE J!Check(w)
  <2>1. /\ UNCHANGED <<sourceJournals, sourceIssns, journals, issns, checked>>
        /\ s \in sourceJournals
    BY <1>1, <1>8 DEF J!Check
  <2>2. PICK i \in journalCall[w].left \cap DOMAIN Portal :
            journalCall' = [journalCall EXCEPT
            ![w].at = "recording", ![w].checking = {i}, ![w].exists = Portal[i].journal \in journals,
            ![w].stamped = issns[Portal[i].journal] \cap checked]
    BY <1>8 DEF J!Check
  <2>3. /\ {i} \in SUBSET DOMAIN Portal /\ (Portal[i].journal \in journals) \in BOOLEAN
        /\ (issns[Portal[i].journal] \cap checked) \in SUBSET Issn
    BY <1>2
  <2>4. Asks(w, "recording")
    BY <1>1, <2>2, <2>3 DEF Asks, JournalCalls, JournalPlace
  <2>5. QED
    BY <2>1, <2>4, <1>k
<1>9. CASE J!Record(w)
  <2>1. UNCHANGED <<sourceJournals, sourceIssns>> /\ s \in sourceJournals
    BY <1>1, <1>9 DEF J!Record
  <2>2. PICK i \in journalCall[w].checking :
            IF ~ journalCall[w].exists /\ Portal[i].journal \in journals
            THEN J!Goes(w, "failed") /\ UNCHANGED <<journals, issns, checked>>
            ELSE /\ journals' = journals \cup {Portal[i].journal}
                 /\ issns' = [issns EXCEPT ![Portal[i].journal] = Portal[i].issns]
                 /\ checked' = J!Stamped(w, i, Portal[i].issns)
                 /\ J!Treated(w, i)
    BY <1>9 DEF J!Record
  <2>3. CASE ~ journalCall[w].exists /\ Portal[i].journal \in journals
    <3>1. UNCHANGED <<journals, issns, checked>> /\ Asks(w, "failed")
      BY <2>2, <2>3, JournalGoes DEF JournalPlace
    <3>2. QED
      BY <2>1, <3>1, <1>k
  <2>4. CASE ~ (~ journalCall[w].exists /\ Portal[i].journal \in journals)
    <3>1. /\ journals' = journals \cup {Portal[i].journal}
          /\ issns' = [issns EXCEPT ![Portal[i].journal] = Portal[i].issns]
          /\ checked' = J!Stamped(w, i, Portal[i].issns)
          /\ J!Treated(w, i)
      BY <2>2, <2>4
    <3>2. /\ i \in Issn /\ Portal[i].journal \in Journal /\ Portal[i].issns \subseteq Issn
      BY <1>1, <1>2 DEF JournalCalls
    <3>3. Asks(w, "returned") \/ Asks(w, "checking")
      BY <1>3, <3>1
    <3>4. journals' \subseteq Journal /\ issns' \in [Journal -> SUBSET Issn] /\ checked' \subseteq Issn
      BY <1>1, <3>1, <3>2 DEF J!Stamped, JournalCalls
    <3>5. QED
      BY <2>1, <3>3, <3>4, <1>k
  <2>5. QED
    BY <2>3, <2>4
<1>10. QED
  BY <1>4, <1>5, <1>6, <1>7, <1>8, <1>9 DEF J!Work

Asking(call) == \E s \in SourceJournal : \E listed \in SUBSET Issn : call = J!Call(s, listed)

LEMMA JournalCallKept ==
    ASSUME JournalInv, NEW w \in Worker, NEW call, call = J!NoCall \/ Asking(call),
           journalCall' = [journalCall EXCEPT ![w] = call],
           UNCHANGED <<sourceJournals, sourceIssns, journals, issns, checked>>
    PROVE  JournalInv'
<1>1. /\ call \in JournalCalls /\ call.at \in {"none", "finding"}
      /\ call.at # "none" => call.journal \in SourceJournal
  <2>1. CASE call = J!NoCall
    <3>1. {} \in SUBSET DOMAIN Portal /\ {} \in SUBSET Issn
      OBVIOUS
    <3>2. QED
      BY <2>1, <3>1 DEF JournalCalls, JournalPlace, J!NoCall
  <2>2. ASSUME NEW s \in SourceJournal, NEW listed \in SUBSET Issn, call = J!Call(s, listed)
        PROVE  /\ call \in JournalCalls /\ call.at = "finding" /\ call.journal \in SourceJournal
    <3>1. {} \in SUBSET DOMAIN Portal /\ {} \in SUBSET Issn
      OBVIOUS
    <3>2. call = [at |-> "finding", journal |-> s, issns |-> listed, exists |-> FALSE,
                  left |-> {}, checking |-> {}, stamped |-> {}]
      BY <2>2 DEF J!NoCall, J!Call
    <3>3. QED
      BY <3>1, <3>2 DEF JournalCalls, JournalPlace
  <2>3. QED
    BY <2>1, <2>2 DEF Asking
<1>2. /\ journalCall' \in [Worker -> JournalCalls] /\ journalCall'[w] = call
      /\ \A v \in Worker \ {w} : journalCall'[v] = journalCall[v]
  BY <1>1 DEF JournalInv
<1>3. \A v \in Worker : journalCall'[v].left \subseteq Issn
  <2>1. \A j \in JournalCalls : j.left \subseteq Issn
    BY DEF JournalCalls
  <2>2. QED
    BY <1>2, <2>1
<1>4. QED
  BY <1>1, <1>2, <1>3 DEF JournalInv, J!TypeOK

---------------------------------------------------------------------------
(* Types: the workers and what they store. *)

\* What a message is made of.
LEMMA MessagesTyped ==
    \A m \in Message :
        /\ m.event \in {"created", "updated", "unchanged", "enhanced"}
        /\ m.record \in SourceRecord /\ m.owner \in Person
        /\ m.contributions \in Seq(Contribution) /\ m.subjects \in Seq(Subject)
        /\ m.issue \in Issue /\ m.journals \subseteq SourceJournal /\ m.issns \subseteq Issn
BY RecordsAssumption

\* What a worker has in hand.
LEMMA JobsTyped ==
    ASSUME JobsInv, NEW w \in Worker
    PROVE  /\ pc[w] \in PC /\ job[w] \in Jobs /\ Sane(pc[w], job[w]) /\ Backed(pc[w], job[w])
           /\ job[w].message \in Message \cup {NoMessage}
           /\ job[w].mode \in {"", "created", "updated", "unchanged"} /\ job[w].first \in BOOLEAN
           /\ job[w].subjects \subseteq Concept /\ job[w].journals \subseteq SourceJournal
           /\ job[w].left \in Seq(Subject) \cup Seq(Contribution) /\ job[w].flawed \in BOOLEAN
           /\ pc[w] # "idle" => job[w].message \in Message /\ About(w) \in SourceRecord
<1>1. pc[w] \in PC /\ job[w] \in Jobs /\ Sane(pc[w], job[w]) /\ Backed(pc[w], job[w])
  BY DEF JobsInv
<1>2. pc[w] # "idle" => job[w].message \in Message /\ About(w) \in SourceRecord
  BY <1>1, MessagesTyped DEF Sane, About
<1>3. QED
  BY <1>1, <1>2 DEF Jobs

\* Nothing that workers rely on goes away.
Grows ==
    /\ people' = people /\ records \subseteq records'
    /\ concepts \subseteq concepts' /\ sourceJournals \subseteq sourceJournals'

LEMMA StaysBacked ==
    ASSUME Grows, NEW place, NEW j, Backed(place, j)
    PROVE  Backed(place, j)'
BY DEF Backed, Grows

(***************************************************************************)
(* The worker w goes to another place with other local variables, which    *)
(* keeps the workers sane.                                                 *)
(***************************************************************************)
Takes(w, place, j) ==
    /\ Grows /\ place \in PC /\ j \in Jobs /\ Sane(place, j)
    /\ pc' = [pc EXCEPT ![w] = place] /\ job' = [job EXCEPT ![w] = j]

LEMMA JobsKept ==
    ASSUME JobsInv, NEW w \in Worker, NEW place, NEW j, Takes(w, place, j), Backed(place, j)'
    PROVE  JobsInv'
<1>1. pc' \in [Worker -> PC] /\ job' \in [Worker -> Jobs]
  BY DEF JobsInv, Takes
<1>2. ASSUME NEW v \in Worker
      PROVE  Sane(pc'[v], job'[v]) /\ Backed(pc[v], job[v])'
  <2>1. CASE v = w
    BY <2>1 DEF Takes, JobsInv
  <2>2. CASE v # w
    <3>1. pc'[v] = pc[v] /\ job'[v] = job[v]
      BY <2>2 DEF Takes, JobsInv
    <3>2. Sane(pc[v], job[v]) /\ Backed(pc[v], job[v])
      BY DEF JobsInv
    <3>3. QED
      BY <3>1, <3>2, StaysBacked DEF Takes
  <2>3. QED
    BY <2>1, <2>2
<1>3. QED
  BY <1>1, <1>2 DEF JobsInv

LEMMA JobsUnmoved ==
    ASSUME JobsInv, Grows, UNCHANGED <<pc, job>>
    PROVE  JobsInv'
BY StaysBacked DEF JobsInv

LEMMA NoJobTyped ==
    /\ NoJob \in Jobs /\ "idle" \in PC /\ Sane("idle", NoJob)
    /\ NoJob.subjects = {} /\ NoJob.journals = {}
BY DEF NoJob, Job, Jobs, NoMessage, PC, Sane

\* A worker that is done is sane.
LEMMA EndsKept ==
    ASSUME JobsInv, Grows, NEW w \in Worker, Ends(w)
    PROVE  JobsInv'
<1>1. Takes(w, "idle", NoJob)
  BY NoJobTyped DEF Ends, Goes, Takes
<1>2. Backed("idle", NoJob)'
  BY NoJobTyped DEF Backed, Filled
<1>3. QED
  BY <1>1, <1>2, JobsKept

\* Records stay linked to what exists.
LEMMA RecordsKept ==
    ASSUME RecordInv, Grows, UNCHANGED <<sourceVars, recordVars>>
    PROVE  RecordInv'
BY DEF RecordInv, Grows, sourceVars, recordVars, Contributors, Range

LEMMA ConceptsUnmoved == ASSUME ConceptInv, UNCHANGED conceptVars PROVE ConceptInv'
BY DEF ConceptInv, conceptVars, C!Called
LEMMA JournalsUnmoved == ASSUME JournalInv, UNCHANGED journalVars PROVE JournalInv'
BY DEF JournalInv, journalVars, J!TypeOK
LEMMA CountsUnmoved ==
    ASSUME CountInv, UNCHANGED <<countVars, historyVars>>, records \subseteq records' PROVE CountInv'
BY DEF CountInv, countVars, historyVars

\* A step that leaves the graph as it is.
Still == UNCHANGED <<people, sourceVars, recordVars, conceptVars, journalVars>>

LEMMA StillKept ==
    ASSUME TypeInv, Still, JobsInv', CountInv'
    PROVE  TypeInv'
<1>1. Grows
  BY DEF Still, Grows, recordVars, conceptVars, journalVars
<1>2. QED
  BY <1>1, RecordsKept, ConceptsUnmoved, JournalsUnmoved DEF Still, TypeInv

LEMMA StillGrows == ASSUME Still PROVE Grows /\ records' = records
BY DEF Still, Grows, recordVars, conceptVars, journalVars

\* A message as a worker receives it.
LEMMA FreshJob ==
    ASSUME NEW m \in Message
    PROVE  \E j \in Jobs :
              /\ j = [Job(m) EXCEPT !.mode = Mode(m)] /\ Sane("looking", j)
              /\ j.subjects = {} /\ j.journals = {} /\ j.message = m /\ j.mode = Mode(m)
              /\ j.first = TRUE /\ j.flawed = FALSE
<1> DEFINE j == [Job(m) EXCEPT !.mode = Mode(m)]
<1>1. Mode(m) \in {"created", "updated", "unchanged"} /\ (Mode(m) = "unchanged" <=> m.event = "unchanged")
  BY MessagesTyped DEF Mode
<1>2. Job(m) \in Jobs
  <2>1. <<>> \in Seq(Subject) /\ {} \in SUBSET Concept /\ {} \in SUBSET SourceJournal
    OBVIOUS
  <2>2. QED
    BY <2>1 DEF Jobs, Job
<1>3. /\ j.subjects = {} /\ j.journals = {} /\ j.message = m /\ j.mode = Mode(m)
      /\ j.first = TRUE /\ j.flawed = FALSE /\ j \in Jobs
  <2>1. /\ Job(m).subjects = {} /\ Job(m).journals = {} /\ Job(m).message = m
        /\ Job(m).first = TRUE /\ Job(m).flawed = FALSE
    BY DEF Job
  <2>2. QED
    BY <1>1, <1>2, <2>1 DEF Jobs
<1> HIDE DEF j
<1>4. Sane("looking", j)
  BY <1>1, <1>3 DEF Sane
<1>5. QED
  BY <1>3, <1>4 DEF j

LEMMA ReceiveTyped == ASSUME TypeInv, NEW w \in Worker, Receive(w) PROVE TypeInv'
<1>1. PICK m \in Message :
        /\ \/ m \in requeued /\ requeued' = requeued \ {m} /\ UNCHANGED messages
           \/ messages < MaxMessages /\ messages' = messages + 1 /\ UNCHANGED requeued
        /\ job' = [job EXCEPT ![w] = [Job(m) EXCEPT !.mode = Mode(m)]]
  BY DEF Receive
<1>2. PICK j \in Jobs :
        /\ j = [Job(m) EXCEPT !.mode = Mode(m)] /\ Sane("looking", j)
        /\ j.subjects = {} /\ j.journals = {}
  BY FreshJob
<1>3. Still
  BY DEF Receive, Still
<1>4. JobsInv'
  <2>1. Takes(w, "looking", j)
    BY <1>1, <1>2, <1>3, StillGrows DEF Receive, Goes, Takes, PC
  <2>2. Backed("looking", j)'
    BY <1>2 DEF Backed, Filled
  <2>3. QED
    BY <2>1, <2>2, JobsKept DEF TypeInv
<1>5. CountInv'
  BY <1>1, <1>3, StillGrows, RecordsAssumption DEF Receive, TypeInv, CountInv, historyVars
<1>6. QED
  BY <1>3, <1>4, <1>5, StillKept

LEMMA DropsTyped == ASSUME TypeInv, NEW w \in Worker, pc[w] # "idle", Drops(w) PROVE TypeInv'
<1>1. Still
  BY DEF Drops, Still
<1>2. JobsInv'
  BY <1>1, StillGrows, EndsKept DEF Drops, TypeInv
<1>3. CountInv'
  BY <1>1, StillGrows, JobsTyped DEF Drops, TypeInv, CountInv, countVars
<1>4. QED
  BY <1>1, <1>2, <1>3, StillKept

LEMMA EndingTyped ==
    ASSUME TypeInv, NEW w \in Worker, Ignore(w) \/ Announce(w) \/ IndexRefuses(w) PROVE TypeInv'
<1>1. Still /\ Ends(w)
  BY DEF Ignore, Announce, IndexRefuses, Still
<1>2. JobsInv'
  BY <1>1, StillGrows, EndsKept DEF TypeInv
<1>3. CountInv'
  BY <1>1, StillGrows, RecordsAssumption DEF Ignore, Announce, IndexRefuses, Silences, Told, TypeInv,
     CountInv, countVars, historyVars
<1>4. QED
  BY <1>1, <1>2, <1>3, StillKept

LEMMA LookTyped == ASSUME TypeInv, NEW w \in Worker, Look(w) PROVE TypeInv'
<1>1. Still /\ UNCHANGED <<job, countVars, historyVars>>
  BY DEF Look, Still
<1>2. JobsInv'
  <2>1. PICK j \in Jobs : j = job[w]
    BY DEF TypeInv, JobsInv
  <2>2. /\ Sane("looking", j) /\ Backed("looking", j) /\ j.mode # "unchanged"
    BY <2>1 DEF TypeInv, JobsInv, Look
  <2>3. Takes(w, "checking", j)
    <3>1. job' = [job EXCEPT ![w] = j]
      BY <1>1, <2>1 DEF TypeInv, JobsInv
    <3>2. Sane("checking", j)
      BY <2>2 DEF Sane
    <3>3. QED
      BY <1>1, <3>1, <3>2, StillGrows DEF Look, Goes, Takes, PC
  <2>4. Backed("checking", j)'
    <3>1. Backed("looking", j)'
      BY <2>2, <1>1, StillGrows, StaysBacked
    <3>2. QED
      BY <3>1 DEF Backed, Filled
  <2>5. QED
    BY <2>3, <2>4, JobsKept DEF TypeInv
<1>3. QED
  BY <1>1, <1>2, StillKept, StillGrows, CountsUnmoved DEF TypeInv

LEMMA SwitchTyped == ASSUME TypeInv, NEW w \in Worker, Switch(w) PROVE TypeInv'
<1>1. CASE ~ job[w].first
  BY <1>1, DropsTyped DEF Switch
<1>2. CASE job[w].first
  <2>1. /\ Still /\ UNCHANGED <<pc, countVars, historyVars>> /\ pc[w] = "looking"
        /\ job[w].mode \in {"created", "updated"}
        /\ job' = [job EXCEPT ![w].first = FALSE,
                              ![w].mode = IF @ = "created" THEN "updated" ELSE "created"]
    BY <1>2 DEF Switch, Still
  <2>2. PICK j \in Jobs :
            /\ j = [job[w] EXCEPT !.first = FALSE, !.mode = IF @ = "created" THEN "updated" ELSE "created"]
            /\ j.mode \in {"created", "updated"} /\ j.message = job[w].message
            /\ j.subjects = job[w].subjects /\ j.journals = job[w].journals
    <3>1. job[w] \in Jobs
      BY DEF TypeInv, JobsInv
    <3>2. PICK mode \in {"created", "updated"} :
              mode = IF job[w].mode = "created" THEN "updated" ELSE "created"
      OBVIOUS
    <3>3. [job[w] EXCEPT !.first = FALSE, !.mode = mode] \in Jobs
      BY <3>1 DEF Jobs
    <3>4. QED
      BY <3>1, <3>2, <3>3 DEF Jobs
  <2>3. Sane("looking", job[w]) /\ Backed("looking", job[w])
    BY <2>1 DEF TypeInv, JobsInv
  <2>4. Takes(w, "looking", j)
    <3>1. Sane("looking", j)
      BY <2>1, <2>2, <2>3 DEF Sane
    <3>2. pc' = [pc EXCEPT ![w] = "looking"] /\ job' = [job EXCEPT ![w] = j]
      BY <2>1, <2>2 DEF TypeInv, JobsInv
    <3>3. QED
      BY <2>1, <3>1, <3>2, StillGrows DEF Takes, PC
  <2>5. Backed("looking", j)'
    BY <2>1, <2>2, <2>3, StillGrows DEF Backed, Filled, Grows
  <2>6. QED
    BY <2>1, <2>4, <2>5, JobsKept, StillKept, StillGrows, CountsUnmoved DEF TypeInv
<1>3. QED
  BY <1>1, <1>2

\* What is left of a sequence, be it empty.
LEMMA TailTyped ==
    ASSUME NEW S, NEW s \in Seq(S)
    PROVE  Tail(s) \in Seq(S) /\ (s # <<>> => Head(s) \in S)
<1>1. CASE s = <<>>
  <2>1. Tail(<<>>) \in Seq(S)
    OBVIOUS
  <2>2. QED
    BY <1>1, <2>1
<1>2. CASE s # <<>>
  BY <1>2
<1>3. QED
  BY <1>1, <1>2

\* The people and organizations of contributions.
LEMMA ContributorsTyped ==
    ASSUME NEW cs \in Seq(Contribution), NEW m, m.contributions = cs
    PROVE  /\ \A c \in Range(cs) : c \in Contribution
           /\ Contributors(m) \subseteq SourcePerson /\ Affiliations(m) \subseteq SourceOrganization
<1>1. \A n \in DOMAIN cs : cs[n] \in Contribution
  OBVIOUS
<1>2. \A c \in Range(cs) : c \in Contribution
  BY <1>1 DEF Range
<1>3. \A c \in Contribution : c.contributor \in SourcePerson /\ c.affiliations \subseteq SourceOrganization
  BY DEF Contribution
<1>4. Contributors(m) \subseteq SourcePerson
  BY <1>2, <1>3 DEF Contributors
<1>5. Affiliations(m) \subseteq SourceOrganization
  BY <1>2, <1>3 DEF Affiliations
<1>6. QED
  BY <1>2, <1>4, <1>5

LEMMA StoreContributorsTyped ==
    ASSUME TypeInv, NEW w \in Worker, StoreContributors(w) PROVE TypeInv'
<1> DEFINE m == job[w].message
<1>1. PICK failed \in {{}} \cup {{x} : x \in Contributors(m) \cup Affiliations(m)} :
        /\ errors + Cardinality(failed) <= MaxErrors
        /\ errors' = errors + Cardinality(failed)
        /\ sourcePeople' = sourcePeople \cup (Contributors(m) \ failed)
        /\ sourceOrganizations' = sourceOrganizations \cup (Affiliations(m) \ failed)
        /\ job' = [job EXCEPT ![w].flawed = failed # {}, ![w].left = m.subjects]
  BY DEF StoreContributors, StoredPeople, StoredOrganizations
<1>2. /\ UNCHANGED <<people, recordVars, conceptVars, journalVars, messages, requeued, historyVars>>
      /\ pc[w] = "checking" /\ m.owner \in people /\ pc' = [pc EXCEPT ![w] = "subjects"]
  BY DEF StoreContributors, Goes
<1>3. Grows
  BY <1>2 DEF Grows, recordVars, conceptVars, journalVars
<1>4. /\ m \in Message /\ Sane("checking", job[w]) /\ Backed("checking", job[w]) /\ job[w] \in Jobs
      /\ m.contributions \in Seq(Contribution) /\ m.subjects \in Seq(Subject)
  BY <1>2, JobsTyped, MessagesTyped DEF TypeInv
<1> HIDE DEF m
<1>5. JobsInv'
  <2>1. PICK flawed \in BOOLEAN : flawed = (failed # {})
    BY Zenon
  <2>2. PICK j \in Jobs :
            /\ j = [job[w] EXCEPT !.flawed = flawed, !.left = m.subjects]
            /\ j.message = m /\ j.mode = job[w].mode /\ j.left = m.subjects
            /\ j.subjects = job[w].subjects /\ j.journals = job[w].journals
    <3>1. [job[w] EXCEPT !.flawed = flawed, !.left = m.subjects] \in Jobs
      BY <1>4 DEF Jobs
    <3>2. QED
      BY <1>4, <3>1 DEF Jobs, m
  <2>3. job' = [job EXCEPT ![w] = j]
    BY <1>1, <2>1, <2>2 DEF TypeInv, JobsInv
  <2>4. Sane("subjects", j)
    BY <1>4, <2>2 DEF Sane, m
  <2>5. Takes(w, "subjects", j)
    BY <1>2, <1>3, <2>3, <2>4 DEF Takes, PC
  <2>6. Backed("subjects", j)'
    BY <1>2, <1>3, <1>4, <2>2 DEF Backed, Filled, Grows
  <2>7. QED
    BY <2>5, <2>6, JobsKept DEF TypeInv
<1>6. RecordInv'
  <2>1. Contributors(m) \subseteq SourcePerson /\ Affiliations(m) \subseteq SourceOrganization
    BY <1>4, ContributorsTyped
  <2>2. QED
    <3>1. /\ people' = people /\ sourcePeople' \subseteq SourcePerson
          /\ sourceOrganizations' \subseteq SourceOrganization /\ sourcePeople \subseteq sourcePeople'
      BY <1>1, <1>2, <2>1 DEF TypeInv, RecordInv
    <3>2. UNCHANGED <<records, harvestedFor, subjects, publishedIn, issuedBy, contributions,
                      concepts, sourceJournals>>
      BY <1>2 DEF recordVars, conceptVars, journalVars
    <3>3. QED
      BY <3>1, <3>2 DEF TypeInv, RecordInv, Contributors
<1>7. CountInv'
  <2>1. Cardinality(failed) \in Nat
    <3>1. failed = {} \/ \E x : failed = {x}
      OBVIOUS
    <3>2. Cardinality(failed) = 0 \/ Cardinality(failed) = 1
      BY <3>1, FS_EmptySet, FS_Singleton
    <3>3. QED
      BY <3>2
  <2>2. errors' \in 0 .. MaxErrors
    BY <1>1, <2>1, RecordsAssumption DEF TypeInv, CountInv
  <2>3. QED
    BY <1>2, <2>2 DEF TypeInv, CountInv, recordVars, historyVars
<1>8. QED
  BY <1>2, <1>5, <1>6, <1>7, ConceptsUnmoved, JournalsUnmoved DEF TypeInv

\* A step that leaves records, and what a call does not touch, as they are.
Calm == UNCHANGED <<people, sourceVars, recordVars, countVars, historyVars>>

LEMMA CalmKept ==
    ASSUME TypeInv, Calm, concepts \subseteq concepts', sourceJournals \subseteq sourceJournals',
           JobsInv', ConceptInv', JournalInv'
    PROVE  TypeInv'
<1>1. Grows
  BY DEF Calm, Grows, recordVars
<1>2. RecordInv'
  BY <1>1, RecordsKept DEF TypeInv, Calm
<1>3. CountInv'
  BY <1>1, CountsUnmoved DEF TypeInv, Calm, Grows
<1>4. QED
  BY <1>2, <1>3 DEF TypeInv

LEMMA CallConceptTyped == ASSUME TypeInv, NEW w \in Worker, CallConcept(w) PROVE TypeInv'
<1>1. Calm /\ UNCHANGED <<pc, job, journalVars, concepts, prefLabels, altLabels, languages>>
  BY DEF CallConcept, Calm
<1>2. PICK s \in Subject : s = Head(job[w].left)
  <2>1. job[w].left \in Seq(Subject)
    BY JobsTyped DEF TypeInv, CallConcept, Sane
  <2>2. QED
    BY <2>1 DEF CallConcept
<1>3. ConceptInv'
  BY <1>1, <1>2, ConceptCallKept DEF CallConcept, TypeInv
<1>4. JobsInv' /\ JournalInv' /\ sourceJournals' = sourceJournals
  BY <1>1, JobsUnmoved, JournalsUnmoved DEF TypeInv, Grows, Calm, recordVars, journalVars
<1>5. QED
  BY <1>1, <1>3, <1>4, CalmKept

LEMMA TreatConceptTyped == ASSUME TypeInv, NEW w \in Worker, TreatConcept(w) PROVE TypeInv'
<1>1. Calm /\ UNCHANGED <<pc, job, journalVars>>
  BY DEF TreatConcept, Calm
<1>2. ConceptInv' /\ concepts \subseteq concepts'
  BY ConceptStep DEF TreatConcept, TypeInv
<1>3. JobsInv' /\ JournalInv' /\ sourceJournals' = sourceJournals
  BY <1>1, <1>2, JobsUnmoved, JournalsUnmoved DEF TypeInv, Grows, Calm, recordVars, journalVars
<1>4. QED
  BY <1>1, <1>2, <1>3, CalmKept

\* The local variables of a worker that keeps what a call returned.
KeptConcept(w, returned) ==
    [job[w] EXCEPT !.left = Tail(@), !.flawed = @ \/ ~ returned,
                   !.subjects = IF returned THEN @ \cup {C!Called(w)} ELSE @]

LEMMA KeepConceptTyped == ASSUME TypeInv, NEW w \in Worker, KeepConcept(w) PROVE TypeInv'
<1>1. /\ Calm /\ UNCHANGED <<pc, journalVars, concepts, prefLabels, altLabels, languages>>
      /\ pc[w] = "subjects" /\ conceptCall' = [conceptCall EXCEPT ![w] = C!NoCall]
      /\ job' = [job EXCEPT ![w] = KeptConcept(w, conceptCall[w].at = "returned")]
  BY DEF KeepConcept, Calm, KeptConcept, TypeInv, JobsInv
<1>2. /\ job[w] \in Jobs /\ Sane("subjects", job[w]) /\ Backed("subjects", job[w])
      /\ job[w].left \in Seq(Subject)
  BY <1>1, JobsTyped DEF TypeInv, Sane
<1>3. conceptCall[w].at = "returned" => C!Called(w) \in concepts
  BY DEF TypeInv, ConceptInv
<1>4. PICK kept \in SUBSET concepts :
        kept = IF conceptCall[w].at = "returned" THEN job[w].subjects \cup {C!Called(w)}
               ELSE job[w].subjects
  BY <1>2, <1>3 DEF Backed
<1>5. PICK flawed \in BOOLEAN : flawed = (job[w].flawed \/ ~ (conceptCall[w].at = "returned"))
  BY Zenon
<1>6. PICK j \in Jobs : /\ j = [job[w] EXCEPT !.left = Tail(@), !.flawed = flawed, !.subjects = kept]
                        /\ j.message = job[w].message /\ j.mode = job[w].mode
                        /\ j.left = Tail(job[w].left) /\ j.subjects = kept
                        /\ j.journals = job[w].journals
  <2>1. kept \subseteq Concept /\ Tail(job[w].left) \in Seq(Subject)
    BY <1>2, TailTyped DEF TypeInv, ConceptInv
  <2>2. [job[w] EXCEPT !.left = Tail(@), !.flawed = flawed, !.subjects = kept] \in Jobs
    BY <1>2, <2>1 DEF Jobs
  <2>3. QED
    BY <1>2, <2>2 DEF Jobs
<1>7. JobsInv'
  <2>1. job' = [job EXCEPT ![w] = j]
    BY <1>1, <1>4, <1>5, <1>6 DEF KeptConcept
  <2>2. Sane("subjects", j)
    BY <1>2, <1>6, TailTyped DEF Sane
  <2>3. Takes(w, "subjects", j)
    <3>1. pc' = [pc EXCEPT ![w] = "subjects"]
      BY <1>1 DEF TypeInv, JobsInv
    <3>2. QED
      BY <1>1, <2>1, <2>2, <3>1 DEF Takes, Grows, Calm, recordVars, journalVars, PC
  <2>4. Backed("subjects", j)'
    BY <1>1, <1>2, <1>6 DEF Backed, Filled, Calm, recordVars, journalVars
  <2>5. QED
    BY <2>3, <2>4, JobsKept DEF TypeInv
<1>8. ConceptInv' /\ JournalInv' /\ sourceJournals' = sourceJournals
  BY <1>1, ConceptCallKept, JournalsUnmoved DEF TypeInv, journalVars
<1>9. QED
  BY <1>1, <1>7, <1>8, CalmKept

LEMMA CallJournalTyped == ASSUME TypeInv, NEW w \in Worker, CallJournal(w) PROVE TypeInv'
<1> DEFINE m == job[w].message
<1>1. /\ Calm /\ UNCHANGED <<job, conceptVars, sourceJournals, sourceIssns, journals, issns, checked>>
      /\ pc[w] = "subjects"
      /\ m.journals \subseteq SourceJournal /\ m.issns \subseteq Issn
  BY JobsTyped, MessagesTyped DEF CallJournal, Calm, TypeInv
<1>2. PICK place \in {"storing", "journal"} : pc' = [pc EXCEPT ![w] = place]
  BY DEF CallJournal, Goes
<1>3. JournalInv'
  <2>1. CASE m.journals = {}
    BY <2>1, <1>1, JournalsUnmoved DEF CallJournal, TypeInv, journalVars
  <2>2. CASE m.journals # {}
    <3>1. (CHOOSE s \in m.journals : TRUE) \in SourceJournal
      BY <1>1, <2>2
    <3>2. journalCall' = [journalCall EXCEPT ![w] = J!Call(CHOOSE s \in m.journals : TRUE, m.issns)]
      BY <2>2 DEF CallJournal
    <3>3. Asking(J!Call(CHOOSE s \in m.journals : TRUE, m.issns))
      BY <1>1, <3>1 DEF Asking
    <3>4. QED
      BY <1>1, <3>2, <3>3, JournalCallKept DEF TypeInv
  <2>3. QED
    BY <2>1, <2>2
<1>4. JobsInv'
  <2>1. PICK j \in Jobs : j = job[w]
    BY DEF TypeInv, JobsInv
  <2>2. Sane("subjects", j) /\ Backed("subjects", j)
    BY <1>1, <2>1 DEF TypeInv, JobsInv
  <2>3. job' = [job EXCEPT ![w] = j]
    BY <1>1, <2>1 DEF TypeInv, JobsInv
  <2>4. Takes(w, place, j)
    <3>0. place = "journal" => j.message.journals # {}
      BY <1>2, <2>1 DEF CallJournal, Goes, TypeInv, JobsInv
    <3>1. Sane(place, j)
      BY <2>2, <3>0 DEF Sane
    <3>2. QED
      BY <1>1, <1>2, <2>3, <3>1 DEF Takes, Grows, Calm, recordVars, conceptVars, PC
  <2>5. Backed(place, j)'
    BY <1>1, <2>2 DEF Backed, Filled, Calm, recordVars, conceptVars
  <2>6. QED
    BY <2>4, <2>5, JobsKept DEF TypeInv
<1>5. ConceptInv' /\ concepts' = concepts
  BY <1>1, ConceptsUnmoved DEF TypeInv, conceptVars
<1>6. QED
  BY <1>1, <1>3, <1>4, <1>5, CalmKept

LEMMA TreatJournalTyped == ASSUME TypeInv, NEW w \in Worker, TreatJournal(w) PROVE TypeInv'
<1>1. Calm /\ UNCHANGED <<pc, job, conceptVars>>
  BY DEF TreatJournal, Calm
<1>2. JournalInv' /\ sourceJournals \subseteq sourceJournals'
  BY JournalStep DEF TreatJournal, TypeInv
<1>3. JobsInv' /\ ConceptInv' /\ concepts' = concepts
  BY <1>1, <1>2, JobsUnmoved, ConceptsUnmoved DEF TypeInv, Grows, Calm, recordVars, conceptVars
<1>4. QED
  BY <1>1, <1>2, <1>3, CalmKept

KeptJournal(w, returned) ==
    [job[w] EXCEPT !.journals = IF returned THEN {journalCall[w].journal} ELSE {},
                   !.flawed = @ \/ ~ returned]

LEMMA KeepJournalTyped == ASSUME TypeInv, NEW w \in Worker, KeepJournal(w) PROVE TypeInv'
<1>1. /\ Calm /\ UNCHANGED <<conceptVars, sourceJournals, sourceIssns, journals, issns, checked>>
      /\ pc[w] = "journal" /\ pc' = [pc EXCEPT ![w] = "storing"]
      /\ journalCall' = [journalCall EXCEPT ![w] = J!NoCall]
      /\ job' = [job EXCEPT ![w] = KeptJournal(w, journalCall[w].at = "returned")]
  BY DEF KeepJournal, Calm, KeptJournal, TypeInv, JobsInv, Goes
<1>2. job[w] \in Jobs /\ Sane("journal", job[w]) /\ Backed("journal", job[w])
  BY <1>1, JobsTyped DEF TypeInv
<1>3. PICK kept \in SUBSET sourceJournals :
        kept = IF journalCall[w].at = "returned" THEN {journalCall[w].journal} ELSE {}
  BY DEF TypeInv, JournalInv
<1>4. PICK flawed \in BOOLEAN : flawed = (job[w].flawed \/ ~ (journalCall[w].at = "returned"))
  BY Zenon
<1>5. PICK j \in Jobs : /\ j = [job[w] EXCEPT !.journals = kept, !.flawed = flawed]
                        /\ j.message = job[w].message /\ j.mode = job[w].mode
                        /\ j.subjects = job[w].subjects /\ j.journals = kept
  <2>1. kept \subseteq SourceJournal
    BY DEF TypeInv, JournalInv, J!TypeOK
  <2>2. [job[w] EXCEPT !.journals = kept, !.flawed = flawed] \in Jobs
    BY <1>2, <2>1 DEF Jobs
  <2>3. QED
    BY <1>2, <2>2 DEF Jobs
<1>6. JobsInv'
  <2>1. job' = [job EXCEPT ![w] = j]
    BY <1>1, <1>3, <1>4, <1>5 DEF KeptJournal
  <2>2. Sane("storing", j)
    BY <1>2, <1>5 DEF Sane
  <2>3. Takes(w, "storing", j)
    BY <1>1, <2>1, <2>2 DEF Takes, Grows, Calm, recordVars, conceptVars, PC
  <2>4. Backed("storing", j)'
    BY <1>1, <1>2, <1>5 DEF Backed, Filled, Calm, recordVars, conceptVars
  <2>5. QED
    BY <2>3, <2>4, JobsKept DEF TypeInv
<1>7. ConceptInv' /\ JournalInv' /\ concepts' = concepts
  BY <1>1, JournalCallKept, ConceptsUnmoved DEF TypeInv, conceptVars
<1>8. QED
  BY <1>1, <1>6, <1>7, CalmKept

LEMMA RefuseUnansweredTyped ==
    ASSUME TypeInv, NEW w \in Worker, RefuseUnanswered(w) PROVE TypeInv'
<1>1. /\ UNCHANGED <<people, sourceVars, recordVars, conceptVars, sourceJournals, sourceIssns,
                     journals, issns, checked, countVars, latest, disturbed, unannounced>>
      /\ pc[w] # "idle" /\ Ends(w) /\ Silences(w)
      /\ journalCall' = [journalCall EXCEPT ![w] = J!NoCall]
      /\ dropped' = dropped \cup {job[w].message} /\ unanswered' = unanswered \cup {job[w].message}
  BY DEF RefuseUnanswered
<1>2. ConceptInv' /\ JournalInv'
  BY <1>1, ConceptsUnmoved, JournalCallKept DEF TypeInv
<1>3. Grows
  BY <1>1 DEF Grows, recordVars, conceptVars
<1>4. JobsInv' /\ RecordInv'
  BY <1>1, <1>3, EndsKept, RecordsKept DEF TypeInv
<1>5. CountInv'
  BY <1>1, JobsTyped DEF TypeInv, CountInv, Silences, countVars, recordVars
<1>6. QED
  BY <1>2, <1>4, <1>5 DEF TypeInv

LEMMA StoreTyped == ASSUME TypeInv, NEW w \in Worker, Store(w) PROVE TypeInv'
<1>1. PICK m \in Message : m = job[w].message /\ m.record \in SourceRecord /\ m.issue \in Issue
  BY JobsTyped, MessagesTyped DEF Store, TypeInv, PC
<1>2. PICK j \in Jobs : j = job[w]
  BY DEF TypeInv, JobsInv
<1>3. /\ Sane("storing", j) /\ Backed("storing", j) /\ m.owner \in people
      /\ j.subjects \subseteq concepts /\ j.journals \subseteq sourceJournals
  BY <1>1, <1>2, JobsTyped DEF Store, TypeInv, Backed
<1>4. /\ UNCHANGED <<people, sourceVars, contributions, conceptVars, journalVars, job, countVars, dropped,
                     unanswered>>
      /\ pc' = [pc EXCEPT ![w] = "clearing"]
      /\ records' = records \cup {m.record}
      /\ harvestedFor' = [harvestedFor EXCEPT ![m.record] = @ \cup {m.owner}]
      /\ subjects' = [subjects EXCEPT ![m.record] = j.subjects]
      /\ publishedIn' = [publishedIn EXCEPT ![m.record] = {m.issue}]
      /\ issuedBy' = [issuedBy EXCEPT ![m.issue] = @ \cup j.journals]
      /\ latest' = [latest EXCEPT ![m.record] = m]
      /\ disturbed' \in {disturbed \cup {m.record}, disturbed \ {m.record}}
      /\ unannounced' = unannounced \cup {m.record} /\ silenced' = silenced \ {m.record}
  BY <1>1, <1>2 DEF Store, Goes, About
<1>5. Grows
  BY <1>4 DEF Grows, conceptVars, journalVars
<1>6. JobsInv'
  <2>1. job' = [job EXCEPT ![w] = j]
    BY <1>2, <1>4 DEF TypeInv, JobsInv
  <2>2. Sane("clearing", j)
    BY <1>3 DEF Sane
  <2>3. Takes(w, "clearing", j)
    BY <1>4, <1>5, <2>1, <2>2 DEF Takes, PC
  <2>4. Backed("clearing", j)'
    BY <1>1, <1>2, <1>3, <1>4, <1>5 DEF Backed, Grows
  <2>5. QED
    BY <2>3, <2>4, JobsKept DEF TypeInv
<1>7. RecordInv'
  <2>1. records' \subseteq SourceRecord /\ harvestedFor' \in [SourceRecord -> SUBSET people']
    BY <1>1, <1>3, <1>4 DEF TypeInv, RecordInv
  <2>2. subjects' \in [SourceRecord -> SUBSET concepts'] /\ publishedIn' \in [SourceRecord -> SUBSET Issue]
    BY <1>1, <1>3, <1>4 DEF TypeInv, RecordInv, conceptVars
  <2>3. issuedBy' \in [Issue -> SUBSET sourceJournals']
    BY <1>1, <1>3, <1>4 DEF TypeInv, RecordInv, journalVars
  <2>4. QED
    BY <1>4, <2>1, <2>2, <2>3 DEF TypeInv, RecordInv, sourceVars, Contributors
<1>8. CountInv'
  BY <1>1, <1>4 DEF TypeInv, CountInv, countVars
<1>9. QED
  BY <1>4, <1>6, <1>7, <1>8, ConceptsUnmoved, JournalsUnmoved DEF TypeInv

\* A worker that fills its record goes on with the contributions that are left.
LEMMA FillingJobs ==
    ASSUME TypeInv, NEW w \in Worker, pc[w] \in Filled, Grows,
           NEW left \in Seq(Contribution),
           job' = [job EXCEPT ![w].left = left], pc' = [pc EXCEPT ![w] = "contributing"]
    PROVE  JobsInv'
<1>1. PICK place \in Filled : place = pc[w]
  OBVIOUS
<1>2. job[w] \in Jobs /\ Sane(place, job[w]) /\ Backed(place, job[w])
  BY <1>1, JobsTyped DEF TypeInv
<1>3. PICK j \in Jobs : /\ j = [job[w] EXCEPT !.left = left]
                        /\ j.message = job[w].message /\ j.mode = job[w].mode /\ j.left = left
                        /\ j.subjects = job[w].subjects /\ j.journals = job[w].journals
  <2>1. [job[w] EXCEPT !.left = left] \in Jobs
    BY <1>2 DEF Jobs
  <2>2. QED
    BY <1>2, <2>1 DEF Jobs
<1>4. job' = [job EXCEPT ![w] = j]
  BY <1>3
<1>5. Sane("contributing", j)
  BY <1>2, <1>3 DEF Sane, Filled
<1>6. Takes(w, "contributing", j)
  BY <1>4, <1>5 DEF Takes, PC
<1>7. Backed("contributing", j)'
  BY <1>2, <1>3 DEF Backed, Filled, Grows
<1>8. QED
  BY <1>6, <1>7, JobsKept DEF TypeInv

LEMMA ClearTyped == ASSUME TypeInv, NEW w \in Worker, Clear(w) PROVE TypeInv'
<1>1. /\ UNCHANGED <<people, sourceVars, records, harvestedFor, subjects, publishedIn, issuedBy,
                     conceptVars, journalVars, countVars, historyVars>>
      /\ About(w) \in SourceRecord /\ contributions' = [contributions EXCEPT ![About(w)] = <<>>]
  BY JobsTyped DEF Clear, Clears, TypeInv
<1>2. Grows
  BY <1>1 DEF Grows, conceptVars, journalVars
<1>3. JobsInv'
  <2>1. PICK left \in Seq(Contribution) : left = job[w].message.contributions
    BY JobsTyped, MessagesTyped DEF Clear, TypeInv
  <2>2. QED
    BY <1>2, <2>1, FillingJobs DEF Clear, Goes, Filled
<1>4. RecordInv'
  <2>1. contributions' \in [SourceRecord -> Seq(Contribution)]
    BY <1>1 DEF TypeInv, RecordInv
  <2>2. ASSUME NEW r \in SourceRecord
        PROVE  \A c \in Range(contributions'[r]) : c.contributor \in sourcePeople
    <3>1. CASE r = About(w)
      <4>1. contributions'[r] = <<>>
        BY <1>1, <3>1 DEF TypeInv, RecordInv
      <4>2. QED
        BY <4>1 DEF Range
    <3>2. CASE r # About(w)
      BY <1>1, <3>2 DEF TypeInv, RecordInv, Contributors
    <3>3. QED
      BY <3>1, <3>2
  <2>3. \A r \in SourceRecord : Contributors([contributions |-> contributions'[r]]) \subseteq sourcePeople
    BY <2>2 DEF Contributors
  <2>4. QED
    BY <1>1, <2>1, <2>3 DEF TypeInv, RecordInv, conceptVars, journalVars, sourceVars, Contributors
<1>5. QED
  BY <1>1, <1>3, <1>4, CountsUnmoved, ConceptsUnmoved, JournalsUnmoved DEF TypeInv

\* The elements of a sequence that grows.
LEMMA AppendRange ==
    ASSUME NEW S, NEW s \in Seq(S), NEW x \in S
    PROVE  Range(Append(s, x)) = Range(s) \cup {x}
<1>1. DOMAIN Append(s, x) = 1 .. Len(s) + 1 /\ DOMAIN s = 1 .. Len(s) /\ Len(s) \in Nat
  OBVIOUS
<1>2. /\ \A n \in 1 .. Len(s) : Append(s, x)[n] = s[n]
      /\ Append(s, x)[Len(s) + 1] = x
  OBVIOUS
<1>3. QED
  BY <1>1, <1>2 DEF Range

LEMMA ContributeTyped == ASSUME TypeInv, NEW w \in Worker, Contribute(w) PROVE TypeInv'
<1>1. /\ UNCHANGED <<people, sourceVars, records, harvestedFor, subjects, publishedIn, issuedBy,
                     conceptVars, journalVars, pc, countVars, dropped, unanswered, latest, disturbed>>
      /\ About(w) \in SourceRecord /\ About(w) \in records /\ job[w].left \in Seq(Contribution)
      /\ job[w].left # <<>> /\ pc[w] = "contributing"
      /\ unannounced' = unannounced \cup {About(w)} /\ silenced' = silenced \ {About(w)}
      /\ job' = [job EXCEPT ![w].left = Tail(@)]
  BY JobsTyped DEF Contribute, TypeInv, Sane, Backed, Filled, About
<1>2. Grows
  BY <1>1 DEF Grows, conceptVars, journalVars
<1>3. JobsInv'
  <2>1. PICK left \in Seq(Contribution) : left = Tail(job[w].left)
    BY <1>1, TailTyped
  <2>2. pc' = [pc EXCEPT ![w] = "contributing"]
    BY <1>1 DEF TypeInv, JobsInv
  <2>3. QED
    BY <1>1, <1>2, <2>1, <2>2, FillingJobs DEF Filled
<1>4. RecordInv'
  <2>1. PICK stored \in Contribution :
            /\ stored = [Head(job[w].left) EXCEPT !.affiliations = @ \cap sourceOrganizations]
            /\ stored.contributor = Head(job[w].left).contributor
    <3>1. PICK c \in Contribution : c = Head(job[w].left)
      BY <1>1, TailTyped
    <3>2. [c EXCEPT !.affiliations = @ \cap sourceOrganizations] \in Contribution
      BY DEF Contribution
    <3>3. QED
      BY <3>1, <3>2 DEF Contribution
  <2>2. PICK s \in Seq(Contribution) : s = contributions[About(w)]
    BY <1>1 DEF TypeInv, RecordInv
  <2>3. CASE Matched(Head(job[w].left))
    <3>1. contributions' = [contributions EXCEPT ![About(w)] = Append(s, stored)]
      BY <2>1, <2>2, <2>3 DEF Contribute
    <3>2. Append(s, stored) \in Seq(Contribution) /\ Range(Append(s, stored)) = Range(s) \cup {stored}
      BY AppendRange
    <3>3. contributions' \in [SourceRecord -> Seq(Contribution)]
      BY <3>1, <3>2 DEF TypeInv, RecordInv
    <3>4. \A r \in SourceRecord : \A c \in Range(contributions[r]) : c.contributor \in sourcePeople
      BY DEF TypeInv, RecordInv, Contributors
    <3>5. \A r \in SourceRecord : \A c \in Range(contributions'[r]) : c.contributor \in sourcePeople
      BY <1>1, <2>1, <2>2, <2>3, <3>1, <3>2, <3>4 DEF Matched, TypeInv, RecordInv
    <3>6. \A r \in SourceRecord : Contributors([contributions |-> contributions'[r]]) \subseteq sourcePeople
      BY <3>5 DEF Contributors
    <3>7. QED
      BY <1>1, <3>3, <3>6 DEF TypeInv, RecordInv, conceptVars, journalVars, sourceVars, Contributors
  <2>4. CASE ~ Matched(Head(job[w].left))
    BY <1>1, <1>2, <2>4, RecordsKept DEF Contribute, TypeInv, recordVars
  <2>5. QED
    BY <2>3, <2>4
<1>5. CountInv'
  BY <1>1 DEF TypeInv, CountInv, countVars
<1>6. QED
  BY <1>1, <1>3, <1>4, <1>5, ConceptsUnmoved, JournalsUnmoved DEF TypeInv

LEMMA ContributeFailsTyped ==
    ASSUME TypeInv, NEW w \in Worker, ContributeFails(w) PROVE TypeInv'
<1>1. /\ Still /\ UNCHANGED <<pc, messages, requeued, dropped, unanswered, latest, unannounced,
                                  silenced>>
      /\ job[w].left \in Seq(Contribution) /\ pc[w] = "contributing" /\ About(w) \in records
      /\ job' = [job EXCEPT ![w].left = Tail(@)]
      /\ errors < MaxErrors /\ errors' = errors + 1 /\ disturbed' = disturbed \cup {About(w)}
  BY JobsTyped DEF ContributeFails, Still, TypeInv, Sane, Backed, Filled, About
<1>2. JobsInv'
  <2>1. PICK left \in Seq(Contribution) : left = Tail(job[w].left)
    BY <1>1, TailTyped
  <2>2. pc' = [pc EXCEPT ![w] = "contributing"]
    BY <1>1 DEF TypeInv, JobsInv
  <2>3. QED
    BY <1>1, <2>1, <2>2, FillingJobs, StillGrows DEF Filled
<1>3. CountInv'
  BY <1>1, StillGrows, RecordsAssumption DEF TypeInv, CountInv
<1>4. QED
  BY <1>1, <1>2, <1>3, StillKept

LEMMA FailCallTyped == ASSUME TypeInv, NEW w \in Worker, FailCall(w) PROVE TypeInv'
<1>1. /\ UNCHANGED <<people, sourceVars, recordVars, pc, job, messages, requeued, historyVars>>
      /\ errors < MaxErrors /\ errors' = errors + 1
  BY DEF FailCall
<1>2. /\ ConceptInv' /\ concepts \subseteq concepts'
      /\ JournalInv' /\ sourceJournals \subseteq sourceJournals'
  <2>1. CASE C!Fail(w) /\ UNCHANGED journalVars
    BY <2>1, ConceptStep, JournalsUnmoved DEF TypeInv, journalVars
  <2>2. CASE J!Fail(w) /\ UNCHANGED conceptVars
    BY <2>2, JournalStep, ConceptsUnmoved DEF TypeInv, conceptVars
  <2>3. QED
    BY <2>1, <2>2 DEF FailCall
<1>3. Grows
  BY <1>1, <1>2 DEF Grows, recordVars
<1>4. JobsInv' /\ RecordInv'
  BY <1>1, <1>3, JobsUnmoved, RecordsKept DEF TypeInv
<1>5. CountInv'
  BY <1>1, RecordsAssumption DEF TypeInv, CountInv, recordVars, historyVars
<1>6. QED
  BY <1>2, <1>4, <1>5 DEF TypeInv

LEMMA FailTyped == ASSUME TypeInv, NEW w \in Worker, Fail(w) PROVE TypeInv'
<1>1. /\ UNCHANGED <<people, sourceVars, recordVars, concepts, prefLabels, altLabels, languages,
                     overwritten, sourceJournals, sourceIssns, journals, issns, checked, messages,
                     dropped, unanswered, latest, unannounced, silenced>>
      /\ errors < MaxErrors /\ errors' = errors + 1 /\ pc[w] # "idle" /\ Ends(w)
      /\ requeued' = requeued \cup {job[w].message}
      /\ pc[w] \in Filled => disturbed' = disturbed \cup {About(w)}
      /\ pc[w] \notin Filled => disturbed' = disturbed
      /\ conceptCall' = [conceptCall EXCEPT ![w] = C!NoCall]
      /\ journalCall' = [journalCall EXCEPT ![w] = J!NoCall]
  BY DEF Fail, Filled
<1>2. ConceptInv' /\ JournalInv'
  BY <1>1, ConceptCallKept, JournalCallKept DEF TypeInv
<1>3. Grows
  BY <1>1 DEF Grows, recordVars
<1>4. JobsInv' /\ RecordInv'
  BY <1>1, <1>3, EndsKept, RecordsKept DEF TypeInv
<1>5. CountInv'
  <2>1. job[w].message \in Message /\ (pc[w] \in Filled => About(w) \in records)
    BY <1>1, JobsTyped DEF TypeInv, Backed, About
  <2>2. QED
    BY <1>1, <2>1, RecordsAssumption DEF TypeInv, CountInv, recordVars
<1>6. QED
  BY <1>2, <1>4, <1>5 DEF TypeInv

LEMMA TypeInit == Init => TypeInv
<1> SUFFICES ASSUME Init PROVE TypeInv
  OBVIOUS
<1>1. ConceptInv
  <2>1. C!NoCall \in ConceptCalls /\ C!NoCall.at = "none"
    BY DEF ConceptCalls, ConceptPlace, Copies, NoSubject, C!NoCall, C!NoLabels
  <2>2. QED
    BY <2>1 DEF Init, C!Init, ConceptInv
<1>2. JournalInv
  <2>1. {} \in SUBSET DOMAIN Portal /\ {} \in SUBSET Issn
    OBVIOUS
  <2>2. J!NoCall \in JournalCalls /\ J!NoCall.at = "none" /\ J!NoCall.left = {}
    BY <2>1 DEF JournalCalls, JournalPlace, J!NoCall
  <2>3. QED
    BY <2>2 DEF Init, J!Init, JournalInv, J!TypeOK
<1>3. JobsInv
  BY NoJobTyped DEF Init, JobsInv, Backed, Filled
<1>4. RecordInv
  BY DEF Init, RecordInv, Contributors, Range
<1>5. CountInv
  BY RecordsAssumption DEF Init, CountInv
<1>6. QED
  BY <1>1, <1>2, <1>3, <1>4, <1>5 DEF TypeInv

LEMMA TypeNext == ASSUME TypeInv, Next PROVE TypeInv'
<1>1. PICK w \in Worker : Receive(w) \/ Work(w) \/ FailCall(w) \/ Fail(w)
  BY DEF Next
<1>2. CASE Receive(w)
  BY <1>2, ReceiveTyped
<1>3. CASE Ignore(w) \/ Announce(w) \/ IndexRefuses(w)
  BY <1>3, EndingTyped
<1>4. CASE Look(w)
  BY <1>4, LookTyped
<1>5. CASE Switch(w)
  BY <1>5, SwitchTyped
<1>6. CASE RefuseOwner(w) \/ StoreConflict(w)
  BY <1>6, DropsTyped DEF RefuseOwner, StoreConflict
<1>7. CASE StoreContributors(w)
  BY <1>7, StoreContributorsTyped
<1>8. CASE CallConcept(w)
  BY <1>8, CallConceptTyped
<1>9. CASE TreatConcept(w)
  BY <1>9, TreatConceptTyped
<1>10. CASE KeepConcept(w)
  BY <1>10, KeepConceptTyped
<1>11. CASE CallJournal(w)
  BY <1>11, CallJournalTyped
<1>12. CASE TreatJournal(w)
  BY <1>12, TreatJournalTyped
<1>13. CASE KeepJournal(w)
  BY <1>13, KeepJournalTyped
<1>14. CASE Store(w)
  BY <1>14, StoreTyped
<1>15. CASE Clear(w)
  BY <1>15, ClearTyped
<1>16. CASE Contribute(w)
  BY <1>16, ContributeTyped
<1>17. CASE ContributeFails(w)
  BY <1>17, ContributeFailsTyped
<1>18. CASE FailCall(w)
  BY <1>18, FailCallTyped
<1>19. CASE Fail(w)
  BY <1>19, FailTyped
<1>20. CASE RefuseUnanswered(w)
  BY <1>20, RefuseUnansweredTyped
<1>21. QED
  BY <1>1, <1>2, <1>3, <1>4, <1>5, <1>6, <1>7, <1>8, <1>9, <1>10, <1>11, <1>12, <1>13, <1>14,
     <1>15, <1>16, <1>17, <1>18, <1>19, <1>20 DEF Work

LEMMA TypeUnchanged == ASSUME TypeInv, UNCHANGED vars PROVE TypeInv'
<1>1. Still /\ UNCHANGED <<pc, job, countVars, historyVars>>
  BY DEF vars, Still
<1>2. QED
  BY <1>1, StillKept, StillGrows, JobsUnmoved, CountsUnmoved DEF TypeInv

LEMMA TypeInductive == Spec => []TypeInv
<1>1. TypeInv /\ [Next]_vars => TypeInv'
  BY TypeNext, TypeUnchanged
<1>2. QED
  BY <1>1, TypeInit, PTL DEF Spec

(***************************************************************************)
(* Whatever the records are linked to exists, although people,             *)
(* organizations, concepts, journals and records are written in separate   *)
(* transactions of several workers, any of which may fail.                 *)
(***************************************************************************)
THEOREM TypeCorrect == Spec => []TypeOK
<1>1. TypeInv => TypeOK
  <2> SUFFICES ASSUME TypeInv PROVE TypeOK
    OBVIOUS
  <2>1. C!TypeOK
    <3>1. \A w \in Worker : conceptCall[w].at \in ConceptPlace
      BY DEF TypeInv, ConceptInv, ConceptCalls
    <3>2. QED
      BY <3>1 DEF TypeInv, ConceptInv, C!TypeOK, ConceptPlace
  <2>2. J!TypeOK
    BY DEF TypeInv, JournalInv
  <2>3. QED
    BY <2>1, <2>2 DEF TypeInv, TypeOK, JobsInv, RecordInv, CountInv
<1>2. QED
  BY <1>1, TypeInductive, PTL

---------------------------------------------------------------------------
(* Messages that are given up. *)

\* The local variables of the others stay.
LEMMA OthersStay ==
    ASSUME TypeInv, NEW w \in Worker, Receive(w) \/ Work(w) \/ FailCall(w) \/ Fail(w),
           NEW v \in Worker, v # w
    PROVE  pc'[v] = pc[v] /\ job'[v] = job[v]
BY DEF TypeInv, JobsInv, Work, Receive, Ignore, Look, Switch, RefuseOwner, StoreContributors,
       CallConcept, TreatConcept, KeepConcept, CallJournal, TreatJournal, KeepJournal, Store,
       StoreConflict, Clear, Contribute, ContributeFails, Announce, RefuseUnanswered, IndexRefuses, FailCall, Fail, Drops, Ends, Goes

\* The steps of a message between the search of its record and its end.
GoesOn(w) ==
    \/ StoreContributors(w) \/ CallConcept(w) \/ TreatConcept(w) \/ KeepConcept(w)
    \/ CallJournal(w) \/ TreatJournal(w) \/ KeepJournal(w)
    \/ Store(w) \/ Clear(w) \/ Contribute(w) \/ ContributeFails(w)

\* Such a step keeps the message, and whether it is a creation or an update.
LEMMA GoingOn ==
    ASSUME TypeInv, NEW w \in Worker, GoesOn(w)
    PROVE  /\ pc[w] \notin {"idle", "looking"} /\ pc'[w] \notin {"idle", "looking"}
           /\ job'[w].message = job[w].message /\ job'[w].mode = job[w].mode
           /\ UNCHANGED <<dropped, requeued>>
<1>1. /\ pc[w] \notin {"idle", "looking"} /\ pc'[w] \notin {"idle", "looking"}
      /\ UNCHANGED <<dropped, requeued>>
  BY DEF GoesOn, StoreContributors, CallConcept, TreatConcept, KeepConcept, CallJournal,
         TreatJournal, KeepJournal, Store, Clear, Contribute, ContributeFails, Goes, TypeInv,
         JobsInv, countVars, historyVars
<1>2. job[w] \in Jobs /\ job \in [Worker -> Jobs]
  BY DEF TypeInv, JobsInv
<1>3. job'[w].message = job[w].message /\ job'[w].mode = job[w].mode
  <2>1. CASE StoreContributors(w)
    <3>1. PICK failed, left : job' = [job EXCEPT ![w].flawed = failed # {}, ![w].left = left]
      BY <2>1 DEF StoreContributors
    <3>2. QED
      BY <1>2, <3>1 DEF Jobs
  <2>2. CASE KeepConcept(w)
    BY <1>2, <2>2 DEF KeepConcept, Jobs
  <2>3. CASE KeepJournal(w)
    BY <1>2, <2>3 DEF KeepJournal, Jobs
  <2>4. CASE Clear(w) \/ Contribute(w) \/ ContributeFails(w)
    <3>1. PICK left : job' = [job EXCEPT ![w].left = left]
      BY <2>4 DEF Clear, Contribute, ContributeFails
    <3>2. QED
      BY <1>2, <3>1 DEF Jobs
  <2>5. CASE CallConcept(w) \/ TreatConcept(w) \/ CallJournal(w) \/ TreatJournal(w) \/ Store(w)
    BY <2>5 DEF CallConcept, TreatConcept, CallJournal, TreatJournal, Store
  <2>6. QED
    BY <2>1, <2>2, <2>3, <2>4, <2>5 DEF GoesOn
<1>4. QED
  BY <1>1, <1>3

\* Records and people are never removed.
LEMMA RecordsStay ==
    ASSUME Next \/ UNCHANGED vars
    PROVE  records \subseteq records' /\ people' = people /\ unanswered \subseteq unanswered'
BY DEF Next, Work, Receive, Ignore, Look, Switch, RefuseOwner, StoreContributors,
       CallConcept, TreatConcept, KeepConcept, CallJournal, TreatJournal, KeepJournal, Store,
       StoreConflict, Clear, Contribute, ContributeFails, Announce, RefuseUnanswered, IndexRefuses, FailCall, Fail, Drops,
       recordVars, historyVars, vars

LEMMA FoundStep ==
    ASSUME TypeInv, \A v \in Worker : Found(v), NEW w \in Worker,
           Receive(w) \/ Work(w) \/ FailCall(w) \/ Fail(w)
    PROVE  Found(w)'
<1>0. records \subseteq records'
  BY RecordsStay DEF Next
<1>1. CASE Receive(w)
  <2>1. PICK m \in Message : job' = [job EXCEPT ![w] = [Job(m) EXCEPT !.mode = Mode(m)]]
    BY <1>1 DEF Receive
  <2>2. PICK j \in Jobs : j = [Job(m) EXCEPT !.mode = Mode(m)] /\ j.first = TRUE
    BY FreshJob
  <2>3. job'[w] = j /\ pc'[w] = "looking"
    BY <1>1, <2>1, <2>2 DEF Receive, Goes, TypeInv, JobsInv
  <2>4. QED
    BY <2>2, <2>3 DEF Found
<1>2. CASE Ends(w)
  BY <1>2 DEF Found, Ends, Goes, TypeInv, JobsInv
<1>3. CASE Look(w)
  <2>1. About(w) \in records \/ job[w].mode # "updated"
    BY <1>3 DEF Look, Expected
  <2>2. QED
    BY <1>0, <1>3, <2>1 DEF Found, Look, About
<1>4. CASE Switch(w)
  <2>1. CASE job[w].first
    <3>1. job'[w].message = job[w].message
      BY <1>4, <2>1 DEF Switch, TypeInv, JobsInv, Jobs
    <3>2. CASE job[w].mode = "created"
      <4>1. About(w) \in records
        BY <1>4, <3>2 DEF Switch, Expected
      <4>2. QED
        BY <1>0, <3>1, <4>1 DEF Found, About
    <3>3. CASE job[w].mode # "created"
      <4>1. job'[w].mode # "updated"
        BY <1>4, <2>1, <3>3 DEF Switch, TypeInv, JobsInv, Jobs
      <4>2. QED
        BY <4>1 DEF Found
    <3>4. QED
      BY <3>2, <3>3
  <2>2. CASE ~ job[w].first
    BY <1>2, <1>4, <2>2 DEF Switch, Drops
  <2>3. QED
    BY <2>1, <2>2
<1>5. CASE GoesOn(w)
  BY <1>0, <1>5, GoingOn DEF Found, About
<1>6. CASE FailCall(w)
  BY <1>0, <1>6 DEF FailCall, Found, About
<1>7. QED
  BY <1>1, <1>2, <1>3, <1>4, <1>5, <1>6 DEF Work, Ignore, Fail, RefuseOwner, StoreConflict, Drops,
     Announce, RefuseUnanswered, IndexRefuses, GoesOn

LEMMA DroppedNext == ASSUME DroppedInv, Next PROVE DroppedInv'
<1>0. PICK w \in Worker : Receive(w) \/ Work(w) \/ FailCall(w) \/ Fail(w)
  BY DEF Next
<1>1. TypeInv'
  BY TypeNext DEF DroppedInv
<1>2. \A v \in Worker : Found(v)
  BY DEF DroppedInv, Found
<1>3. records \subseteq records' /\ people' = people /\ unanswered \subseteq unanswered'
  BY RecordsStay
<1>4. ASSUME NEW v \in Worker PROVE Found(v)'
  <2>1. CASE v = w
    BY <1>0, <1>2, <2>1, FoundStep DEF DroppedInv
  <2>2. CASE v # w
    <3>1. pc'[v] = pc[v] /\ job'[v] = job[v]
      BY <1>0, <2>2, OthersStay DEF DroppedInv
    <3>2. QED
      BY <1>2, <1>3, <3>1 DEF Found, About
  <2>3. QED
    BY <2>1, <2>2
<1>5. DroppedHaveARecord'
  <2>1. CASE dropped' = dropped
    BY <1>3, <2>1 DEF DroppedInv, DroppedHaveARecord
  <2>2. CASE RefuseOwner(w)
    BY <1>3, <2>2 DEF RefuseOwner, Drops, DroppedInv, DroppedHaveARecord
  <2>3. CASE (Switch(w) /\ ~ job[w].first) \/ StoreConflict(w)
    <3>1. Drops(w) /\ ~ Expected(w) /\ pc[w] \in {"looking", "storing"}
      BY <2>3 DEF Switch, StoreConflict
    <3>2. CASE job[w].mode = "updated"
      <4>1. pc[w] # "idle" /\ (pc[w] # "looking" \/ ~ job[w].first)
        BY <2>3, <3>1 DEF StoreConflict
      <4>2. About(w) \in records
        BY <1>2, <3>2, <4>1 DEF Found
      <4>3. QED
        BY <3>1, <3>2, <4>2 DEF Expected
    <3>3. CASE job[w].mode # "updated"
      <4>1. About(w) \in records
        BY <3>1, <3>3 DEF Expected
      <4>2. dropped' = dropped \cup {job[w].message} /\ job[w].message.record \in records'
        BY <1>3, <3>1, <4>1 DEF Drops, About
      <4>3. QED
        BY <1>3, <4>2 DEF DroppedInv, DroppedHaveARecord
    <3>4. QED
      BY <3>2, <3>3
  <2>4. CASE GoesOn(w)
    BY <2>1, <2>4, GoingOn DEF DroppedInv
  <2>5. CASE \/ Receive(w) \/ Ignore(w) \/ Look(w) \/ (Switch(w) /\ job[w].first)
             \/ Announce(w) \/ IndexRefuses(w) \/ FailCall(w) \/ Fail(w)
    BY <2>1, <2>5 DEF Receive, Ignore, Look, Switch, Announce, IndexRefuses, FailCall, Fail,
       historyVars
  <2>6. CASE RefuseUnanswered(w)
    <3>1. job[w].message.journals # {}
      BY <2>6, JobsTyped DEF RefuseUnanswered, DroppedInv, TypeInv, Sane
    <3>2. /\ dropped' = dropped \cup {job[w].message}
          /\ unanswered' = unanswered \cup {job[w].message}
      BY <2>6 DEF RefuseUnanswered
    <3>3. QED
      BY <1>3, <3>1, <3>2 DEF DroppedInv, DroppedHaveARecord
  <2>7. QED
    BY <1>0, <2>2, <2>3, <2>4, <2>5, <2>6 DEF Work, GoesOn
<1>6. QED
  BY <1>1, <1>4, <1>5 DEF DroppedInv, Found

(***************************************************************************)
(* A message of a known person that was given up is about a record that    *)
(* exists, or about one of a journal for which the portal timed out: the   *)
(* search of the record, the switch from creation to update and back, and  *)
(* its storage agree on it although others store records in between, and   *)
(* no other failure on the way gives a message up.                         *)
(***************************************************************************)
THEOREM GivenUpHaveARecord == Spec => []DroppedHaveARecord
<1>1. Init => DroppedInv
  <2> SUFFICES ASSUME Init PROVE DroppedInv
    OBVIOUS
  <2>1. TypeInv
    BY TypeInit
  <2>2. QED
    BY <2>1 DEF Init, DroppedInv, DroppedHaveARecord, Found
<1>2. DroppedInv /\ UNCHANGED vars => DroppedInv'
  BY TypeUnchanged DEF vars, DroppedInv, DroppedHaveARecord, Found, About, recordVars, historyVars
<1>3. DroppedInv /\ [Next]_vars => DroppedInv'
  BY DroppedNext, <1>2
<1>4. DroppedInv => DroppedHaveARecord
  BY DEF DroppedInv
<1>5. QED
  BY <1>1, <1>3, <1>4, PTL DEF Spec

---------------------------------------------------------------------------
(* Labels of concepts. *)

OneEach(labels) == \A l, k \in labels : l[1] = k[1] => l = k

\* Labels that take the place of those of their languages.
LEMMA LabelsReplaced ==
    ASSUME NEW old, NEW new, OneEach(old), OneEach(new), NEW copy,
           copy = {l \in old : l[1] \notin C!LanguagesOf(new)} \cup new
    PROVE  /\ C!LanguagesOf(copy) = C!LanguagesOf(old) \cup C!LanguagesOf(new)
           /\ OneEach(copy)
           /\ (old \ (old \ copy)) \cup (copy \ old) = copy
<1>1. \A l : l \in copy <=> (l \in old /\ l[1] \notin C!LanguagesOf(new)) \/ l \in new
  OBVIOUS
<1>2. C!LanguagesOf(copy) \subseteq C!LanguagesOf(old) \cup C!LanguagesOf(new)
  BY <1>1 DEF C!LanguagesOf
<1>3. C!LanguagesOf(old) \subseteq C!LanguagesOf(copy)
  <2> SUFFICES ASSUME NEW l \in old PROVE l[1] \in C!LanguagesOf(copy)
    BY DEF C!LanguagesOf
  <2>1. CASE l[1] \in C!LanguagesOf(new)
    BY <1>1, <2>1 DEF C!LanguagesOf
  <2>2. CASE l[1] \notin C!LanguagesOf(new)
    BY <1>1, <2>2 DEF C!LanguagesOf
  <2>3. QED
    BY <2>1, <2>2
<1>4. C!LanguagesOf(new) \subseteq C!LanguagesOf(copy)
  BY <1>1 DEF C!LanguagesOf
<1>5. OneEach(copy)
  BY <1>1 DEF OneEach, C!LanguagesOf
<1>6. QED
  BY <1>2, <1>3, <1>4, <1>5

LEMMA SubjectsOneEach == \A s \in Subject : OneEach(s.pref)
BY CallsAssumption DEF C!ConceptsAssumption, OneEach

\* A step of a call keeps the copy it is to write.
LEMMA CopyStep ==
    ASSUME TypeInv, \A v \in Worker : Copied(v), NEW w \in Worker, C!Work(w) \/ C!Fail(w)
    PROVE  \A v \in Worker : Copied(v)'
<1>1. ASSUME NEW v \in Worker \ {w} PROVE Copied(v)'
  <2>1. conceptCall'[v] = conceptCall[v]
    BY DEF C!Work, C!Find, C!Create, C!Reread, C!Update, C!Fail, TypeInv, ConceptInv
  <2>2. QED
    BY <2>1 DEF Copied, Completed
<1>2. Copied(w)'
  <2>1. PICK call \in ConceptCalls : call = conceptCall[w]
    BY DEF TypeInv, ConceptInv
  <2>2. CASE C!Find(w) /\ C!Called(w) \in concepts /\ C!Called(w) \in WithUri
    <3>1. PICK found : found = prefLabels[C!Called(w)]
      OBVIOUS
    <3>2. PICK copy : copy = C!Merged([pref |-> found, alt |-> altLabels[C!Called(w)]], call.subject)
      OBVIOUS
    <3>3. conceptCall'[w] = [call EXCEPT !.at = "reading", !.found = found, !.copy = copy]
      BY <2>1, <2>2, <3>1, <3>2 DEF C!Find, TypeInv, ConceptInv
    <3>4. /\ conceptCall'[w].found = found /\ conceptCall'[w].copy = copy
          /\ conceptCall'[w].subject = call.subject
      BY <3>3 DEF ConceptCalls
    <3>5. copy.pref = {l \in found : l[1] \notin C!LanguagesOf(call.subject.pref)} \cup call.subject.pref
      BY <3>2 DEF C!Merged
    <3>6. QED
      BY <3>4, <3>5 DEF Copied, Completed
  <2>3. CASE C!Reread(w)
    <3>1. Completed(call) /\ call.at = "reading"
      BY <2>1, <2>3 DEF Copied, C!Reread
    <3>2. /\ conceptCall'[w].found = call.found /\ conceptCall'[w].copy = call.copy
          /\ conceptCall'[w].subject = call.subject
      BY <2>1, <2>3 DEF C!Reread, TypeInv, ConceptInv, ConceptCalls
    <3>3. QED
      BY <3>1, <3>2 DEF Copied, Completed
  <2>4. CASE \/ C!Find(w) /\ ~ (C!Called(w) \in concepts /\ C!Called(w) \in WithUri)
             \/ C!Create(w) \/ C!Update(w) \/ C!Fail(w)
    <3>1. conceptCall'[w].at \notin {"reading", "writing"}
      <4>1. CASE C!Find(w)
        <5>1. conceptCall'[w] = [call EXCEPT !.at = "creating"]
                \/ conceptCall'[w] = [call EXCEPT !.at = "returned"]
          BY <2>1, <2>4, <4>1 DEF C!Find, C!Create, C!Update, C!Fail, TypeInv, ConceptInv
        <5>2. QED
          BY <5>1 DEF ConceptCalls
      <4>2. CASE C!Create(w)
        BY <2>1, <4>2 DEF C!Create, TypeInv, ConceptInv, ConceptCalls
      <4>3. CASE C!Update(w)
        BY <2>1, <4>3 DEF C!Update, TypeInv, ConceptInv, ConceptCalls
      <4>4. CASE C!Fail(w)
        BY <2>1, <4>4 DEF C!Fail, TypeInv, ConceptInv, ConceptCalls
      <4>5. QED
        BY <2>4, <4>1, <4>2, <4>3, <4>4
    <3>2. QED
      BY <3>1 DEF Copied
  <2>5. QED
    BY <2>2, <2>3, <2>4 DEF C!Work
<1>3. QED
  BY <1>1, <1>2

\* A step of a call keeps one preferred label per language.
LEMMA LabelStep ==
    ASSUME TypeInv, OneLabelPerLanguage, NEW w \in Worker, Copied(w), C!Work(w) \/ C!Fail(w)
    PROVE  OneLabelPerLanguage'
<1>0. \A c \in concepts \ overwritten :
        C!LanguagesOf(prefLabels[c]) = languages[c] /\ OneEach(prefLabels[c])
  BY DEF OneLabelPerLanguage, C!OneLabelPerLanguage, OneEach
<1>1. PICK c \in Concept, s \in Subject : c = C!Called(w) /\ s = conceptCall[w].subject
  BY SubjectsTyped DEF TypeInv, ConceptInv, C!Called, C!Work, C!Find, C!Create, C!Reread, C!Update, C!Fail
<1>2. ASSUME NEW d \in concepts' \ overwritten'
      PROVE  C!LanguagesOf(prefLabels'[d]) = languages'[d] /\ OneEach(prefLabels'[d])
  <2>1. CASE C!Find(w) \/ C!Reread(w) \/ C!Fail(w) \/ (C!Create(w) /\ c \in concepts)
    BY <1>0, <1>1, <1>2, <2>1 DEF C!Find, C!Reread, C!Fail, C!Create
  <2>2. CASE C!Create(w) /\ c \notin concepts
    <3>1. /\ concepts' = concepts \cup {c} /\ overwritten' = overwritten
          /\ prefLabels' = [prefLabels EXCEPT ![c] = s.pref]
          /\ languages' = [languages EXCEPT ![c] = C!LanguagesOf(s.pref)]
      BY <1>1, <2>2 DEF C!Create
    <3>2. CASE d = c
      BY <1>1, <3>1, <3>2, SubjectsOneEach DEF TypeInv, ConceptInv
    <3>3. CASE d # c
      BY <1>0, <1>2, <3>1, <3>3 DEF TypeInv, ConceptInv
    <3>4. QED
      BY <3>2, <3>3
  <2>3. CASE C!Update(w)
    <3>1. PICK copy, read, found : /\ copy = conceptCall[w].copy.pref /\ read = conceptCall[w].read.pref
                                   /\ found = conceptCall[w].found
      OBVIOUS
    <3>2. /\ concepts' = concepts /\ conceptCall[w].at = "writing" /\ c \in concepts
          /\ prefLabels' = [prefLabels EXCEPT ![c] = (@ \ (read \ copy)) \cup (copy \ read)]
          /\ languages' = [languages EXCEPT ![c] = @ \cup C!LanguagesOf(s.pref)]
          /\ overwritten' = IF prefLabels[c] # found \/ read # found
                            THEN overwritten \cup {c} ELSE overwritten
      BY <1>1, <2>3, <3>1 DEF C!Update, TypeInv, ConceptInv
    <3>3. CASE d = c
      <4>1. c \notin overwritten /\ prefLabels[c] = found /\ read = found
        BY <1>2, <3>2, <3>3
      <4>2. copy = {l \in found : l[1] \notin C!LanguagesOf(s.pref)} \cup s.pref
        BY <1>1, <3>1, <3>2 DEF Copied, Completed
      <4>3. C!LanguagesOf(found) = languages[c] /\ OneEach(found) /\ OneEach(s.pref)
        BY <1>0, <3>2, <4>1, SubjectsOneEach
      <4>4. prefLabels'[d] = copy /\ languages'[d] = languages[c] \cup C!LanguagesOf(s.pref)
        <5>1. (found \ (found \ copy)) \cup (copy \ found) = copy
          BY <4>2, <4>3, LabelsReplaced
        <5>2. QED
          BY <3>2, <3>3, <4>1, <5>1 DEF TypeInv, ConceptInv
      <4>5. QED
        BY <4>2, <4>3, <4>4, LabelsReplaced
    <3>4. CASE d # c
      BY <1>0, <1>2, <3>2, <3>4 DEF TypeInv, ConceptInv
    <3>5. QED
      BY <3>3, <3>4
  <2>4. QED
    BY <2>1, <2>2, <2>3 DEF C!Work
<1>3. QED
  BY <1>2 DEF OneLabelPerLanguage, C!OneLabelPerLanguage, OneEach

\* What a step does to the concepts and their calls.
LEMMA ConceptChanges ==
    ASSUME TypeInv, NEW w \in Worker, Receive(w) \/ Work(w) \/ FailCall(w) \/ Fail(w)
    PROVE  \/ C!Work(w) \/ C!Fail(w) \/ UNCHANGED conceptVars
           \/ /\ UNCHANGED <<concepts, prefLabels, altLabels, languages, overwritten>>
              /\ conceptCall'[w].at \in {"none", "finding"}
              /\ \A v \in Worker \ {w} : conceptCall'[v] = conceptCall[v]
<1>1. CASE TreatConcept(w) \/ FailCall(w)
  BY <1>1 DEF TreatConcept, FailCall
<1>2. CASE CallConcept(w) \/ KeepConcept(w) \/ Fail(w)
  <2>1. PICK call : /\ conceptCall' = [conceptCall EXCEPT ![w] = call]
                    /\ call.at \in {"none", "finding"}
    <3>1. C!NoCall.at = "none" /\ \A s : C!Call(s).at = "finding"
      BY DEF C!Call, C!NoCall
    <3>2. \/ conceptCall' = [conceptCall EXCEPT ![w] = C!NoCall]
          \/ \E s : conceptCall' = [conceptCall EXCEPT ![w] = C!Call(s)]
      BY <1>2 DEF CallConcept, KeepConcept, Fail
    <3>3. QED
      BY <3>1, <3>2
  <2>2. QED
    BY <1>2, <2>1 DEF CallConcept, KeepConcept, Fail, TypeInv, ConceptInv
<1>3. CASE \/ Receive(w) \/ Ignore(w) \/ Look(w) \/ Switch(w) \/ RefuseOwner(w)
           \/ StoreContributors(w) \/ CallJournal(w) \/ TreatJournal(w) \/ KeepJournal(w) \/ Store(w)
           \/ StoreConflict(w) \/ Clear(w) \/ Contribute(w) \/ ContributeFails(w) \/ Announce(w)
           \/ RefuseUnanswered(w) \/ IndexRefuses(w)
  BY <1>3 DEF Receive, Ignore, Look, Switch, RefuseOwner, StoreContributors, CallJournal,
       TreatJournal, KeepJournal, Store, StoreConflict, Clear, Contribute, ContributeFails, Announce, RefuseUnanswered, IndexRefuses, Drops
<1>4. QED
  BY <1>1, <1>2, <1>3 DEF Work

LEMMA LabelUnchanged ==
    ASSUME LabelInv, UNCHANGED conceptVars
    PROVE  OneLabelPerLanguage' /\ \A v \in Worker : Copied(v)'
BY DEF LabelInv, conceptVars, OneLabelPerLanguage, C!OneLabelPerLanguage, Copied, Completed

LEMMA LabelNext == ASSUME LabelInv, Next PROVE LabelInv'
<1>1. PICK w \in Worker : Receive(w) \/ Work(w) \/ FailCall(w) \/ Fail(w)
  BY DEF Next
<1>2. TypeInv'
  BY TypeNext DEF LabelInv
<1>3. OneLabelPerLanguage' /\ \A v \in Worker : Copied(v)'
  <2>1. CASE C!Work(w) \/ C!Fail(w)
    BY <2>1, CopyStep, LabelStep DEF LabelInv
  <2>2. CASE UNCHANGED conceptVars
    BY <2>2, LabelUnchanged
  <2>3. CASE /\ UNCHANGED <<concepts, prefLabels, altLabels, languages, overwritten>>
             /\ conceptCall'[w].at \in {"none", "finding"}
             /\ \A v \in Worker \ {w} : conceptCall'[v] = conceptCall[v]
    <3>1. OneLabelPerLanguage'
      BY <2>3 DEF LabelInv, OneLabelPerLanguage, C!OneLabelPerLanguage
    <3>2. ASSUME NEW v \in Worker PROVE Copied(v)'
      <4>1. CASE v = w
        BY <2>3, <4>1 DEF Copied
      <4>2. CASE v # w
        BY <2>3, <4>2 DEF LabelInv, Copied, Completed
      <4>3. QED
        BY <4>1, <4>2
    <3>3. QED
      BY <3>1, <3>2
  <2>4. QED
    BY <1>1, <2>1, <2>2, <2>3, ConceptChanges DEF LabelInv
<1>4. QED
  BY <1>2, <1>3 DEF LabelInv

(***************************************************************************)
(* A concept that only one worker writes at a time keeps one preferred     *)
(* label for each language its records gave it, whatever their number:     *)
(* the update that compares two readings of the concept with a copy        *)
(* amounts to the replacement of the labels of these languages.            *)
(***************************************************************************)
THEOREM LabelsPerLanguage == Spec => []OneLabelPerLanguage
<1>1. Init => LabelInv
  <2> SUFFICES ASSUME Init PROVE LabelInv
    OBVIOUS
  <2>1. OneLabelPerLanguage
    BY DEF Init, C!Init, OneLabelPerLanguage, C!OneLabelPerLanguage
  <2>2. \A w \in Worker : Copied(w)
    BY DEF Init, C!Init, Copied, C!NoCall
  <2>3. QED
    BY <2>1, <2>2, TypeInit DEF LabelInv
<1>2. LabelInv /\ UNCHANGED vars => LabelInv'
  <2> SUFFICES ASSUME LabelInv, UNCHANGED vars PROVE LabelInv'
    OBVIOUS
  <2>1. UNCHANGED conceptVars
    BY DEF vars
  <2>2. QED
    BY <2>1, LabelUnchanged, TypeUnchanged DEF LabelInv
<1>3. LabelInv /\ [Next]_vars => LabelInv'
  BY LabelNext, <1>2
<1>4. LabelInv => OneLabelPerLanguage
  BY DEF LabelInv
<1>5. QED
  BY <1>1, <1>3, <1>4, PTL DEF Spec

---------------------------------------------------------------------------
(* Checks of ISSNs. *)

\* A step of a call that records no check leaves the journals as they are.
LEMMA JournalsKept ==
    ASSUME NEW w \in Worker, J!Work(w) \/ J!Fail(w), ~ J!Record(w)
    PROVE  UNCHANGED <<journals, issns, checked>>
BY DEF J!Work, J!Find, J!Store, J!ReadSource, J!CheckWithoutPage, J!TimesOut, J!CheckWithoutJournal,
       J!Check, J!Unanswered, J!Fail

LEMMA JournalsSettled ==
    ASSUME CheckedInv, UNCHANGED <<journals, issns, checked>>
    PROVE  CheckedHaveAJournal' /\ \A j \in journals' : FromPortal(j)'
BY DEF CheckedInv, CheckedHaveAJournal, J!CheckedHaveAJournal, FromPortal

(***************************************************************************)
(* A check replaces the ISSNs of a journal by the same ones, and forgets   *)
(* the time of no other ISSN.                                              *)
(***************************************************************************)
LEMMA RecordChecks ==
    ASSUME CheckedInv, WholeGroups, NEW w \in Worker, J!Record(w)
    PROVE  CheckedHaveAJournal' /\ \A j \in journals' : FromPortal(j)'
<1>1. PICK i \in DOMAIN Portal :
        \/ UNCHANGED <<journals, issns, checked>>
        \/ /\ journals' = journals \cup {Portal[i].journal}
           /\ issns' = [issns EXCEPT ![Portal[i].journal] = Portal[i].issns]
           /\ checked' = J!Stamped(w, i, Portal[i].issns)
  <2>1. journalCall[w].checking \subseteq DOMAIN Portal
    BY DEF CheckedInv, TypeInv, JournalInv, JournalCalls
  <2>2. QED
    BY <2>1 DEF J!Record
<1>2. CASE UNCHANGED <<journals, issns, checked>>
  BY <1>2, JournalsSettled
<1>3. CASE /\ journals' = journals \cup {Portal[i].journal}
           /\ issns' = [issns EXCEPT ![Portal[i].journal] = Portal[i].issns]
           /\ checked' = J!Stamped(w, i, Portal[i].issns)
  <2>1. PICK j \in Journal, group \in SUBSET Issn :
            j = Portal[i].journal /\ group = Portal[i].issns /\ i \in group
    BY CallsAssumption DEF J!JournalsAssumption
  <2>2. /\ journals' = journals \cup {j} /\ issns'[j] = group
        /\ \A k \in Journal \ {j} : issns'[k] = issns[k]
        /\ \A n \in checked' : n \in group \/ n \in checked
        /\ journals \subseteq Journal
    BY <1>3, <2>1 DEF J!Stamped, CheckedInv, TypeInv, JournalInv, J!TypeOK
  <2>3. \A n \in checked : \E k \in journals : n \in issns[k]
    BY DEF CheckedInv, CheckedHaveAJournal, J!CheckedHaveAJournal
  <2>4. \A k \in journals : FromPortal(k)
    BY DEF CheckedInv
  <2>5. j \in journals => issns[j] = group
    BY <2>1, <2>4 DEF FromPortal, WholeGroups
  <2>6. \A n \in checked' : \E k \in journals' : n \in issns'[k]
    BY <2>2, <2>3, <2>5
  <2>7. \A k \in journals' : FromPortal(k)'
    BY <2>1, <2>2, <2>4 DEF FromPortal
  <2>8. QED
    BY <2>6, <2>7 DEF CheckedHaveAJournal, J!CheckedHaveAJournal
<1>4. QED
  BY <1>1, <1>2, <1>3

LEMMA CheckedNext == ASSUME WholeGroups, CheckedInv, Next PROVE CheckedInv'
<1>1. PICK w \in Worker : Receive(w) \/ Work(w) \/ FailCall(w) \/ Fail(w)
  BY DEF Next
<1>2. TypeInv'
  BY TypeNext DEF CheckedInv
<1>3. CASE TreatJournal(w) \/ FailCall(w)
  <2>1. J!Work(w) \/ J!Fail(w) \/ UNCHANGED journalVars
    BY <1>3 DEF TreatJournal, FailCall
  <2>2. QED
    BY <1>2, <2>1, RecordChecks, JournalsKept, JournalsSettled DEF CheckedInv, journalVars
<1>4. CASE ~ (TreatJournal(w) \/ FailCall(w))
  <2>1. UNCHANGED <<journals, issns, checked>>
    BY <1>1, <1>4 DEF Work, Receive, Ignore, Look, Switch, RefuseOwner, StoreContributors,
       CallConcept, TreatConcept, KeepConcept, CallJournal, KeepJournal, Store, StoreConflict, Clear,
       Contribute, ContributeFails, Announce, RefuseUnanswered, IndexRefuses, Fail, Drops, journalVars
  <2>2. QED
    BY <1>2, <2>1, JournalsSettled DEF CheckedInv
<1>5. QED
  BY <1>3, <1>4

(***************************************************************************)
(* If the portal answers the same of all the ISSNs of a journal, an ISSN   *)
(* recorded as checked leads to a journal, although workers record checks  *)
(* of the same ISSNs with times read before those of the others.           *)
(***************************************************************************)
THEOREM ChecksHaveAJournal == ASSUME WholeGroups PROVE Spec => []CheckedHaveAJournal
<1>1. Init => CheckedInv
  <2> SUFFICES ASSUME Init PROVE CheckedInv
    OBVIOUS
  <2>1. journals = {} /\ checked = {}
    BY DEF Init, J!Init
  <2>2. QED
    BY <2>1, TypeInit DEF CheckedInv, CheckedHaveAJournal, J!CheckedHaveAJournal
<1>2. CheckedInv /\ UNCHANGED vars => CheckedInv'
  <2> SUFFICES ASSUME CheckedInv, UNCHANGED vars PROVE CheckedInv'
    OBVIOUS
  <2>1. UNCHANGED <<journals, issns, checked>>
    BY DEF vars, journalVars
  <2>2. QED
    BY <2>1, JournalsSettled, TypeUnchanged DEF CheckedInv
<1>3. CheckedInv /\ [Next]_vars => CheckedInv'
  BY CheckedNext, <1>2
<1>4. CheckedInv => CheckedHaveAJournal
  BY DEF CheckedInv
<1>5. QED
  BY <1>1, <1>3, <1>4, PTL DEF Spec

---------------------------------------------------------------------------
(* Signals. *)

\* Past the search of its record, a worker keeps what it is to tell.
LEMMA TellingGoesOn ==
    ASSUME TypeInv, NEW w \in Worker, GoesOn(w) \/ FailCall(w), NEW r, Telling(w, r)
    PROVE  Telling(w, r)'
<1>1. people' = people
  BY RecordsStay DEF Next, Work, GoesOn
<1>2. CASE FailCall(w)
  BY <1>1, <1>2 DEF FailCall, Telling, About
<1>3. CASE GoesOn(w)
  <2>1. /\ pc[w] \notin {"idle", "looking"} /\ pc'[w] \notin {"idle", "looking"}
        /\ job'[w].message = job[w].message /\ job'[w].mode = job[w].mode
    BY <1>3, GoingOn
  <2>2. pc[w] \in Filled => pc'[w] \in Filled
    BY <1>3 DEF GoesOn, StoreContributors, CallConcept, TreatConcept, KeepConcept, CallJournal,
         TreatJournal, KeepJournal, Store, Clear, Contribute, ContributeFails, Goes, TypeInv,
         JobsInv, Filled
  <2>3. QED
    BY <1>1, <2>1, <2>2 DEF Telling, About
<1>4. QED
  BY <1>2, <1>3

(***************************************************************************)
(* A worker that is to tell of a record that exists goes on to do so,      *)
(* tells, or fails and leaves its message to be delivered again, unless it *)
(* is refused.                                                             *)
(***************************************************************************)
LEMMA TellingStep ==
    ASSUME TypeInv, NEW w \in Worker, Receive(w) \/ Work(w) \/ FailCall(w) \/ Fail(w),
           NEW r \in records, Telling(w, r), r \in unannounced' \ silenced'
    PROVE  Telling(w, r)' \/ Comes(r)'
<1>1. /\ pc[w] # "idle" /\ About(w) = r /\ job[w].message.owner \in people /\ people' = people
      /\ job[w].message \in Message /\ Sane(pc[w], job[w])
  BY RecordsStay, JobsTyped DEF Telling, Next, TypeInv
<1>2. CASE Receive(w)
  BY <1>1, <1>2 DEF Receive
<1>3. CASE Ignore(w)
  BY <1>3 DEF Ignore, Telling, Filled
<1>4. CASE Look(w)
  <2>1. job[w].mode = "updated"
    BY <1>1, <1>4 DEF Look, Expected
  <2>2. QED
    BY <1>1, <1>4, <2>1 DEF Look, Goes, Telling, TypeInv, JobsInv, About
<1>5. CASE Switch(w)
  <2>1. pc[w] = "looking" /\ job[w].mode = "created" /\ job[w].first
    BY <1>1, <1>5 DEF Switch, Expected, Telling, Filled
  <2>2. /\ job' = [job EXCEPT ![w].first = FALSE,
                              ![w].mode = IF @ = "created" THEN "updated" ELSE "created"]
        /\ pc' = pc
    BY <1>5, <2>1 DEF Switch
  <2>3. job'[w].mode = "updated" /\ job'[w].message = job[w].message
    BY <2>1, <2>2 DEF TypeInv, JobsInv, Jobs
  <2>4. QED
    BY <1>1, <2>2, <2>3 DEF Telling, About
<1>6. CASE RefuseOwner(w)
  BY <1>1, <1>6 DEF RefuseOwner
<1>7. CASE StoreConflict(w)
  BY <1>1, <1>7 DEF StoreConflict, Expected, Telling, Filled
<1>8. CASE GoesOn(w) \/ FailCall(w)
  BY <1>8, TellingGoesOn
<1>9. CASE Announce(w) \/ RefuseUnanswered(w) \/ IndexRefuses(w)
  BY <1>1, <1>9 DEF Announce, RefuseUnanswered, IndexRefuses, Silences, Told
<1>10. CASE Fail(w)
  <2>1. job[w].mode # "unchanged"
    BY <1>1 DEF Telling, Sane, Filled
  <2>2. job[w].message.event # "unchanged"
    BY <1>1, <2>1 DEF Sane
  <2>3. job[w].message \in requeued' /\ job[w].message.record = r
    BY <1>1, <1>10 DEF Fail, About
  <2>4. QED
    BY <1>1, <2>2, <2>3 DEF Comes
<1>11. QED
  BY <1>2, <1>3, <1>4, <1>5, <1>6, <1>7, <1>8, <1>9, <1>10 DEF Work, GoesOn

\* A message that comes again is received by a worker that is to tell of its record.
LEMMA ComesStep ==
    ASSUME TypeInv, NEW w \in Worker, Receive(w) \/ Work(w) \/ FailCall(w) \/ Fail(w),
           NEW r, Comes(r)
    PROVE  Telling(w, r)' \/ Comes(r)'
<1>1. people' = people
  BY RecordsStay DEF Next
<1>2. CASE requeued \subseteq requeued'
  BY <1>1, <1>2 DEF Comes
<1>3. CASE Receive(w)
  <2>1. PICK m \in Message :
        /\ \/ m \in requeued /\ requeued' = requeued \ {m}
           \/ requeued' = requeued
        /\ job' = [job EXCEPT ![w] = [Job(m) EXCEPT !.mode = Mode(m)]]
    BY <1>3 DEF Receive
  <2>2. PICK n \in requeued : n.record = r /\ n.event # "unchanged" /\ n.owner \in people
    BY DEF Comes
  <2>3. CASE n # m
    BY <1>1, <2>1, <2>2, <2>3 DEF Comes
  <2>4. CASE n = m
    <3>1. PICK j \in Jobs : /\ j = [Job(m) EXCEPT !.mode = Mode(m)]
                            /\ j.message = m /\ j.mode = Mode(m) /\ j.first = TRUE
      BY FreshJob
    <3>2. job'[w] = j /\ pc'[w] = "looking"
      BY <1>3, <2>1, <3>1 DEF Receive, Goes, TypeInv, JobsInv
    <3>3. Mode(m) \in {"created", "updated"}
      BY <2>2, <2>4, MessagesTyped DEF Mode
    <3>4. QED
      BY <1>1, <2>2, <2>4, <3>1, <3>2, <3>3 DEF Telling, About
  <2>5. QED
    BY <2>3, <2>4
<1>4. CASE GoesOn(w)
  BY <1>2, <1>4, GoingOn
<1>5. CASE \/ Ignore(w) \/ Look(w) \/ Switch(w) \/ RefuseOwner(w) \/ StoreConflict(w)
           \/ Announce(w) \/ RefuseUnanswered(w) \/ IndexRefuses(w) \/ FailCall(w) \/ Fail(w)
  BY <1>2, <1>5 DEF Ignore, Look, Switch, RefuseOwner, StoreConflict, Announce, RefuseUnanswered,
       IndexRefuses, FailCall, Fail, Drops, countVars
<1>6. QED
  BY <1>3, <1>4, <1>5 DEF Work, GoesOn

LEMMA ToldNext == ASSUME ToldInv, Next PROVE ToldInv'
<1>1. PICK w \in Worker : Receive(w) \/ Work(w) \/ FailCall(w) \/ Fail(w)
  BY DEF Next
<1>2. TypeInv'
  BY TypeNext DEF ToldInv
<1>3. ASSUME NEW r \in unannounced' \ silenced'
      PROVE  Comes(r)' \/ \E v \in Worker : Telling(v, r)'
  <2>1. CASE r \notin unannounced \ silenced
    <3>1. (Store(w) \/ Contribute(w)) /\ r = About(w)
      BY <1>1, <1>3, <2>1 DEF Work, Receive, Ignore, Look, Switch, RefuseOwner, StoreContributors,
         CallConcept, TreatConcept, KeepConcept, CallJournal, TreatJournal, KeepJournal, Store,
         StoreConflict, Clear, Contribute, ContributeFails, Announce, RefuseUnanswered, IndexRefuses, FailCall, Fail, Drops, Told, Silences,
         historyVars
    <3>2. pc'[w] \in Filled /\ About(w)' = r
      BY <3>1, GoingOn DEF GoesOn, Store, Contribute, Goes, ToldInv, TypeInv, JobsInv, Filled, About
    <3>3. job'[w].message.owner \in people'
      BY <1>2, <3>2 DEF TypeInv, JobsInv, Backed, Filled
    <3>4. Telling(w, r)'
      BY <3>2, <3>3 DEF Telling, Filled
    <3>5. QED
      BY <3>4
  <2>2. CASE r \in unannounced \ silenced /\ Comes(r)
    BY <1>1, <2>2, ComesStep DEF ToldInv
  <2>3. ASSUME NEW v \in Worker, r \in unannounced \ silenced, Telling(v, r)
        PROVE  Comes(r)' \/ \E u \in Worker : Telling(u, r)'
    <3>1. r \in records
      BY <2>3 DEF ToldInv, TypeInv, CountInv
    <3>2. CASE v = w
      BY <1>1, <1>3, <2>3, <3>1, <3>2, TellingStep DEF ToldInv
    <3>3. CASE v # w
      <4>1. pc'[v] = pc[v] /\ job'[v] = job[v] /\ people' = people
        BY <1>1, <3>3, OthersStay, RecordsStay DEF ToldInv
      <4>2. Telling(v, r)'
        BY <2>3, <4>1 DEF Telling, About
      <4>3. QED
        BY <4>2
    <3>4. QED
      BY <3>2, <3>3
  <2>4. QED
    BY <2>1, <2>2, <2>3 DEF ToldInv
<1>4. QED
  BY <1>2, <1>3 DEF ToldInv

(***************************************************************************)
(* The equivalence service is told of every record after the last change   *)
(* of it, if no message that was to tell it is refused: whenever a record  *)
(* changed since the last signal, a worker that will give the signal is at *)
(* work on it, or the message of one that failed is to be delivered again, *)
(* and only a timeout of the portal or an error of the search index makes  *)
(* either be given up.                                                     *)
(***************************************************************************)
THEOREM SignalFollowsChange == Spec => []ToldAfterLastChange
<1>1. Init => ToldInv
  <2> SUFFICES ASSUME Init PROVE ToldInv
    OBVIOUS
  <2>1. unannounced = {}
    BY DEF Init
  <2>2. QED
    BY <2>1, TypeInit DEF ToldInv
<1>2. ToldInv /\ UNCHANGED vars => ToldInv'
  BY TypeUnchanged DEF vars, ToldInv, Comes, Telling, About, countVars, historyVars
<1>3. ToldInv /\ [Next]_vars => ToldInv'
  BY ToldNext, <1>2
<1>4. ToldInv => ToldAfterLastChange
  <2> SUFFICES ASSUME ToldInv, NEW r \in unannounced \ silenced PROVE ~ Settled(r)
    BY DEF ToldAfterLastChange
  <2>1. CASE Comes(r)
    BY <2>1 DEF Comes, Settled
  <2>2. CASE \E w \in Worker : Telling(w, r)
    BY <2>2 DEF Telling, Settled, Busy
  <2>3. QED
    BY <2>1, <2>2 DEF ToldInv
<1>5. QED
  BY <1>1, <1>3, <1>4, PTL DEF Spec

---------------------------------------------------------------------------
(* What a worker gathered for its record. *)

\* The first of the subjects that are left, and the others.
LEMMA ConceptsSplit ==
    ASSUME NEW S, NEW s \in Seq(S), s # <<>>
    PROVE  ConceptsOf(s) = {Head(s).concept} \cup ConceptsOf(Tail(s))
<1>1. /\ Len(s) \in Nat \ {0} /\ DOMAIN s = 1 .. Len(s) /\ Head(s) = s[1]
      /\ DOMAIN Tail(s) = 1 .. Len(s) - 1
      /\ \A n \in 1 .. Len(s) - 1 : Tail(s)[n] = s[n + 1]
  BY HeadTailProperties, LenProperties, EmptySeq
<1>2. Range(s) = {Head(s)} \cup Range(Tail(s))
  <2>1. ASSUME NEW n \in DOMAIN s, n # 1 PROVE s[n] \in Range(Tail(s))
    <3>1. n - 1 \in 1 .. Len(s) - 1 /\ Tail(s)[n - 1] = s[n]
      BY <1>1, <2>1
    <3>2. QED
      BY <1>1, <3>1 DEF Range
  <2>2. ASSUME NEW n \in DOMAIN Tail(s) PROVE Tail(s)[n] \in Range(s)
    <3>1. n + 1 \in 1 .. Len(s) /\ Tail(s)[n] = s[n + 1]
      BY <1>1, <2>2
    <3>2. QED
      BY <1>1, <3>1 DEF Range
  <2>3. Head(s) \in Range(s)
    BY <1>1 DEF Range
  <2>4. Range(s) \subseteq {Head(s)} \cup Range(Tail(s))
    BY <1>1, <2>1 DEF Range
  <2>5. Range(Tail(s)) \subseteq Range(s)
    BY <2>2 DEF Range
  <2>6. QED
    BY <2>3, <2>4, <2>5
<1>3. QED
  BY <1>2 DEF ConceptsOf

LEMMA NoConcepts == ConceptsOf(<<>>) = {}
BY DEF ConceptsOf, Range

\* The same of contributions.
LEMMA PresentRest ==
    ASSUME NEW s \in Seq(Contribution), s # <<>>, Present(s)
    PROVE  /\ Present(Tail(s)) /\ Head(s).contributor \in sourcePeople
           /\ Head(s).affiliations \subseteq sourceOrganizations
<1>1. /\ Len(s) \in Nat \ {0} /\ DOMAIN s = 1 .. Len(s) /\ Head(s) = s[1]
      /\ DOMAIN Tail(s) = 1 .. Len(s) - 1
      /\ \A n \in 1 .. Len(s) - 1 : Tail(s)[n] = s[n + 1]
  BY HeadTailProperties, LenProperties, EmptySeq
<1>2. Head(s) \in Range(s)
  BY <1>1 DEF Range
<1>3. ASSUME NEW c \in Range(Tail(s)) PROVE c \in Range(s)
  <2>1. PICK n \in 1 .. Len(s) - 1 : c = Tail(s)[n]
    BY <1>1 DEF Range
  <2>2. n + 1 \in DOMAIN s /\ c = s[n + 1]
    BY <1>1, <2>1
  <2>3. QED
    BY <2>2 DEF Range
<1>4. QED
  BY <1>2, <1>3 DEF Present

\* Source people and organizations are never removed.
LEMMA SourcesStay ==
    ASSUME Next \/ UNCHANGED vars
    PROVE  sourcePeople \subseteq sourcePeople' /\ sourceOrganizations \subseteq sourceOrganizations'
BY DEF Next, Work, Receive, Ignore, Look, Switch, RefuseOwner, StoreContributors, StoredPeople,
       StoredOrganizations, CallConcept, TreatConcept, KeepConcept, CallJournal, TreatJournal,
       KeepJournal, Store, StoreConflict, Clear, Contribute, ContributeFails, Announce, RefuseUnanswered, IndexRefuses, FailCall, Fail,
       Drops, sourceVars, vars

LEMMA StaysPresent ==
    ASSUME NEW cs, Present(cs), sourcePeople \subseteq sourcePeople',
           sourceOrganizations \subseteq sourceOrganizations'
    PROVE  Present(cs)'
BY DEF Present

\* The calls of the others stay.
LEMMA CallsStay ==
    ASSUME TypeInv, NEW w \in Worker, Receive(w) \/ Work(w) \/ FailCall(w) \/ Fail(w),
           NEW v \in Worker, v # w
    PROVE  conceptCall'[v] = conceptCall[v] /\ journalCall'[v] = journalCall[v]
<1>1. conceptCall'[v] = conceptCall[v]
  BY ConceptChanges DEF C!Work, C!Find, C!Create, C!Reread, C!Update, C!Fail, TypeInv, ConceptInv,
     conceptVars
<1>2. ASSUME J!Work(w) \/ J!Fail(w) PROVE journalCall'[v] = journalCall[v]
  BY <1>2 DEF J!Work, J!Find, J!Store, J!ReadSource, J!CheckWithoutPage, J!TimesOut,
     J!CheckWithoutJournal, J!Check, J!Record, J!Fail, J!Goes, J!Treated, TypeInv, JournalInv
<1>3. journalCall'[v] = journalCall[v]
  BY <1>2 DEF Work, Receive, Ignore, Look, Switch, RefuseOwner, StoreContributors,
       CallConcept, TreatConcept, KeepConcept, CallJournal, TreatJournal, KeepJournal, Store,
       StoreConflict, Clear, Contribute, ContributeFails, Announce, RefuseUnanswered, IndexRefuses, FailCall, Fail, Drops,
       journalVars, TypeInv, JournalInv
<1>4. QED
  BY <1>1, <1>3

\* A step of a call keeps its subject, or its journal.
LEMMA CallsKeep ==
    ASSUME TypeInv, NEW w \in Worker
    PROVE  /\ (C!Work(w) \/ C!Fail(w)) =>
                conceptCall[w].at # "none" /\ conceptCall'[w].subject = conceptCall[w].subject
           /\ (J!Work(w) \/ J!Fail(w)) =>
                journalCall[w].at # "none" /\ journalCall'[w].journal = journalCall[w].journal
<1>1. ASSUME C!Work(w) \/ C!Fail(w)
      PROVE  conceptCall[w].at # "none" /\ conceptCall'[w].subject = conceptCall[w].subject
  <2>1. PICK call \in ConceptCalls : call = conceptCall[w]
    BY DEF TypeInv, ConceptInv
  <2>2. CASE C!Find(w)
    BY <2>1, <2>2 DEF C!Find, TypeInv, ConceptInv, ConceptCalls
  <2>3. CASE C!Create(w) \/ C!Reread(w) \/ C!Update(w) \/ C!Fail(w)
    BY <2>1, <2>3 DEF C!Create, C!Reread, C!Update, C!Fail, TypeInv, ConceptInv, ConceptCalls
  <2>4. QED
    BY <1>1, <2>2, <2>3 DEF C!Work
<1>2. ASSUME J!Work(w) \/ J!Fail(w)
      PROVE  journalCall[w].at # "none" /\ journalCall'[w].journal = journalCall[w].journal
  <2>1. PICK call \in JournalCalls : call = journalCall[w]
    BY DEF TypeInv, JournalInv
  <2>2. ASSUME NEW place, journalCall' = [journalCall EXCEPT ![w] = [call EXCEPT !.at = place]]
        PROVE  journalCall'[w].journal = call.journal
    BY <2>2 DEF TypeInv, JournalInv, JournalCalls
  <2>3. ASSUME NEW place, J!Goes(w, place) PROVE journalCall'[w].journal = call.journal
    BY <2>1, <2>2, <2>3 DEF J!Goes
  <2>4. ASSUME NEW i, J!Treated(w, i) PROVE journalCall'[w].journal = call.journal
    BY <2>1, <2>4 DEF J!Treated, TypeInv, JournalInv, JournalCalls
  <2>5. CASE J!Find(w)
    <3>1. PICK b : b = (journalCall[w].journal \in sourceJournals)
      OBVIOUS
    <3>2. journalCall' = [journalCall EXCEPT ![w].at = "storing", ![w].exists = b]
      BY <2>5, <3>1 DEF J!Find
    <3>3. QED
      BY <2>1, <2>5, <3>2 DEF J!Find, TypeInv, JournalInv, JournalCalls
  <2>6. CASE J!ReadSource(w)
    <3>1. PICK place, left : journalCall' = [journalCall EXCEPT ![w].at = place, ![w].left = left]
      BY <2>6 DEF J!ReadSource
    <3>2. QED
      BY <2>1, <2>6, <3>1 DEF J!ReadSource, TypeInv, JournalInv, JournalCalls
  <2>7. CASE J!Store(w)
    BY <2>1, <2>3, <2>7 DEF J!Store
  <2>8. CASE J!CheckWithoutPage(w)
    BY <2>1, <2>4, <2>8 DEF J!CheckWithoutPage
  <2>9. CASE J!CheckWithoutJournal(w) \/ J!TimesOut(w) \/ J!Fail(w)
    BY <2>1, <2>3, <2>9 DEF J!CheckWithoutJournal, J!TimesOut, J!Fail
  <2>10. CASE J!Check(w)
    <3>1. PICK checking, exists, stamped : journalCall' = [journalCall EXCEPT
            ![w].at = "recording", ![w].checking = checking, ![w].exists = exists, ![w].stamped = stamped]
      BY <2>10 DEF J!Check
    <3>2. QED
      BY <2>1, <2>10, <3>1 DEF J!Check, TypeInv, JournalInv, JournalCalls
  <2>11. CASE J!Record(w)
    <3>1. (\E i : J!Treated(w, i)) \/ J!Goes(w, "failed")
      BY <2>11 DEF J!Record
    <3>2. QED
      BY <2>1, <2>3, <2>4, <2>11, <3>1 DEF J!Record
  <2>12. QED
    BY <1>2, <2>5, <2>6, <2>7, <2>8, <2>9, <2>10, <2>11 DEF J!Work
<1>3. QED
  BY <1>1, <1>2

\* A worker that is not looking up, gathering or storing has nothing to gather.
LEMMA GatheredElsewhere ==
    ASSUME NEW w \in Worker, pc[w] \notin {"looking", "checking", "subjects", "journal", "storing"},
           conceptCall[w].at = "none", journalCall[w].at = "none"
    PROVE  Gathered(w)
BY DEF Gathered

\* Steps of other workers.
LEMMA GatheredStays ==
    ASSUME NEW v \in Worker, Gathered(v), pc'[v] = pc[v], job'[v] = job[v],
           conceptCall'[v].at # "none" =>
                conceptCall[v].at # "none" /\ conceptCall'[v].subject = conceptCall[v].subject,
           journalCall'[v].at # "none" =>
                journalCall[v].at # "none" /\ journalCall'[v].journal = journalCall[v].journal,
           sourcePeople \subseteq sourcePeople', sourceOrganizations \subseteq sourceOrganizations'
    PROVE  Gathered(v)'
<1>1. PICK place, j : place = pc[v] /\ j = job[v]
  OBVIOUS
<1>2. Present(j.message.contributions) => Present(j.message.contributions)'
  BY StaysPresent
<1>3. QED
  BY <1>1, <1>2 DEF Gathered

\* A worker that receives a message, or is done with it.
LEMMA GatheredAtEnds ==
    ASSUME TypeInv, NEW w \in Worker, Gathered(w),
           Receive(w) \/ Ignore(w) \/ Look(w) \/ Switch(w) \/ RefuseOwner(w) \/ StoreConflict(w)
           \/ Announce(w) \/ IndexRefuses(w) \/ RefuseUnanswered(w) \/ Fail(w)
    PROVE  Gathered(w)'
<1>1. pc[w] \notin {"subjects", "journal"} => conceptCall[w].at = "none" /\ journalCall[w].at = "none"
  BY DEF Gathered
<1>2. CASE Fail(w)
  <2>1. C!NoCall.at = "none" /\ J!NoCall.at = "none"
    BY DEF C!NoCall, J!NoCall
  <2>2. pc'[w] = "idle" /\ conceptCall'[w].at = "none" /\ journalCall'[w].at = "none"
    BY <1>2, <2>1 DEF Fail, Ends, Goes, TypeInv, JobsInv, ConceptInv, JournalInv
  <2>3. QED
    BY <2>2 DEF Gathered
<1>3. CASE Receive(w)
  <2>1. PICK m \in Message : job' = [job EXCEPT ![w] = [Job(m) EXCEPT !.mode = Mode(m)]]
    BY <1>3 DEF Receive
  <2>2. PICK j \in Jobs : /\ j = [Job(m) EXCEPT !.mode = Mode(m)]
                          /\ j.subjects = {} /\ j.journals = {}
    BY FreshJob
  <2>3. /\ job'[w] = j /\ pc'[w] = "looking" /\ pc[w] = "idle"
        /\ UNCHANGED <<conceptCall, journalCall>>
    BY <1>3, <2>1, <2>2 DEF Receive, Goes, TypeInv, JobsInv, conceptVars, journalVars
  <2>4. QED
    BY <1>1, <2>2, <2>3 DEF Gathered
<1>4. CASE Look(w)
  <2>1. /\ job'[w] = job[w] /\ pc'[w] = "checking" /\ pc[w] = "looking"
        /\ UNCHANGED <<conceptCall, journalCall>>
    BY <1>4 DEF Look, Goes, TypeInv, JobsInv, conceptVars, journalVars
  <2>2. QED
    BY <1>1, <2>1 DEF Gathered
<1>5. CASE Switch(w) /\ job[w].first
  <2>1. /\ pc[w] = "looking" /\ UNCHANGED <<pc, conceptCall, journalCall>>
        /\ job' = [job EXCEPT ![w].first = FALSE,
                              ![w].mode = IF @ = "created" THEN "updated" ELSE "created"]
    BY <1>5 DEF Switch, conceptVars, journalVars
  <2>2. job'[w].subjects = job[w].subjects /\ job'[w].journals = job[w].journals
    BY <2>1 DEF TypeInv, JobsInv, Jobs
  <2>3. QED
    BY <1>1, <2>1, <2>2 DEF Gathered
<1>6. CASE \/ Ignore(w) \/ (Switch(w) /\ ~ job[w].first) \/ RefuseOwner(w) \/ StoreConflict(w)
           \/ Announce(w) \/ IndexRefuses(w)
  <2>1. /\ pc[w] \in {"looking", "checking", "storing", "contributing"} /\ Ends(w)
        /\ UNCHANGED <<conceptCall, journalCall>>
    BY <1>6 DEF Ignore, Switch, RefuseOwner, StoreConflict, Announce, IndexRefuses, Drops,
       conceptVars, journalVars
  <2>2. pc'[w] = "idle" /\ conceptCall'[w].at = "none" /\ journalCall'[w].at = "none"
    BY <1>1, <2>1 DEF Ends, Goes, TypeInv, JobsInv
  <2>3. QED
    BY <2>2 DEF Gathered
<1>7. CASE RefuseUnanswered(w)
  <2>1. J!NoCall.at = "none" /\ conceptCall[w].at = "none"
    BY <1>7 DEF J!NoCall, RefuseUnanswered, Gathered
  <2>2. pc'[w] = "idle" /\ conceptCall'[w].at = "none" /\ journalCall'[w].at = "none"
    BY <1>7, <2>1 DEF RefuseUnanswered, Ends, Goes, TypeInv, JobsInv, JournalInv, conceptVars
  <2>3. QED
    BY <2>2 DEF Gathered
<1>8. QED
  BY <1>2, <1>3, <1>4, <1>5, <1>6, <1>7

\* The people and organizations of a message were all stored.
LEMMA GatheredContributors ==
    ASSUME TypeInv, NEW w \in Worker, Gathered(w), StoreContributors(w)
    PROVE  Gathered(w)'
<1>1. PICK m \in Message, j \in Jobs : j = job[w] /\ m = j.message
  BY JobsTyped DEF TypeInv, StoreContributors
<1>2. PICK failed :
        /\ failed = {} => /\ sourcePeople' = sourcePeople \cup Contributors(m)
                          /\ sourceOrganizations' = sourceOrganizations \cup Affiliations(m)
        /\ job' = [job EXCEPT ![w].flawed = failed # {}, ![w].left = m.subjects]
  BY <1>1 DEF StoreContributors, StoredPeople, StoredOrganizations
<1>3. PICK flawed \in BOOLEAN : flawed = (failed # {})
  BY Zenon
<1>4. job' = [job EXCEPT ![w].flawed = flawed, ![w].left = m.subjects]
  BY <1>2, <1>3
<1>5. /\ job'[w].message = m /\ job'[w].left = m.subjects /\ job'[w].flawed = flawed
      /\ job'[w].subjects = j.subjects /\ job'[w].journals = j.journals
  BY <1>1, <1>4 DEF TypeInv, JobsInv, Jobs
<1>6. /\ pc[w] = "checking" /\ pc'[w] = "subjects" /\ UNCHANGED <<conceptCall, journalCall>>
      /\ j.subjects = {} /\ j.journals = {} /\ conceptCall[w].at = "none" /\ journalCall[w].at = "none"
  BY <1>1 DEF StoreContributors, Goes, TypeInv, JobsInv, conceptVars, journalVars, Gathered
<1>7. ~ flawed => Present(m.contributions)'
  <2>1. ASSUME ~ flawed, NEW c \in Range(m.contributions)
        PROVE  c.contributor \in sourcePeople' /\ c.affiliations \subseteq sourceOrganizations'
    <3>1. c.contributor \in Contributors(m) /\ c.affiliations \subseteq Affiliations(m)
      BY DEF Contributors, Affiliations
    <3>2. QED
      BY <1>2, <1>3, <2>1, <3>1
  <2>2. QED
    BY <2>1 DEF Present
<1>8. QED
  BY <1>5, <1>6, <1>7 DEF Gathered

\* The subjects of a message are gathered one after the other.
LEMMA GatheredConcepts ==
    ASSUME TypeInv, NEW w \in Worker, Gathered(w), CallConcept(w) \/ TreatConcept(w) \/ KeepConcept(w)
    PROVE  Gathered(w)'
<1>1. PICK m \in Message, j \in Jobs : j = job[w] /\ m = j.message
  BY JobsTyped DEF TypeInv, CallConcept, TreatConcept, KeepConcept
<1>2. /\ UNCHANGED <<pc, journalCall, sourceVars>> /\ pc[w] = "subjects"
      /\ j.journals = {} /\ journalCall[w].at = "none"
      /\ ~ j.flawed => /\ Present(m.contributions)
                       /\ ConceptsOf(m.subjects) = j.subjects \cup ConceptsOf(j.left)
      /\ j.left \in Seq(Subject)
  BY <1>1, JobsTyped DEF CallConcept, TreatConcept, KeepConcept, journalVars, Gathered, Sane, TypeInv
<1>3. Present(m.contributions)' <=> Present(m.contributions)
  BY <1>2 DEF Present, sourceVars
<1>4. CASE CallConcept(w)
  <2>1. \A s : C!Call(s).subject = s
    BY DEF C!Call, C!NoCall
  <2>2. job' = job /\ conceptCall'[w].subject = Head(j.left) /\ j.left # <<>>
    BY <1>1, <1>4, <2>1 DEF CallConcept, TypeInv, ConceptInv
  <2>3. QED
    BY <1>1, <1>2, <1>3, <2>2 DEF Gathered
<1>5. CASE TreatConcept(w)
  <2>1. job' = job /\ conceptCall[w].at # "none" /\ conceptCall'[w].subject = conceptCall[w].subject
    BY <1>5, CallsKeep DEF TreatConcept
  <2>2. QED
    BY <1>1, <1>2, <1>3, <2>1 DEF Gathered
<1>6. CASE KeepConcept(w)
  <2>1. j.left # <<>> /\ conceptCall[w].subject = Head(j.left)
    BY <1>1, <1>6 DEF KeepConcept, Gathered
  <2>2. conceptCall'[w].at = "none"
    BY <1>6 DEF KeepConcept, TypeInv, ConceptInv, C!NoCall
  <2>3. PICK flawed \in BOOLEAN : flawed = (j.flawed \/ ~ (conceptCall[w].at = "returned"))
    BY Zenon
  <2>4. PICK kept : kept = IF conceptCall[w].at = "returned" THEN j.subjects \cup {C!Called(w)}
                           ELSE j.subjects
    OBVIOUS
  <2>5. /\ job'[w].message = m /\ job'[w].left = Tail(j.left) /\ job'[w].flawed = flawed
        /\ job'[w].subjects = kept /\ job'[w].journals = j.journals
    <3>1. job' = [job EXCEPT ![w] = KeptConcept(w, conceptCall[w].at = "returned")]
      BY <1>6 DEF KeepConcept, KeptConcept, TypeInv, JobsInv
    <3>2. job'[w] = [j EXCEPT !.left = Tail(j.left), !.flawed = flawed, !.subjects = kept]
      BY <1>1, <2>3, <2>4, <3>1 DEF KeptConcept, TypeInv, JobsInv
    <3>3. QED
      BY <1>1, <3>2 DEF Jobs
  <2>6. ~ flawed => ConceptsOf(m.subjects) = kept \cup ConceptsOf(Tail(j.left))
    <3>1. ConceptsOf(j.left) = {Head(j.left).concept} \cup ConceptsOf(Tail(j.left))
      BY <1>2, <2>1, ConceptsSplit
    <3>2. C!Called(w) = Head(j.left).concept
      BY <2>1 DEF C!Called
    <3>3. QED
      BY <1>2, <2>3, <2>4, <3>1, <3>2
  <2>7. QED
    BY <1>2, <1>3, <2>2, <2>3, <2>5, <2>6 DEF Gathered
<1>7. QED
  BY <1>4, <1>5, <1>6

\* Then its journal, if it has one.
LEMMA GatheredJournal ==
    ASSUME TypeInv, NEW w \in Worker, Gathered(w), CallJournal(w) \/ TreatJournal(w) \/ KeepJournal(w)
    PROVE  Gathered(w)'
<1>1. PICK m \in Message, j \in Jobs : j = job[w] /\ m = j.message
  BY JobsTyped DEF TypeInv, CallJournal, TreatJournal, KeepJournal
<1>2. /\ UNCHANGED <<conceptCall, sourceVars>> /\ pc[w] \in {"subjects", "journal"}
      /\ conceptCall[w].at = "none"
  BY DEF CallJournal, TreatJournal, KeepJournal, conceptVars, Gathered
<1>3. Present(m.contributions)' <=> Present(m.contributions)
  BY <1>2 DEF Present, sourceVars
<1>4. CASE CallJournal(w)
  <2>1. /\ job' = job /\ pc[w] = "subjects" /\ j.left = <<>> /\ j.journals = {}
        /\ journalCall[w].at = "none"
        /\ ~ j.flawed => Present(m.contributions) /\ ConceptsOf(m.subjects) = j.subjects
    BY <1>1, <1>4, NoConcepts DEF CallJournal, Gathered
  <2>2. CASE m.journals = {}
    <3>1. pc'[w] = "storing" /\ journalCall' = journalCall
      BY <1>1, <1>4, <2>2 DEF CallJournal, Goes, TypeInv, JobsInv
    <3>2. QED
      BY <1>1, <1>2, <1>3, <2>1, <2>2, <3>1 DEF Gathered
  <2>3. CASE m.journals # {}
    <3>1. PICK s \in m.journals : s = CHOOSE t \in m.journals : TRUE
      BY <2>3
    <3>2. m.journals = {s}
      BY <3>1, RecordsAssumption
    <3>3. \A t, listed : J!Call(t, listed).journal = t
      BY DEF J!Call, J!NoCall
    <3>4. pc'[w] = "journal" /\ journalCall'[w].journal = s
      BY <1>1, <1>4, <2>3, <3>1, <3>3 DEF CallJournal, Goes, TypeInv, JobsInv, JournalInv
    <3>5. QED
      BY <1>1, <1>2, <1>3, <2>1, <3>2, <3>4 DEF Gathered
  <2>4. QED
    BY <2>2, <2>3
<1>5. CASE TreatJournal(w)
  <2>1. /\ job' = job /\ pc' = pc /\ pc[w] = "journal" /\ journalCall[w].at # "none"
        /\ journalCall'[w].journal = journalCall[w].journal
    BY <1>5, CallsKeep DEF TreatJournal
  <2>2. QED
    BY <1>1, <1>2, <1>3, <2>1 DEF Gathered
<1>6. CASE KeepJournal(w)
  <2>1. /\ pc[w] = "journal" /\ m.journals = {journalCall[w].journal}
        /\ ~ j.flawed => Present(m.contributions) /\ ConceptsOf(m.subjects) = j.subjects
    BY <1>1, <1>6 DEF KeepJournal, Gathered
  <2>2. journalCall'[w].at = "none" /\ pc'[w] = "storing"
    BY <1>6 DEF KeepJournal, Goes, TypeInv, JobsInv, JournalInv, J!NoCall
  <2>3. PICK flawed \in BOOLEAN : flawed = (j.flawed \/ ~ (journalCall[w].at = "returned"))
    BY Zenon
  <2>4. PICK kept : kept = IF journalCall[w].at = "returned" THEN {journalCall[w].journal} ELSE {}
    OBVIOUS
  <2>5. /\ job'[w].message = m /\ job'[w].flawed = flawed
        /\ job'[w].subjects = j.subjects /\ job'[w].journals = kept
    <3>1. job' = [job EXCEPT ![w] = KeptJournal(w, journalCall[w].at = "returned")]
      BY <1>6 DEF KeepJournal, KeptJournal, TypeInv, JobsInv
    <3>2. job'[w] = [j EXCEPT !.journals = kept, !.flawed = flawed]
      BY <1>1, <2>3, <2>4, <3>1 DEF KeptJournal, TypeInv, JobsInv
    <3>3. QED
      BY <1>1, <3>2 DEF Jobs
  <2>6. QED
    BY <1>2, <1>3, <2>1, <2>2, <2>3, <2>4, <2>5 DEF Gathered
<1>7. QED
  BY <1>4, <1>5, <1>6

LEMMA GatheredNext ==
    ASSUME TypeInv, \A v \in Worker : Gathered(v), NEW w \in Worker,
           Receive(w) \/ Work(w) \/ FailCall(w) \/ Fail(w)
    PROVE  \A v \in Worker : Gathered(v)'
<1>1. sourcePeople \subseteq sourcePeople' /\ sourceOrganizations \subseteq sourceOrganizations'
  BY SourcesStay DEF Next
<1>2. ASSUME NEW v \in Worker, v # w PROVE Gathered(v)'
  <2>1. /\ pc'[v] = pc[v] /\ job'[v] = job[v]
        /\ conceptCall'[v] = conceptCall[v] /\ journalCall'[v] = journalCall[v]
    BY <1>2, OthersStay, CallsStay
  <2>2. QED
    BY <1>1, <2>1, GatheredStays
<1>3. CASE Store(w) \/ Clear(w) \/ Contribute(w) \/ ContributeFails(w)
  <2>1. /\ pc[w] \in {"storing", "clearing", "contributing"} /\ pc'[w] \in {"clearing", "contributing"}
        /\ UNCHANGED <<conceptCall, journalCall>>
    BY <1>3 DEF Store, Clear, Contribute, ContributeFails, Goes, TypeInv, JobsInv, conceptVars, journalVars
  <2>2. conceptCall[w].at = "none" /\ journalCall[w].at = "none"
    BY <2>1 DEF Gathered
  <2>3. Gathered(w)'
    BY <2>1, <2>2 DEF Gathered
  <2>4. QED
    BY <1>2, <2>3
<1>4. CASE FailCall(w)
  <2>1. pc' = pc /\ job' = job
    BY <1>4 DEF FailCall
  <2>2. /\ conceptCall'[w].at # "none" =>
              conceptCall[w].at # "none" /\ conceptCall'[w].subject = conceptCall[w].subject
        /\ journalCall'[w].at # "none" =>
              journalCall[w].at # "none" /\ journalCall'[w].journal = journalCall[w].journal
    BY <1>4, CallsKeep DEF FailCall, conceptVars, journalVars
  <2>3. QED
    BY <1>1, <1>2, <2>1, <2>2, GatheredStays
<1>5. Gathered(w)'
  BY <1>3, <1>4, GatheredAtEnds, GatheredContributors, GatheredConcepts, GatheredJournal DEF Work
<1>6. QED
  BY <1>2, <1>5

---------------------------------------------------------------------------
(* Records and their messages. *)

\* What a step leaves of a record that the worker w does not write.
Quiet(r) ==
    /\ subjects'[r] = subjects[r] /\ publishedIn'[r] = publishedIn[r] /\ latest'[r] = latest[r]
    /\ contributions'[r] = contributions[r] /\ harvestedFor[r] \subseteq harvestedFor'[r]
    /\ \A i \in Issue : issuedBy[i] \subseteq issuedBy'[i]
Writes(w, r) == About(w) = r /\ (Store(w) \/ Clear(w) \/ Contribute(w))

LEMMA OthersQuiet ==
    ASSUME TypeInv, NEW w \in Worker, Receive(w) \/ Work(w) \/ FailCall(w) \/ Fail(w),
           NEW r \in SourceRecord, ~ Writes(w, r)
    PROVE  Quiet(r)
<1>1. CASE UNCHANGED <<recordVars, latest>>
  BY <1>1 DEF Quiet, recordVars
<1>2. CASE Store(w)
  <2>1. About(w) # r
    BY <1>2 DEF Writes
  <2>2. PICK s, m : s = About(w) /\ m = job[w].message
    OBVIOUS
  <2>3. /\ harvestedFor' = [harvestedFor EXCEPT ![s] = @ \cup {m.owner}]
        /\ subjects' = [subjects EXCEPT ![s] = job[w].subjects]
        /\ publishedIn' = [publishedIn EXCEPT ![s] = {m.issue}]
        /\ issuedBy' = [issuedBy EXCEPT ![m.issue] = @ \cup job[w].journals]
        /\ latest' = [latest EXCEPT ![s] = m]
        /\ contributions' = contributions
    BY <1>2, <2>2 DEF Store
  <2>4. QED
    BY <2>1, <2>2, <2>3 DEF Quiet, TypeInv, RecordInv, CountInv
<1>3. CASE Clear(w) \/ Contribute(w)
  <2>1. About(w) # r /\ UNCHANGED <<harvestedFor, subjects, publishedIn, issuedBy, latest>>
    BY <1>3 DEF Writes, Clear, Contribute, historyVars
  <2>2. contributions'[r] = contributions[r]
    BY <1>3, <2>1 DEF Clear, Clears, Contribute, TypeInv, RecordInv
  <2>3. QED
    BY <2>1, <2>2 DEF Quiet
<1>4. QED
  BY <1>1, <1>2, <1>3 DEF Work, Receive, Ignore, Look, Switch, RefuseOwner, StoreContributors,
       CallConcept, TreatConcept, KeepConcept, CallJournal, TreatJournal, KeepJournal,
       StoreConflict, ContributeFails, Announce, RefuseUnanswered, IndexRefuses, FailCall, Fail, Drops, recordVars, historyVars

\* The workers that fill a record, when the one that goes on is none of them.
LEMMA FillingStays ==
    ASSUME TypeInv, NEW w \in Worker, Receive(w) \/ Work(w) \/ FailCall(w) \/ Fail(w),
           NEW r, w \notin Filling(r), w \notin Filling(r)'
    PROVE  /\ Filling(r)' = Filling(r)
           /\ \A v \in Filling(r) : pc'[v] = pc[v] /\ job'[v] = job[v]
<1>1. \A v \in Worker \ {w} : pc'[v] = pc[v] /\ job'[v] = job[v]
  BY OthersStay
<1>2. \A v \in Worker \ {w} : v \in Filling(r)' <=> v \in Filling(r)
  BY <1>1 DEF Filling, Busy, About
<1>3. Filling(r) \subseteq Worker /\ Filling(r)' \subseteq Worker
  BY DEF Filling, Busy
<1>4. QED
  BY <1>1, <1>2, <1>3

\* A record that nobody writes follows its message as before.
LEMMA FollowsStays ==
    ASSUME TypeInv, NEW r, Follows(r), Quiet(r),
           sourcePeople \subseteq sourcePeople', sourceOrganizations \subseteq sourceOrganizations',
           Filling(r)' = Filling(r), \A v \in Filling(r) : pc'[v] = pc[v] /\ job'[v] = job[v]
    PROVE  Follows(r)'
<1>1. PICK m \in Message : m = latest[r] /\ m = latest'[r] /\ m.issue \in Issue
  BY MessagesTyped DEF Follows, Quiet
<1>2. /\ subjects'[r] = ConceptsOf(m.subjects) /\ publishedIn'[r] = {m.issue}
      /\ m.journals \subseteq issuedBy'[m.issue] /\ m.owner \in harvestedFor'[r]
      /\ Filling(r) = {} => contributions'[r] = m.contributions
  BY <1>1 DEF Follows, Quiet
<1>3. ASSUME NEW v \in Filling(r)'
      PROVE  /\ job'[v].message = m
             /\ pc'[v] = "clearing" => Present(m.contributions)'
             /\ pc'[v] = "contributing" =>
                    Present(job[v].left)' /\ contributions'[r] \o job'[v].left = m.contributions
  <2>1. PICK j, place : /\ j = job[v] /\ j = job'[v] /\ place = pc[v] /\ place = pc'[v]
                        /\ v \in Filling(r)
    BY <1>3
  <2>2. /\ j.message = m
        /\ place = "clearing" => Present(m.contributions)
        /\ place = "contributing" =>
              Present(j.left) /\ contributions[r] \o j.left = m.contributions
    BY <1>1, <2>1 DEF Follows
  <2>3. Present(m.contributions) => Present(m.contributions)'
    BY StaysPresent
  <2>4. Present(j.left) => Present(j.left)'
    BY StaysPresent
  <2>5. contributions'[r] = contributions[r]
    BY DEF Quiet
  <2>6. QED
    BY <2>1, <2>2, <2>3, <2>4, <2>5 DEF Present
<1>4. \A v, u \in Filling(r)' : v = u
  BY DEF Follows
<1>5. QED
  BY <1>1, <1>2, <1>3, <1>4 DEF Follows

\* A record that is stored without flaw, while no other worker fills it.
LEMMA StoreFollows ==
    ASSUME TypeInv, NEW w \in Worker, Gathered(w), Store(w), NEW stored, stored = About(w),
           stored \notin disturbed'
    PROVE  Follows(stored)'
<1>1. PICK m \in Message, j \in Jobs, r \in SourceRecord :
        /\ j = job[w] /\ m = j.message /\ r = m.record /\ m.issue \in Issue
  BY JobsTyped, MessagesTyped DEF Store, TypeInv
<1>2. /\ Filling(r) = {} /\ ~ j.flawed /\ job' = job /\ pc' = [pc EXCEPT ![w] = "clearing"]
      /\ UNCHANGED sourceVars /\ pc[w] = "storing"
      /\ harvestedFor' = [harvestedFor EXCEPT ![r] = @ \cup {m.owner}]
      /\ subjects' = [subjects EXCEPT ![r] = j.subjects]
      /\ publishedIn' = [publishedIn EXCEPT ![r] = {m.issue}]
      /\ issuedBy' = [issuedBy EXCEPT ![m.issue] = @ \cup j.journals]
      /\ latest' = [latest EXCEPT ![r] = m]
  BY <1>1 DEF Store, Goes, About
<1>3. Present(m.contributions) /\ ConceptsOf(m.subjects) = j.subjects /\ m.journals = j.journals
  BY <1>1, <1>2 DEF Gathered
<1>4. Filling(r)' = {w}
  <2>1. \A v \in Worker \ {w} : pc'[v] = pc[v] /\ job'[v] = job[v]
    BY <1>2 DEF TypeInv, JobsInv
  <2>2. \A v \in Worker \ {w} : v \notin Filling(r)'
    BY <1>2, <2>1 DEF Filling, Busy, About
  <2>3. w \in Filling(r)'
    BY <1>1, <1>2 DEF Filling, Busy, About, TypeInv, JobsInv
  <2>4. QED
    BY <2>2, <2>3 DEF Filling, Busy
<1>5. /\ latest'[r] = m /\ subjects'[r] = ConceptsOf(m.subjects) /\ publishedIn'[r] = {m.issue}
      /\ m.journals \subseteq issuedBy'[m.issue] /\ m.owner \in harvestedFor'[r]
  BY <1>1, <1>2, <1>3 DEF TypeInv, RecordInv, CountInv
<1>6. job'[w].message = m /\ pc'[w] = "clearing" /\ Present(m.contributions)'
  BY <1>1, <1>2, <1>3 DEF TypeInv, JobsInv, Present, sourceVars
<1>7. stored = r
  BY <1>1 DEF About
<1>8. Follows(r)'
  BY <1>4, <1>5, <1>6 DEF Follows
<1>9. QED
  BY <1>7, <1>8

\* What a worker that fills an undisturbed record knows of it.
LEMMA FillingFollows ==
    ASSUME TypeInv, NEW w \in Worker, pc[w] \in Filled, Follows(About(w))
    PROVE  \E m \in Message, r \in SourceRecord :
              /\ m = job[w].message /\ r = About(w) /\ r = m.record /\ latest[r] = m
              /\ Filling(r) = {w}
              /\ subjects[r] = ConceptsOf(m.subjects) /\ publishedIn[r] = {m.issue}
              /\ m.journals \subseteq issuedBy[m.issue] /\ m.owner \in harvestedFor[r]
              /\ pc[w] = "clearing" => Present(m.contributions)
              /\ pc[w] = "contributing" =>
                    /\ job[w].left \in Seq(Contribution) /\ Present(job[w].left)
                    /\ contributions[r] \o job[w].left = m.contributions
              /\ m.contributions \in Seq(Contribution) /\ contributions[r] \in Seq(Contribution)
<1>1. PICK m \in Message, r \in SourceRecord : m = job[w].message /\ r = About(w) /\ r = m.record
  BY JobsTyped DEF TypeInv, Filled, About
<1>2. w \in Filling(r)
  BY <1>1 DEF Filling, Busy, Filled
<1>3. Filling(r) = {w}
  BY <1>1, <1>2 DEF Follows
<1>4. pc[w] = "contributing" => job[w].left \in Seq(Contribution)
  BY JobsTyped DEF TypeInv, Sane
<1>5. m.contributions \in Seq(Contribution) /\ contributions[r] \in Seq(Contribution)
  BY MessagesTyped DEF TypeInv, RecordInv
<1>6. QED
  BY <1>1, <1>2, <1>3, <1>4, <1>5 DEF Follows

\* The worker w still fills the record r, with the contributions left.
LEMMA FillsOn ==
    ASSUME TypeInv, NEW w \in Worker, NEW r, NEW m \in Message, Filling(r) = {w}, r = About(w),
           m = job[w].message, pc' = [pc EXCEPT ![w] = "contributing"],
           NEW left \in Seq(Contribution), job' = [job EXCEPT ![w].left = left]
    PROVE  Filling(r)' = {w} /\ job'[w].message = m /\ job'[w].left = left /\ pc'[w] = "contributing"
<1>1. job'[w].message = m /\ job'[w].left = left /\ pc'[w] = "contributing"
  BY DEF TypeInv, JobsInv, Jobs
<1>2. \A v \in Worker \ {w} : pc'[v] = pc[v] /\ job'[v] = job[v]
  BY DEF TypeInv, JobsInv
<1>3. \A v \in Worker \ {w} : v \notin Filling(r)'
  <2> SUFFICES ASSUME NEW v \in Worker \ {w}, v \in Filling(r)' PROVE FALSE
    OBVIOUS
  <2>1. v \in Filling(r)
    BY <1>2 DEF Filling, Busy, About
  <2>2. QED
    BY <2>1
<1>4. w \in Filling(r)'
  BY <1>1 DEF Filling, Busy, About
<1>5. QED
  BY <1>1, <1>3, <1>4 DEF Filling, Busy

LEMMA ClearFollows ==
    ASSUME TypeInv, NEW w \in Worker, Clear(w), NEW filled, filled = About(w), Follows(filled)
    PROVE  Follows(filled)'
<1>1. PICK m \in Message, r \in SourceRecord :
        /\ m = job[w].message /\ r = About(w) /\ r = m.record /\ latest[r] = m
        /\ Filling(r) = {w}
        /\ subjects[r] = ConceptsOf(m.subjects) /\ publishedIn[r] = {m.issue}
        /\ m.journals \subseteq issuedBy[m.issue] /\ m.owner \in harvestedFor[r]
        /\ Present(m.contributions) /\ m.contributions \in Seq(Contribution)
  BY FillingFollows DEF Clear, Filled
<1>2. /\ UNCHANGED <<sourceVars, harvestedFor, subjects, publishedIn, issuedBy, latest>>
      /\ pc' = [pc EXCEPT ![w] = "contributing"]
      /\ job' = [job EXCEPT ![w].left = m.contributions]
      /\ contributions'[r] = <<>>
  BY <1>1 DEF Clear, Clears, Goes, historyVars, TypeInv, RecordInv
<1>3. /\ Filling(r)' = {w} /\ job'[w].message = m /\ job'[w].left = m.contributions
      /\ pc'[w] = "contributing"
  BY <1>1, <1>2, FillsOn
<1>4. Present(m.contributions)' /\ filled = r
  BY <1>1, <1>2, <1>3 DEF Present, sourceVars
<1>5. <<>> \o m.contributions = m.contributions
  BY <1>1
<1>6. Follows(r)'
  BY <1>1, <1>2, <1>3, <1>4, <1>5 DEF Follows, Present
<1>7. QED
  BY <1>4, <1>6

\* The first of what is left goes to the end of what there is.
LEMMA MovesOn ==
    ASSUME NEW S, NEW s \in Seq(S), NEW t \in Seq(S), t # <<>>
    PROVE  Append(s, Head(t)) \o Tail(t) = s \o t
<1>1. /\ Len(s) \in Nat /\ Len(t) \in Nat \ {0} /\ Tail(t) \in Seq(S) /\ Head(t) \in S
      /\ Len(Tail(t)) = Len(t) - 1 /\ Head(t) = t[1]
      /\ \A n \in 1 .. Len(t) - 1 : Tail(t)[n] = t[n + 1]
  BY HeadTailProperties, LenProperties, EmptySeq
<1>2. /\ Append(s, Head(t)) \in Seq(S) /\ Len(Append(s, Head(t))) = Len(s) + 1
      /\ \A n \in 1 .. Len(s) : Append(s, Head(t))[n] = s[n]
      /\ Append(s, Head(t))[Len(s) + 1] = t[1]
  BY <1>1, AppendProperties
<1>3. PICK a \in Seq(S), b \in Seq(S) : a = Append(s, Head(t)) /\ b = Tail(t)
  BY <1>1, <1>2
<1>4. /\ a \o b \in Seq(S) /\ s \o t \in Seq(S)
      /\ Len(a \o b) = Len(s) + Len(t) /\ Len(s \o t) = Len(s) + Len(t)
      /\ \A n \in 1 .. Len(s) + Len(t) :
            /\ (a \o b)[n] = IF n <= Len(s) + 1 THEN a[n] ELSE b[n - (Len(s) + 1)]
            /\ (s \o t)[n] = IF n <= Len(s) THEN s[n] ELSE t[n - Len(s)]
  BY <1>1, <1>2, <1>3, ConcatProperties
<1>5. ASSUME NEW n \in 1 .. Len(s) + Len(t) PROVE (a \o b)[n] = (s \o t)[n]
  <2>0. PICK p \in Nat, q \in Nat : p = Len(s) /\ q = Len(t) /\ n \in 1 .. p + q
    BY <1>1
  <2>1. CASE n <= Len(s)
    BY <1>1, <1>2, <1>3, <1>4, <2>1
  <2>2. CASE n = Len(s) + 1
    BY <1>1, <1>2, <1>3, <1>4, <2>2
  <2>3. CASE n > Len(s) + 1
    <3>0. n - (p + 1) \in 1 .. q - 1
      BY <2>0, <2>3
    <3>1. PICK k \in 1 .. Len(t) - 1 : k = n - (Len(s) + 1)
      BY <2>0, <3>0
    <3>2. b[k] = t[k + 1]
      BY <1>1, <1>3
    <3>3. QED
      BY <1>1, <1>4, <2>3, <3>1, <3>2
  <2>4. n <= p \/ n = p + 1 \/ n > p + 1
    BY <2>0
  <2>5. QED
    BY <2>0, <2>1, <2>2, <2>3, <2>4
<1>6. QED
  BY <1>3, <1>4, <1>5, SeqEqual

LEMMA ContributeFollows ==
    ASSUME TypeInv, NEW w \in Worker, Contribute(w), NEW filled, filled = About(w), Follows(filled)
    PROVE  Follows(filled)'
<1>1. PICK m \in Message, r \in SourceRecord :
        /\ m = job[w].message /\ r = About(w) /\ r = m.record /\ latest[r] = m
        /\ Filling(r) = {w}
        /\ subjects[r] = ConceptsOf(m.subjects) /\ publishedIn[r] = {m.issue}
        /\ m.journals \subseteq issuedBy[m.issue] /\ m.owner \in harvestedFor[r]
        /\ job[w].left \in Seq(Contribution) /\ Present(job[w].left)
        /\ contributions[r] \o job[w].left = m.contributions
        /\ contributions[r] \in Seq(Contribution)
  BY FillingFollows DEF Contribute, Filled
<1>2. PICK left \in Seq(Contribution), done \in Seq(Contribution) :
        left = job[w].left /\ done = contributions[r] /\ left # <<>>
  BY <1>1 DEF Contribute
<1>3. PICK c \in Contribution, rest \in Seq(Contribution) : c = Head(left) /\ rest = Tail(left)
  BY <1>2, TailTyped
<1>4. Present(rest) /\ c.contributor \in sourcePeople /\ c.affiliations \subseteq sourceOrganizations
  BY <1>1, <1>2, <1>3, PresentRest
<1>5. [c EXCEPT !.affiliations = @ \cap sourceOrganizations] = c
  <2>1. c.affiliations \cap sourceOrganizations = c.affiliations
    BY <1>4
  <2>2. [c EXCEPT !.affiliations = c.affiliations] = c
    BY DEF Contribution
  <2>3. QED
    BY <2>1, <2>2
<1>6. /\ UNCHANGED <<sourceVars, harvestedFor, subjects, publishedIn, issuedBy, latest>>
      /\ pc' = [pc EXCEPT ![w] = "contributing"]
      /\ job' = [job EXCEPT ![w].left = rest]
      /\ contributions'[r] = Append(done, c)
  <2>1. Matched(Head(left))
    BY <1>3, <1>4 DEF Matched
  <2>2. contributions' = [contributions EXCEPT ![r] = Append(done, c)]
    BY <1>1, <1>2, <1>3, <1>5, <2>1 DEF Contribute
  <2>3. pc' = [pc EXCEPT ![w] = "contributing"]
    BY DEF Contribute, TypeInv, JobsInv
  <2>4. QED
    BY <1>2, <1>3, <2>2, <2>3 DEF Contribute, TypeInv, RecordInv
<1>7. /\ Filling(r)' = {w} /\ job'[w].message = m /\ job'[w].left = rest
      /\ pc'[w] = "contributing"
  BY <1>1, <1>6, FillsOn
<1>8. Present(rest)' /\ filled = r
  BY <1>1, <1>4, <1>6, <1>7 DEF Present, sourceVars
<1>9. Append(done, c) \o rest = m.contributions
  <2>1. Append(done, Head(left)) \o Tail(left) = done \o left
    BY <1>2, MovesOn
  <2>2. QED
    BY <1>1, <1>2, <1>3, <2>1
<1>10. Follows(r)'
  BY <1>1, <1>6, <1>7, <1>8, <1>9 DEF Follows, Present
<1>11. QED
  BY <1>8, <1>10

LEMMA AnnounceFollows ==
    ASSUME TypeInv, NEW w \in Worker, Announce(w) \/ IndexRefuses(w), NEW r, r = About(w), Follows(r)
    PROVE  Follows(r)'
<1>1. /\ latest[r] \in Message /\ Filling(r) = {w} /\ contributions[r] = latest[r].contributions
  <2>0. Follows(About(w)) /\ pc[w] = "contributing"
    BY DEF Announce, IndexRefuses
  <2>1. PICK m \in Message, q \in SourceRecord :
        /\ m = job[w].message /\ q = About(w) /\ latest[q] = m /\ Filling(q) = {w}
        /\ contributions[q] \o job[w].left = m.contributions
        /\ contributions[q] \in Seq(Contribution)
    BY <2>0, FillingFollows DEF Filled
  <2>2. contributions[r] \o <<>> = contributions[r]
    BY <2>1
  <2>3. QED
    BY <2>1, <2>2 DEF Announce, IndexRefuses
<1>2. UNCHANGED <<recordVars, latest>> /\ pc'[w] = "idle"
  BY DEF Announce, IndexRefuses, Ends, Goes, TypeInv, JobsInv
<1>3. \A v \in Worker \ {w} : pc'[v] = pc[v] /\ job'[v] = job[v]
  BY DEF Announce, IndexRefuses, Ends, Goes, TypeInv, JobsInv
<1>4. Filling(r)' = {}
  <2> SUFFICES ASSUME NEW v \in Filling(r)' PROVE FALSE
    OBVIOUS
  <2>1. v \in Worker /\ v # w
    BY <1>2 DEF Filling, Busy
  <2>2. v \in Filling(r)
    BY <1>3, <2>1 DEF Filling, Busy, About
  <2>3. QED
    BY <1>1, <2>1, <2>2
<1>5. QED
  BY <1>1, <1>2, <1>4 DEF Follows, recordVars

\* A worker that is to write, or fails to write, a record was at work on it.
LEMMA FollowsNext == ASSUME FollowsInv, Next PROVE FollowsInv'
<1>1. PICK w \in Worker : Receive(w) \/ Work(w) \/ FailCall(w) \/ Fail(w)
  BY DEF Next
<1>2. TypeInv /\ TypeInv' /\ \A v \in Worker : Gathered(v)
  BY TypeNext DEF FollowsInv
<1>3. \A v \in Worker : Gathered(v)'
  BY <1>1, <1>2, GatheredNext
<1>4. ASSUME NEW r \in records' \ disturbed'
      PROVE  Follows(r)'
  <2>1. r \in SourceRecord
    BY <1>2 DEF TypeInv, RecordInv
  <2>2. CASE Store(w) /\ About(w) = r
    BY <1>2, <1>4, <2>2, StoreFollows
  <2>3. CASE ~ (Store(w) /\ About(w) = r)
    <3>1. r \in records \ disturbed
      BY <1>1, <1>4, <2>3 DEF Work, Receive, Ignore, Look, Switch, RefuseOwner, StoreContributors,
         CallConcept, TreatConcept, KeepConcept, CallJournal, TreatJournal, KeepJournal, Store,
         StoreConflict, Clear, Contribute, ContributeFails, Announce, RefuseUnanswered, IndexRefuses, FailCall, Fail, Drops,
         recordVars, historyVars
    <3>2. Follows(r)
      BY <3>1 DEF FollowsInv
    <3>3. CASE Clear(w) /\ About(w) = r
      BY <1>2, <3>2, <3>3, ClearFollows
    <3>4. CASE Contribute(w) /\ About(w) = r
      BY <1>2, <3>2, <3>4, ContributeFollows
    <3>5. CASE (Announce(w) \/ IndexRefuses(w)) /\ About(w) = r
      BY <1>2, <3>2, <3>5, AnnounceFollows
    <3>6. CASE ~ Writes(w, r) /\ ~ ((Announce(w) \/ IndexRefuses(w)) /\ About(w) = r)
      <4>1. Quiet(r)
        BY <1>1, <1>2, <2>1, <3>6, OthersQuiet
      <4>2. sourcePeople \subseteq sourcePeople' /\ sourceOrganizations \subseteq sourceOrganizations'
        BY SourcesStay
      <4>3. CASE FailCall(w)
        <5>1. pc' = pc /\ job' = job
          BY <4>3 DEF FailCall
        <5>2. Filling(r)' = Filling(r)
          BY <5>1 DEF Filling, Busy, About
        <5>3. QED
          BY <1>2, <3>2, <4>1, <4>2, <5>1, <5>2, FollowsStays
      <4>4. CASE ~ FailCall(w)
        <5>1. w \notin Filling(r)
          BY <1>1, <1>4, <3>6, <4>4 DEF Writes, Filling, Busy, Work, Receive, Ignore, Look, Switch,
             RefuseOwner, StoreContributors, CallConcept, TreatConcept, KeepConcept, CallJournal,
             TreatJournal, KeepJournal, RefuseUnanswered, Store, StoreConflict,
             ContributeFails, Fail, About
        <5>2. w \notin Filling(r)'
          <6> SUFFICES ASSUME w \in Filling(r)' PROVE FALSE
            OBVIOUS
          <6>1. pc'[w] \in Filled /\ About(w)' = r
            BY DEF Filling, Busy, Filled
          <6>2. Store(w) \/ Clear(w) \/ Contribute(w) \/ ContributeFails(w)
            BY <1>1, <1>2, <4>4, <6>1 DEF Work, Receive, Ignore, Look, Switch, RefuseOwner,
               StoreContributors, CallConcept, TreatConcept, KeepConcept, CallJournal, TreatJournal,
               KeepJournal, StoreConflict, Announce, RefuseUnanswered, IndexRefuses, Fail, Drops, Ends, Goes, TypeInv, JobsInv, Filled
          <6>3. About(w) = r
            BY <1>2, <6>1, <6>2, GoingOn DEF GoesOn, About
          <6>4. QED
            BY <3>6, <1>4, <6>2, <6>3 DEF Writes, ContributeFails
        <5>3. QED
          BY <1>1, <1>2, <3>2, <4>1, <4>2, <5>1, <5>2, FillingStays, FollowsStays
      <4>5. QED
        BY <4>3, <4>4
    <3>7. QED
      BY <2>3, <3>3, <3>4, <3>5, <3>6 DEF Writes
  <2>4. QED
    BY <2>2, <2>3
<1>5. QED
  BY <1>2, <1>3, <1>4 DEF FollowsInv

(***************************************************************************)
(* A record that nobody is at work on has the contributions, subjects,     *)
(* issue, journal and owner of the message it was last stored from, unless *)
(* a call failed or two workers filled it: what the other workers write of *)
(* the people, concepts and journals of their records does not matter.     *)
(***************************************************************************)
THEOREM RecordsFollowMessages == Spec => []RecordFollowsItsMessage
<1>1. Init => FollowsInv
  <2> SUFFICES ASSUME Init PROVE FollowsInv
    OBVIOUS
  <2>1. C!NoCall.at = "none" /\ J!NoCall.at = "none"
    BY DEF C!NoCall, J!NoCall
  <2>2. ASSUME NEW w \in Worker PROVE Gathered(w)
    <3>1. pc[w] = "idle" /\ conceptCall[w].at = "none" /\ journalCall[w].at = "none"
      BY <2>1 DEF Init, C!Init, J!Init
    <3>2. QED
      BY <3>1, GatheredElsewhere
  <2>3. records = {}
    BY DEF Init
  <2>4. QED
    BY <2>2, <2>3, TypeInit DEF FollowsInv
<1>2. FollowsInv /\ UNCHANGED vars => FollowsInv'
  <2> SUFFICES ASSUME FollowsInv, UNCHANGED vars PROVE FollowsInv'
    OBVIOUS
  <2>1. /\ UNCHANGED <<pc, job, recordVars, latest, disturbed, sourceVars, conceptCall, journalCall>>
    BY DEF vars, historyVars, conceptVars, journalVars
  <2>2. \A w \in Worker : Gathered(w)'
    <3>1. sourcePeople \subseteq sourcePeople' /\ sourceOrganizations \subseteq sourceOrganizations'
      BY <2>1 DEF sourceVars
    <3>2. QED
      BY <2>1, <3>1, GatheredStays DEF FollowsInv
  <2>3. ASSUME NEW r \in records' \ disturbed' PROVE Follows(r)'
    <3>1. Quiet(r) /\ Follows(r)
      BY <2>1 DEF Quiet, recordVars, FollowsInv
    <3>2. Filling(r)' = Filling(r)
      BY <2>1 DEF Filling, Busy, About
    <3>3. QED
      BY <2>1, <3>1, <3>2, FollowsStays DEF FollowsInv, sourceVars
  <2>4. QED
    BY <2>2, <2>3, TypeUnchanged DEF FollowsInv
<1>3. FollowsInv /\ [Next]_vars => FollowsInv'
  BY FollowsNext, <1>2
<1>4. FollowsInv => RecordFollowsItsMessage
  <2> SUFFICES ASSUME FollowsInv, NEW r \in SourceRecord \ disturbed, Settled(r)
               PROVE  /\ contributions[r] = latest[r].contributions
                      /\ subjects[r] = {s.concept : s \in Range(latest[r].subjects)}
                      /\ publishedIn[r] = {latest[r].issue}
                      /\ latest[r].journals \subseteq issuedBy[latest[r].issue]
                      /\ latest[r].owner \in harvestedFor[r]
    BY DEF RecordFollowsItsMessage
  <2>1. Follows(r) /\ Filling(r) = {}
    BY DEF FollowsInv, Settled, Filling
  <2>2. QED
    BY <2>1 DEF Follows, ConceptsOf
<1>5. QED
  BY <1>1, <1>3, <1>4, PTL DEF Spec

=============================================================================
