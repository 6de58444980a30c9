---------------------------- MODULE Concepts ----------------------------
(***************************************************************************)
(* The subjects of source records (ConceptService, ConceptDAO): a concept  *)
(* is created the first time a record has it as subject; the labels of one *)
(* with an uri are then completed by each record that has it.  A worker    *)
(* calls create_or_update_concept and goes on when the call returned or    *)
(* failed; a step is one transaction of the call.                          *)
(***************************************************************************)
EXTENDS FiniteSets

CONSTANTS
    Concept,   \* uids of concepts
    WithUri,   \* those that are uris; the others are computed from one label
    Subject,   \* concepts as records describe them: a preferred label of a language
    Worker     \* workers of the publications topic

ConceptsAssumption ==
    /\ WithUri \subseteq Concept
    /\ \A s \in Subject :
        /\ s.concept \in Concept
        /\ \A l, k \in s.pref : l[1] = k[1] => l = k
        /\ s.concept \notin WithUri => Cardinality(s.pref) = 1 /\ s.alt = {}

VARIABLES
    concepts,     \* Concept nodes
    prefLabels,   \* HAS_PREF_LABEL, labels as <<language, value>>
    altLabels,    \* HAS_ALT_LABEL
    conceptCall,  \* the call to create_or_update_concept of each worker
    languages,    \* history: languages of the preferred labels given to each concept
    overwritten   \* history: concepts written while the copy to be written was stale

LanguagesOf(labels) == {l[1] : l \in labels}

NoLabels == [pref |-> {}, alt |-> {}]
NoCall == [at |-> "none", subject |-> [concept |-> "", pref |-> {}, alt |-> {}],
           found |-> {}, copy |-> NoLabels, read |-> NoLabels]
Call(subject) == [NoCall EXCEPT !.at = "finding", !.subject = subject]
Called(w) == conceptCall[w].subject.concept

Init ==
    /\ concepts = {}
    /\ prefLabels = [c \in Concept |-> {}] /\ altLabels = [c \in Concept |-> {}]
    /\ conceptCall = [w \in Worker |-> NoCall]
    /\ languages = [c \in Concept |-> {}] /\ overwritten = {}

---------------------------------------------------------------------------
(***************************************************************************)
(* _update_concept: a preferred label replaces that of its language, an    *)
(* alternative one is added.                                               *)
(***************************************************************************)
MergedByAddition(old, new) ==  \* mutant
    [pref |-> old.pref \cup new.pref, alt |-> old.alt \cup new.alt]
Merged(old, new) ==
    [pref |-> {l \in old.pref : l[1] \notin LanguagesOf(new.pref)} \cup new.pref,
     alt |-> old.alt \cup new.alt]

Find(w) ==
    LET c == Called(w)
        old == [pref |-> prefLabels[c], alt |-> altLabels[c]]
    IN
    /\ conceptCall[w].at = "finding"
    /\ conceptCall' = [conceptCall EXCEPT ![w] =
            IF c \notin concepts THEN [@ EXCEPT !.at = "creating"]
            ELSE IF c \notin WithUri THEN [@ EXCEPT !.at = "returned"]
            ELSE [@ EXCEPT !.at = "reading", !.found = old.pref,
                           !.copy = Merged(old, conceptCall[w].subject)]]
    /\ UNCHANGED <<concepts, prefLabels, altLabels, languages, overwritten>>

(***************************************************************************)
(* The query that creates goes on with the alternative labels only if      *)
(* there is a preferred one.  A concept another worker created meanwhile   *)
(* is a conflict, and is found again.                                      *)
(***************************************************************************)
Create(w) ==
    LET c == Called(w)
        s == conceptCall[w].subject
    IN
    /\ conceptCall[w].at = "creating"
    /\ IF c \in concepts
       THEN /\ conceptCall' = [conceptCall EXCEPT ![w].at = "finding"]
            /\ UNCHANGED <<concepts, prefLabels, altLabels, languages>>
       ELSE /\ concepts' = concepts \cup {c}
            /\ prefLabels' = [prefLabels EXCEPT ![c] = s.pref]
            /\ altLabels' = [altLabels EXCEPT ![c] = IF s.pref = {} THEN {} ELSE s.alt]
            /\ languages' = [languages EXCEPT ![c] = LanguagesOf(s.pref)]
            /\ conceptCall' = [conceptCall EXCEPT ![w].at = "returned"]
    /\ UNCHANGED overwritten

(***************************************************************************)
(* update reads the concept once more, then compares what it read with the *)
(* copy: the preferred labels the copy has not are removed, and those it   *)
(* has more are added; alternative labels are never removed.               *)
(***************************************************************************)
Reread(w) ==
    LET c == Called(w) IN
    /\ conceptCall[w].at = "reading"
    /\ conceptCall' = [conceptCall EXCEPT
            ![w].at = "writing", ![w].read = [pref |-> prefLabels[c], alt |-> altLabels[c]]]
    /\ UNCHANGED <<concepts, prefLabels, altLabels, languages, overwritten>>

Update(w) ==
    LET c == Called(w)
        copy == conceptCall[w].copy
        read == conceptCall[w].read
    IN
    /\ conceptCall[w].at = "writing"
    /\ prefLabels' = [prefLabels EXCEPT
            ![c] = (@ \ (read.pref \ copy.pref)) \cup (copy.pref \ read.pref)]
    /\ altLabels' = [altLabels EXCEPT ![c] = @ \cup (copy.alt \ read.alt)]
    /\ languages' = [languages EXCEPT ![c] = @ \cup LanguagesOf(conceptCall[w].subject.pref)]
    /\ overwritten' = IF prefLabels[c] # conceptCall[w].found \/ read.pref # conceptCall[w].found
                      THEN overwritten \cup {c} ELSE overwritten
    /\ conceptCall' = [conceptCall EXCEPT ![w].at = "returned"]
    /\ UNCHANGED concepts

(***************************************************************************)
(* A transaction of the call fails.                                        *)
(***************************************************************************)
Fail(w) ==
    /\ conceptCall[w].at \in {"finding", "creating", "reading", "writing"}
    /\ conceptCall' = [conceptCall EXCEPT ![w].at = "failed"]
    /\ UNCHANGED <<concepts, prefLabels, altLabels, languages, overwritten>>

Work(w) == Find(w) \/ Create(w) \/ Reread(w) \/ Update(w)

---------------------------------------------------------------------------
(***************************************************************************)
(* Types: only concepts have labels.                                       *)
(***************************************************************************)
TypeOK ==
    /\ concepts \subseteq Concept
    /\ DOMAIN prefLabels = Concept /\ DOMAIN altLabels = Concept
    /\ \A c \in Concept \ concepts : prefLabels[c] = {} /\ altLabels[c] = {}
    /\ \A w \in Worker : conceptCall[w].at \in
            {"none", "finding", "creating", "reading", "writing", "returned", "failed"}

(***************************************************************************)
(* A concept keeps one preferred label for each language a record gave it, *)
(* although the copy that is written was read two transactions before;     *)
(* unless another worker wrote the concept since.                          *)
(***************************************************************************)
OneLabelPerLanguage ==
    \A c \in concepts \ overwritten :
        /\ LanguagesOf(prefLabels[c]) = languages[c]
        /\ \A l, k \in prefLabels[c] : l[1] = k[1] => l = k
===========================================================================
