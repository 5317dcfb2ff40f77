--------------------------- MODULE ServicesProofs ---------------------------
(***************************************************************************)
(* The managers that stand alone, one after the other: rule engine, cron   *)
(* scheduler, nonce tracker, plugin registry, stream processor, memory     *)
(* cache, resource limiter; data collector and memory pool have a module   *)
(* of their own.                                                           *)
(* The last section puts all nine together.                                *)
(***************************************************************************)
EXTENDS MCServices, MemoryCollectorProofs
-----------------------------------------------------------------------------
(***************************************************************************)
(* MultisigRules: EvaluationExact for any rules, clients and edits.  A rule *)
(* that stays in the Map while an evaluation runs is at any moment         *)
(* collected, in the evaluation's hands or ahead of its cursor; what it    *)
(* has collected, or holds, was in the Map while it ran.                   *)
(***************************************************************************)

\* The Map has one rule per id.
UniqueIds == \A i, j \in DOMAIN rules : rules[i].id = rules[j].id => i = j

\* The rules of the Map that the iterator of evaluation e has not reached.
Ahead(e) == {rules[i] : i \in {j \in DOMAIN rules : j >= e.cursor}}

\* A rule that stayed in the Map is collected, or about to be, or ahead.
Reached(c) ==
    LET e == evals[c] IN
    \A r \in steady[c] :
        \/ e.context \in r.contexts => MatchOf(r) \in e.matches
        \/ e.current # NoRule /\ (r = e.current \/ r \in Ahead(e))

\* What evaluation c has collected, or captured, was in the Map while it ran.
OnlyOffered(c) ==
    LET e == evals[c] IN
    /\ e.matches \subseteq Matching(c, offered[c])
    /\ e.current # NoRule => e.current \in offered[c]

EvaluationInv ==
    /\ RulesTypeOK /\ UniqueIds
    /\ \A c \in Client : steady[c] \subseteq Present /\ Present \subseteq offered[c]
    /\ \A c \in Client : evals[c] # NoEval =>
           evals[c].cursor >= 1 /\ Reached(c) /\ OnlyOffered(c)
    /\ steady \in [Client -> SUBSET Rule] /\ offered \in [Client -> SUBSET Rule]

LEMMA RulesInitInv == MCInit => EvaluationInv
<1>. SUFFICES ASSUME MCInit PROVE EvaluationInv
  OBVIOUS
<1>1. /\ rules = <<>> /\ evals = [c \in Client |-> NoEval]
      /\ steady = [c \in Client |-> {}] /\ offered = [c \in Client |-> {}]
  BY DEF MCInit, RulesInit
<1>2. <<>> \in Seq(Rule) /\ DOMAIN <<>> = {}
  OBVIOUS
<1>3. Present = {}
  BY <1>1, <1>2 DEF Present
<1>. QED  BY <1>1, <1>2, <1>3 DEF EvaluationInv, RulesTypeOK, UniqueIds

LEMMA RuleRecord ==
    ASSUME NEW r \in Rule
    PROVE  Normalised(r) \in Rule /\ Normalised(r).id = r.id /\ MatchOf(r) \in RuleMatch
BY RulesAssumption DEF Rule, RuleMatch, Normalised, MatchOf

\* An edit leaves an evaluation where it is, or moves its cursor; what stays in
\* the Map and was ahead of it stays ahead.
LEMMA EditKeeps ==
    ASSUME EvaluationInv, Remember, NEW c \in Client, evals[c] # NoEval,
           rules' \in Seq(Rule), evals'[c] \in Evaluation,
           evals'[c].context = evals[c].context, evals'[c].current = evals[c].current,
           evals'[c].matches = evals[c].matches, evals'[c].cursor >= 1,
           Ahead(evals[c]) \cap Present' \subseteq Ahead(evals[c])'
    PROVE  /\ steady'[c] \subseteq Present' /\ Present' \subseteq offered'[c]
           /\ evals'[c].cursor >= 1 /\ Reached(c)' /\ OnlyOffered(c)'
<1>1. steady'[c] = steady[c] \cap Present' /\ offered'[c] = offered[c] \cup Present'
  BY DEF Remember
<1>2. Reached(c)'
  BY <1>1 DEF EvaluationInv, Reached
<1>3. OnlyOffered(c)'
  BY <1>1 DEF EvaluationInv, OnlyOffered, Matching
<1>. QED  BY <1>1, <1>2, <1>3

\* An edit, when it keeps the ids apart and the iterators in place.
LEMMA EditsKeep ==
    ASSUME EvaluationInv, Remember, RulesTypeOK', UniqueIds',
           \A c \in Client :
             IF evals[c] = NoEval THEN evals'[c] = NoEval
             ELSE /\ evals'[c] \in Evaluation /\ evals'[c].cursor >= 1
                  /\ evals'[c].context = evals[c].context
                  /\ evals'[c].current = evals[c].current
                  /\ evals'[c].matches = evals[c].matches
                  /\ Ahead(evals[c]) \cap Present' \subseteq Ahead(evals[c])'
    PROVE  EvaluationInv'
<1>1. /\ rules' \in Seq(Rule) /\ Present' \subseteq Rule
      /\ steady \in [Client -> SUBSET Rule] /\ offered \in [Client -> SUBSET Rule]
  BY DEF RulesTypeOK, Present, EvaluationInv
<1>2. steady' \in [Client -> SUBSET Rule] /\ offered' \in [Client -> SUBSET Rule]
  BY <1>1 DEF Remember
<1>3. ASSUME NEW c \in Client
      PROVE  /\ steady'[c] \subseteq Present' /\ Present' \subseteq offered'[c]
             /\ evals'[c] # NoEval => evals'[c].cursor >= 1 /\ Reached(c)' /\ OnlyOffered(c)'
  <2>1. CASE evals[c] = NoEval
    BY <2>1 DEF Remember
  <2>2. CASE evals[c] # NoEval
    BY <1>1, <2>2, EditKeeps
  <2>. QED  BY <2>1, <2>2
<1>. QED  BY <1>2, <1>3 DEF EvaluationInv

LEMMA RulesStepInv == EvaluationInv /\ [MCNext]_mcVars => EvaluationInv'
<1>. SUFFICES ASSUME EvaluationInv, [MCNext]_mcVars PROVE EvaluationInv'
  OBVIOUS
<1>1. /\ rules \in Seq(Rule) /\ evals \in [Client -> Evaluation \cup {NoEval}]
      /\ Len(rules) \in Nat /\ DOMAIN rules = 1..Len(rules) /\ UniqueIds
      /\ \A i \in DOMAIN rules : rules[i] \in Rule
  BY DEF EvaluationInv, RulesTypeOK
<1>2. \A c \in Client : evals[c] # NoEval =>
          /\ evals[c] \in Evaluation /\ evals[c].cursor \in Nat /\ evals[c].cursor >= 1
          /\ evals[c].current \in Rule \cup {NoRule} /\ evals[c].matches \subseteq RuleMatch
          /\ evals[c].context \in Context
  BY <1>1 DEF EvaluationInv, Evaluation
<1>3. ASSUME NEW r \in RuleInput, AddRule(r), Remember  PROVE EvaluationInv'
  <2>1. r \in Rule /\ Normalised(r) \in Rule /\ Normalised(r).id = r.id
    BY RulesAssumption, RuleRecord
  <2>2. rules' = Append(rules, Normalised(r)) /\ evals' = evals /\ r.id \notin Ids
    BY <1>3 DEF AddRule
  <2>3. /\ rules' \in Seq(Rule) /\ DOMAIN rules' = 1..(Len(rules) + 1)
        /\ \A i \in DOMAIN rules : i \in DOMAIN rules' /\ rules'[i] = rules[i]
        /\ rules'[Len(rules) + 1] = Normalised(r)
    BY <1>1, <2>1, <2>2
  <2>4. \A i \in DOMAIN rules' : i \in DOMAIN rules \/ i = Len(rules) + 1
    BY <1>1, <2>3
  <2>5. UniqueIds'
    BY <1>1, <2>1, <2>2, <2>3, <2>4 DEF UniqueIds, Ids
  <2>6. RulesTypeOK'
    BY <1>1, <2>2, <2>3 DEF RulesTypeOK
  <2>7. \A c \in Client : Ahead(evals[c]) \subseteq Ahead(evals[c])'
    BY <2>2, <2>3 DEF Ahead
  <2>. QED  BY <1>2, <1>3, <2>2, <2>5, <2>6, <2>7, EditsKeep
<1>4. ASSUME NEW r \in RuleInput, UpdateRule(r), Remember  PROVE EvaluationInv'
  <2>1. r \in Rule
    BY RulesAssumption
  <2>2. PICK i \in DOMAIN rules : rules[i].id = r.id /\ rules' = [rules EXCEPT ![i] = r]
                                /\ evals' = evals
    BY <1>4 DEF UpdateRule
  <2>3. /\ rules' \in Seq(Rule) /\ DOMAIN rules' = DOMAIN rules
        /\ \A j \in DOMAIN rules : rules'[j] = IF j = i THEN r ELSE rules[j]
    BY <1>1, <2>1, <2>2
  <2>4. \A j \in DOMAIN rules : rules'[j].id = rules[j].id
    BY <2>2, <2>3
  <2>5. UniqueIds'
    BY <1>1, <2>3, <2>4 DEF UniqueIds
  <2>6. RulesTypeOK'
    BY <1>1, <2>2, <2>3 DEF RulesTypeOK
  <2>7. ASSUME NEW c \in Client, NEW x \in Ahead(evals[c]) \cap Present'
        PROVE  x \in Ahead(evals[c])'
    <3>1. PICK j \in DOMAIN rules : j >= evals[c].cursor /\ rules[j] = x
      BY DEF Ahead
    <3>2. PICK k \in DOMAIN rules : rules'[k] = x
      BY <2>3 DEF Present
    <3>3. k = j
      BY <1>1, <2>4, <3>1, <3>2 DEF UniqueIds
    <3>. QED  BY <2>2, <2>3, <3>1, <3>2, <3>3 DEF Ahead
  <2>. QED  BY <1>2, <1>4, <2>2, <2>5, <2>6, <2>7, EditsKeep
<1>5. ASSUME NEW id \in RuleId, DeleteRule(id), Remember  PROVE EvaluationInv'
  <2>1. PICK i \in DOMAIN rules :
          /\ rules' = SubSeq(rules, 1, i - 1) \o SubSeq(rules, i + 1, Len(rules))
          /\ evals' = [c \in Client |-> CursorAfterDelete(evals[c], i)]
    BY <1>5 DEF DeleteRule
  <2>2. /\ rules' \in Seq(Rule) /\ DOMAIN rules' = 1..(Len(rules) - 1)
        /\ \A j \in DOMAIN rules' : rules'[j] = IF j < i THEN rules[j] ELSE rules[j + 1]
    <3>. DEFINE s == SubSeq(rules, 1, i - 1)
                t == SubSeq(rules, i + 1, Len(rules))
    <3>1. /\ s \in Seq(Rule) /\ Len(s) = i - 1 /\ \A j \in 1..(i - 1) : s[j] = rules[j]
      BY <1>1
    <3>2. /\ t \in Seq(Rule) /\ Len(t) = Len(rules) - i
          /\ \A j \in 1..(Len(rules) - i) : t[j] = rules[i + j]
      <4>1. /\ i + 1 \in Int /\ Len(rules) \in Int /\ i <= Len(rules)
            /\ \A j \in (i + 1)..Len(rules) : rules[j] \in Rule
        BY <1>1
      <4>2. /\ t \in Seq(Rule)
            /\ Len(t) = IF i + 1 <= Len(rules) THEN Len(rules) - (i + 1) + 1 ELSE 0
            /\ \A j \in 1..(Len(rules) - (i + 1) + 1) : t[j] = rules[i + 1 + j - 1]
        BY <4>1, SubSeqProperties
      <4>. HIDE DEF t
      <4>3. Len(t) = Len(rules) - i
        BY <1>1, <4>1, <4>2
      <4>4. \A j \in 1..(Len(rules) - i) : t[j] = rules[i + j]
        BY <1>1, <4>2
      <4>. QED  BY <4>2, <4>3, <4>4
    <3>. HIDE DEF s, t
    <3>3. /\ rules' \in Seq(Rule) /\ Len(rules') = Len(s) + Len(t)
          /\ \A j \in 1..(Len(s) + Len(t)) :
                 rules'[j] = IF j <= Len(s) THEN s[j] ELSE t[j - Len(s)]
      BY <2>1, <3>1, <3>2, ConcatProperties DEF s, t
    <3>4. Len(s) + Len(t) = Len(rules) - 1 /\ i \in 1..Len(rules)
      BY <1>1, <3>1, <3>2
    <3>5. DOMAIN rules' = 1..(Len(rules) - 1)
      BY <3>3, <3>4
    <3>6. ASSUME NEW j \in 1..(Len(rules) - 1)
          PROVE  rules'[j] = IF j < i THEN rules[j] ELSE rules[j + 1]
      <4>1. CASE j < i
        BY <1>1, <3>1, <3>3, <3>4, <4>1
      <4>2. CASE ~(j < i)
        <5>1. rules'[j] = t[j - (i - 1)] /\ j - (i - 1) \in 1..(Len(rules) - i)
          BY <1>1, <3>1, <3>3, <3>4, <4>2
        <5>2. i + (j - (i - 1)) = j + 1
          BY <3>4
        <5>. QED  BY <3>2, <4>2, <5>1, <5>2
      <4>. QED  BY <4>1, <4>2
    <3>. QED  BY <3>3, <3>5, <3>6
  <2>3. /\ i \in Nat \ {0}
        /\ \A j \in DOMAIN rules' : j \in DOMAIN rules /\ j + 1 \in DOMAIN rules
    BY <1>1, <2>2
  <2>4. UniqueIds'
    <3>. SUFFICES ASSUME NEW j \in DOMAIN rules', NEW k \in DOMAIN rules',
                         rules'[j].id = rules'[k].id
                  PROVE  j = k
      BY DEF UniqueIds
    <3>. DEFINE old(x) == IF x < i THEN x ELSE x + 1
    <3>1. /\ old(j) \in DOMAIN rules /\ old(k) \in DOMAIN rules
          /\ rules'[j] = rules[old(j)] /\ rules'[k] = rules[old(k)]
      BY <2>2, <2>3
    <3>2. old(j) = old(k)
      BY <1>1, <3>1 DEF UniqueIds
    <3>. QED  BY <1>1, <2>2, <2>3, <3>2
  <2>5. ASSUME NEW c \in Client
        PROVE  IF evals[c] = NoEval THEN evals'[c] = NoEval
               ELSE /\ evals'[c] \in Evaluation /\ evals'[c].cursor >= 1
                    /\ evals'[c].cursor = IF i < evals[c].cursor THEN evals[c].cursor - 1
                                                                ELSE evals[c].cursor
                    /\ evals'[c].context = evals[c].context
                    /\ evals'[c].current = evals[c].current
                    /\ evals'[c].matches = evals[c].matches
    <3>1. evals'[c] = CursorAfterDelete(evals[c], i)
      BY <2>1
    <3>2. CASE evals[c] = NoEval \/ ~(i < evals[c].cursor)
      BY <1>2, <3>1, <3>2 DEF CursorAfterDelete
    <3>3. CASE evals[c] # NoEval /\ i < evals[c].cursor
      <4>1. /\ evals'[c] = [evals[c] EXCEPT !.cursor = @ - 1]
            /\ evals[c].cursor - 1 \in Nat /\ evals[c].cursor - 1 >= 1
        BY <1>2, <2>3, <3>1, <3>3 DEF CursorAfterDelete
      <4>. QED  BY <1>2, <3>3, <4>1, NoEvalAssumption DEF Evaluation
    <3>. QED  BY <3>2, <3>3
  <2>6. RulesTypeOK'
    <3>1. \A c \in Client : evals'[c] \in Evaluation \cup {NoEval}
      BY <2>5
    <3>. QED  BY <2>1, <2>2, <3>1 DEF RulesTypeOK
  <2>7. ASSUME NEW c \in Client, evals[c] # NoEval, NEW x \in Ahead(evals[c]) \cap Present'
        PROVE  x \in Ahead(evals[c])'
    <3>1. PICK j \in DOMAIN rules : j >= evals[c].cursor /\ rules[j] = x
      BY DEF Ahead
    <3>2. PICK k \in DOMAIN rules' : rules'[k] = x
      BY DEF Present
    <3>3. j = IF k < i THEN k ELSE k + 1
      <4>1. (IF k < i THEN k ELSE k + 1) \in DOMAIN rules
            /\ rules[IF k < i THEN k ELSE k + 1] = x
        BY <2>2, <2>3, <3>2
      <4>. QED  BY <1>1, <3>1, <4>1 DEF UniqueIds
    <3>4. k >= evals'[c].cursor
      BY <1>1, <1>2, <2>2, <2>3, <2>5, <2>7, <3>1, <3>3
    <3>. QED  BY <3>2, <3>4 DEF Ahead
  <2>. QED  BY <1>5, <2>4, <2>5, <2>6, <2>7, EditsKeep
<1>6. ASSUME UNCHANGED rules, Remember
      PROVE  /\ Present' = Present /\ UniqueIds' /\ Present \subseteq Rule
             /\ steady' \in [Client -> SUBSET Rule] /\ offered' \in [Client -> SUBSET Rule]
             /\ \A c \in Client :
                  /\ steady'[c] = (IF evals[c] = NoEval THEN Present ELSE steady[c])
                  /\ offered'[c] = (IF evals[c] = NoEval THEN Present ELSE offered[c])
                  /\ steady'[c] \subseteq Present' /\ Present' \subseteq offered'[c]
  <2>1. Present' = Present /\ UniqueIds' /\ Present \subseteq Rule
    BY <1>1, <1>6 DEF Present, UniqueIds
  <2>2. ASSUME NEW c \in Client
        PROVE  /\ steady'[c] = (IF evals[c] = NoEval THEN Present ELSE steady[c])
               /\ offered'[c] = (IF evals[c] = NoEval THEN Present ELSE offered[c])
    BY <1>6, <2>1 DEF Remember, EvaluationInv
  <2>3. steady' \in [Client -> SUBSET Rule] /\ offered' \in [Client -> SUBSET Rule]
    <3>1. /\ steady' = [c \in Client |-> IF evals[c] = NoEval THEN Present ELSE steady[c] \cap Present]
          /\ offered' = [c \in Client |-> IF evals[c] = NoEval THEN Present ELSE offered[c] \cup Present]
      BY <1>6, <2>1 DEF Remember
    <3>. QED  BY <2>1, <3>1 DEF EvaluationInv
  <2>. QED  BY <2>1, <2>2, <2>3 DEF EvaluationInv
<1>7. ASSUME UNCHANGED rules, Remember, NEW c \in Client, evals' = [evals EXCEPT ![c] = evals'[c]],
             evals'[c] \in Evaluation \cup {NoEval},
             evals'[c] # NoEval => evals'[c].cursor >= 1 /\ Reached(c)' /\ OnlyOffered(c)'
      PROVE  EvaluationInv'
  <2>1. RulesTypeOK'
    BY <1>1, <1>7 DEF RulesTypeOK
  <2>2. ASSUME NEW d \in Client, evals'[d] # NoEval
        PROVE  evals'[d].cursor >= 1 /\ Reached(d)' /\ OnlyOffered(d)'
    <3>1. CASE d = c
      BY <1>7, <2>2, <3>1
    <3>2. CASE d # c
      <4>1. /\ evals'[d] = evals[d] /\ evals[d] # NoEval
            /\ steady'[d] = steady[d] /\ offered'[d] = offered[d]
        BY <1>1, <1>6, <1>7, <2>2, <3>2
      <4>2. evals[d].cursor >= 1 /\ Reached(d) /\ OnlyOffered(d)
        BY <4>1 DEF EvaluationInv
      <4>. QED  BY <1>7, <4>1, <4>2 DEF Reached, OnlyOffered, Ahead, Matching
    <3>. QED  BY <3>1, <3>2
  <2>. QED  BY <1>6, <1>7, <2>1, <2>2 DEF EvaluationInv
<1>8. ASSUME NEW c \in Client, NEW x \in Context, BeginEvaluation(c, x), Remember
      PROVE  EvaluationInv'
  <2>. DEFINE e == [context |-> x, current |-> RuleAt(1), cursor |-> 2, matches |-> {}]
  <2>1. evals[c] = NoEval /\ evals' = [evals EXCEPT ![c] = e] /\ rules' = rules
    BY <1>8 DEF BeginEvaluation
  <2>2. evals'[c] = e /\ evals' = [evals EXCEPT ![c] = evals'[c]]
    BY <1>1, <2>1
  <2>3. RuleAt(1) \in Rule \cup {NoRule} /\ (RuleAt(1) # NoRule => RuleAt(1) \in Present)
    BY <1>1 DEF RuleAt, Present
  <2>4. /\ e \in Evaluation /\ e.context = x /\ e.current = RuleAt(1) /\ e.cursor = 2
        /\ e.matches = {}
    BY <2>3 DEF Evaluation
  <2>. HIDE DEF e
  <2>5. steady'[c] = Present /\ offered'[c] = Present
    BY <1>6, <1>8, <2>1
  <2>6. OnlyOffered(c)'
    BY <2>2, <2>3, <2>4, <2>5 DEF OnlyOffered
  <2>7. Reached(c)'
    <3>. SUFFICES ASSUME NEW i \in DOMAIN rules
                  PROVE  \/ rules[i] = RuleAt(1) /\ RuleAt(1) # NoRule
                         \/ RuleAt(1) # NoRule /\ i >= 2
      BY <2>1, <2>2, <2>4, <2>5 DEF Reached, Present, Ahead
    <3>1. 1 \in DOMAIN rules /\ RuleAt(1) = rules[1] /\ rules[1] # NoRule
      BY <1>1, RulesAssumption DEF RuleAt
    <3>. QED  BY <1>1, <3>1
  <2>8. evals'[c] \in Evaluation \cup {NoEval} /\ evals'[c].cursor >= 1
    BY <2>2, <2>4
  <2>. QED  BY <1>7, <1>8, <2>1, <2>2, <2>6, <2>7, <2>8
<1>9. ASSUME NEW c \in Client, VisitRule(c), Remember  PROVE EvaluationInv'
  <2>. DEFINE e == evals[c]
              n == Advanced(e)
  <2>1. /\ e # NoEval /\ e.current # NoRule /\ evals' = [evals EXCEPT ![c] = n] /\ rules' = rules
    BY <1>9 DEF VisitRule
  <2>2. evals'[c] = n /\ evals' = [evals EXCEPT ![c] = evals'[c]]
    BY <1>1, <2>1
  <2>3. /\ e \in Evaluation /\ e.cursor \in Nat /\ e.cursor >= 1 /\ e.current \in Rule
        /\ e.matches \subseteq RuleMatch
        /\ Reached(c) /\ OnlyOffered(c)
    BY <1>2, <2>1 DEF EvaluationInv
  <2>4. /\ RuleAt(e.cursor) \in Rule \cup {NoRule}
        /\ RuleAt(e.cursor) # NoRule => RuleAt(e.cursor) \in Present
        /\ \A i \in DOMAIN rules : i >= e.cursor =>
               RuleAt(e.cursor) # NoRule /\ (rules[i] = RuleAt(e.cursor) \/ i >= e.cursor + 1)
    <3>1. \A i \in DOMAIN rules : i >= e.cursor => e.cursor \in DOMAIN rules /\ (i = e.cursor \/ i >= e.cursor + 1)
      BY <1>1, <2>3
    <3>2. \A i \in DOMAIN rules : rules[i] # NoRule
      BY <1>1, RulesAssumption
    <3>. QED  BY <1>1, <3>1, <3>2 DEF RuleAt, Present
  <2>5. Collected(e) \subseteq RuleMatch
    BY <2>3, RuleRecord DEF Collected
  <2>6. /\ n \in Evaluation /\ n.context = e.context /\ n.current = RuleAt(e.cursor)
        /\ n.cursor = e.cursor + 1 /\ n.matches = Collected(e)
    <3>1. n = [context |-> e.context, current |-> RuleAt(e.cursor), cursor |-> e.cursor + 1,
               matches |-> Collected(e)]
      <4>1. n = [e EXCEPT !.matches = Collected(e), !.current = RuleAt(e.cursor),
                          !.cursor = e.cursor + 1]
        BY DEF Advanced
      <4>. HIDE DEF e, n
      <4>. QED  BY <2>3, <4>1 DEF Evaluation
    <3>2. e.context \in Context /\ e.cursor + 1 \in Nat
      BY <2>3 DEF Evaluation
    <3>. HIDE DEF n, e
    <3>. QED  BY <2>4, <2>5, <3>1, <3>2 DEF Evaluation
  <2>7. steady'[c] = steady[c] /\ offered'[c] = offered[c] /\ Present \subseteq offered[c]
        /\ steady[c] \subseteq Present
    BY <1>6, <1>9, <2>1 DEF EvaluationInv
  <2>. HIDE DEF n
  <2>8. OnlyOffered(c)'
    <3>1. Collected(e) \subseteq Matching(c, offered[c])
      BY <2>1, <2>3 DEF Collected, OnlyOffered, Matching
    <3>2. Matching(c, offered[c])' = Matching(c, offered[c])
      BY <2>2, <2>6, <2>7 DEF Matching
    <3>. QED  BY <2>2, <2>4, <2>6, <2>7, <3>1, <3>2 DEF OnlyOffered
  <2>9. Reached(c)'
    <3>. SUFFICES ASSUME NEW r \in steady[c]
                  PROVE  \/ e.context \in r.contexts => MatchOf(r) \in n.matches
                         \/ /\ n.current # NoRule
                            /\ r = n.current \/ \E i \in DOMAIN rules : i >= n.cursor /\ r = rules[i]
      BY <2>1, <2>2, <2>6, <2>7 DEF Reached, Ahead
    <3>1. CASE e.context \in r.contexts => MatchOf(r) \in e.matches
      BY <2>6, <3>1 DEF Collected
    <3>2. CASE r = e.current
      BY <2>6, <3>2 DEF Collected
    <3>3. CASE r \in Ahead(e)
      BY <2>4, <2>6, <3>3 DEF Ahead
    <3>. QED  BY <2>3, <3>1, <3>2, <3>3 DEF Reached
  <2>10. evals'[c] \in Evaluation \cup {NoEval} /\ evals'[c].cursor >= 1
    BY <2>2, <2>3, <2>6
  <2>. QED  BY <1>7, <1>9, <2>1, <2>2, <2>8, <2>9, <2>10
<1>10. ASSUME NEW c \in Client, EndEvaluation(c), Remember  PROVE EvaluationInv'
  <2>1. evals'[c] = NoEval /\ evals' = [evals EXCEPT ![c] = evals'[c]] /\ rules' = rules
    BY <1>1, <1>10 DEF EndEvaluation
  <2>. QED  BY <1>7, <1>10, <2>1
<1>11. CASE UNCHANGED mcVars
  BY <1>11 DEF mcVars, EvaluationInv, RulesTypeOK, UniqueIds, Present, Reached, OnlyOffered,
               Ahead, Matching
<1>. QED  BY <1>3, <1>4, <1>5, <1>8, <1>9, <1>10, <1>11 DEF MCNext, EditRules

LEMMA RulesInductive == MCSpec => []EvaluationInv
BY RulesInitInv, RulesStepInv, PTL DEF MCSpec

\* The Map and the evaluations are well typed.
THEOREM RulesTypeCorrect == MCSpec => []RulesTypeOK
BY RulesInductive, PTL DEF EvaluationInv

\* No evaluation misses a rule that stayed, or returns one that was never there.
THEOREM EvaluationCorrect == MCSpec => []EvaluationExact
<1>1. ASSUME EvaluationInv  PROVE EvaluationExact
  <2>. SUFFICES ASSUME NEW c \in Client, evals[c] # NoEval
                PROVE  /\ evals[c].matches \subseteq Matching(c, offered[c])
                       /\ EvaluationDone(c) => Matching(c, steady[c]) \subseteq evals[c].matches
    BY DEF EvaluationExact
  <2>. QED  BY <1>1 DEF EvaluationInv, Reached, OnlyOffered, EvaluationDone, Matching
<1>. QED  BY <1>1, RulesInductive, PTL
-----------------------------------------------------------------------------
(***************************************************************************)
(* CronScheduler: OneRunPerId for any number of ids, objects, timers and   *)
(* retries.  executeTask is the only place that starts a run, and it is    *)
(* entered with a set of running ids and a set of runs that agree: as they *)
(* are, or both without the run that has just ended.                       *)
(***************************************************************************)

\* The ids are those of the runs, each of one run.
Agree(ids, rs) ==
    /\ ids = {r.task.id : r \in rs}
    /\ \A r, s \in rs : r.task.id = s.task.id => r = s

LEMMA OneRunPerIdIsAgreement == OneRunPerId <=> Agree(runningTasks, runs)
BY DEF OneRunPerId, Agree

\* executeTask starts a run only when none of its id is listed.
LEMMA ExecuteAgrees ==
    ASSUME NEW ids, NEW rs, NEW r, Agree(ids, rs), Execute(r, ids, rs)
    PROVE  OneRunPerId'
<1>1. CASE r.task.id \in ids
  BY <1>1 DEF Execute, Agree, OneRunPerId
<1>2. CASE r.task.id \notin ids
  <2>1. runningTasks' = ids \cup {r.task.id} /\ runs' = rs \cup {r}
    BY <1>2 DEF Execute
  <2>2. \A s \in rs : s.task.id # r.task.id
    BY <1>2 DEF Agree
  <2>. QED  BY <2>1, <2>2 DEF Agree, OneRunPerId
<1>. QED  BY <1>1, <1>2

\* scheduleTask sets a timer, or executes the task at once.
LEMMA ScheduleAgrees ==
    ASSUME NEW ids, NEW rs, NEW t, t.id \in CronId, Agree(ids, rs), Schedule(t, ids, rs)
    PROVE  OneRunPerId'
<1>1. CASE runningTasks' = ids /\ runs' = rs
  BY <1>1 DEF Agree, OneRunPerId
<1>2. CASE Execute([task |-> t, attempt |-> 0], ids, rs)
  BY <1>2, ExecuteAgrees
<1>. QED  BY <1>1, <1>2 DEF Schedule

\* A run that ends is the only one of its id.
LEMMA EndAgrees ==
    ASSUME OneRunPerId, NEW r \in runs
    PROVE  Agree(runningTasks \ {r.task.id}, runs \ {r})
BY DEF OneRunPerId, Agree

LEMMA CronInitInv == CronInit => OneRunPerId
BY DEF CronInit, OneRunPerId

LEMMA CronStepInv == OneRunPerId /\ [CronNext]_cronVars => OneRunPerId'
<1>. SUFFICES ASSUME OneRunPerId, [CronNext]_cronVars PROVE OneRunPerId'
  OBVIOUS
<1>0. Agree(runningTasks, runs)
  BY OneRunPerIdIsAgreement
<1>1. ASSUME NEW i \in CronId, AddCronTask(i) PROVE OneRunPerId'
  <2>. DEFINE t == [id |-> i, number |-> objects[i] + 1]
  <2>1. Schedule(t, runningTasks, runs) /\ t.id \in CronId
    BY <1>1 DEF AddCronTask
  <2>. HIDE DEF t
  <2>. QED  BY <1>0, <2>1, ScheduleAgrees
<1>2. ASSUME NEW i \in CronId, RemoveCronTask(i) PROVE OneRunPerId'
  BY <1>2 DEF RemoveCronTask, OneRunPerId
<1>3. ASSUME NEW i \in CronId, TriggerTask(i) PROVE OneRunPerId'
  BY <1>0, <1>3, ExecuteAgrees DEF TriggerTask
<1>4. ASSUME NEW i \in CronId, TimerFires(i) PROVE OneRunPerId'
  BY <1>0, <1>4, ExecuteAgrees DEF TimerFires
<1>5. ASSUME NEW r \in Run, RetryTimerFires(r) PROVE OneRunPerId'
  BY <1>0, <1>5, ExecuteAgrees DEF RetryTimerFires
<1>6. ASSUME NEW r \in Run, RunSucceeds(r) PROVE OneRunPerId'
  <2>1. r \in runs /\ r.task.id \in CronId
        /\ Schedule(r.task, runningTasks \ {r.task.id}, runs \ {r})
    BY <1>6 DEF RunSucceeds, Run, Object
  <2>. QED  BY <2>1, EndAgrees, ScheduleAgrees
<1>7. ASSUME NEW r \in Run, RunFails(r) PROVE OneRunPerId'
  <2>1. r \in runs /\ r.task.id \in CronId
        /\ Schedule(r.task, runningTasks \ {r.task.id}, runs \ {r})
    BY <1>7 DEF RunFails, Run, Object
  <2>. QED  BY <2>1, EndAgrees, ScheduleAgrees
<1>8. CASE Stop
  BY <1>8 DEF Stop, OneRunPerId
<1>9. CASE UNCHANGED cronVars
  BY <1>9 DEF cronVars, OneRunPerId
<1>. QED
  BY <1>1, <1>2, <1>3, <1>4, <1>5, <1>6, <1>7, <1>8, <1>9 DEF CronNext

\* No two runs of one id overlap, and runningTasks lists just the ids with a run,
\* whatever timers, retries, triggers and earlier objects of the id are around.
THEOREM CronCorrect == CronSpec => []OneRunPerId
BY CronInitInv, CronStepInv, PTL DEF CronSpec

LEMMA RunsAreFinite == IsFiniteSet(Run)
<1>1. IsFiniteSet(CronId) /\ MaxObjects \in Nat /\ ErrorRetryCount \in Nat
  BY CronAssumption DEF CronAssumption
<1>. DEFINE P == CronId \X (1..MaxObjects)
            Q == Object \X (0..ErrorRetryCount)
            object == [x \in P |-> [id |-> x[1], number |-> x[2]]]
            run == [x \in Q |-> [task |-> x[1], attempt |-> x[2]]]
<1>2. IsFiniteSet(P)
  <2>1. IsFiniteSet(1..MaxObjects)
    BY <1>1, FS_Interval
  <2>. QED  BY <1>1, <2>1, FS_Product
<1>3. object \in Surjection(P, Object)
  <2>1. object \in [P -> Object]
    BY DEF Object
  <2>2. ASSUME NEW y \in Object
        PROVE  \E x \in P : object[x] = y
    <3>1. <<y.id, y.number>> \in P
      BY DEF Object
    <3>2. object[<<y.id, y.number>>] = y
      BY <3>1 DEF Object
    <3>. QED  BY <3>1, <3>2
  <2>. HIDE DEF P, object
  <2>. QED  BY <2>1, <2>2, Fun_IsSurj
<1>4. IsFiniteSet(Object)
  <2>. HIDE DEF P, object
  <2>. QED  BY <1>2, <1>3, FS_Surjection
<1>5. IsFiniteSet(Q)
  <2>1. IsFiniteSet(0..ErrorRetryCount)
    BY <1>1, FS_Interval
  <2>. QED  BY <1>4, <2>1, FS_Product
<1>6. run \in Surjection(Q, Run)
  <2>1. run \in [Q -> Run]
    BY DEF Run
  <2>2. ASSUME NEW y \in Run
        PROVE  \E x \in Q : run[x] = y
    <3>1. <<y.task, y.attempt>> \in Q
      BY DEF Run
    <3>2. run[<<y.task, y.attempt>>] = y
      BY <3>1 DEF Run
    <3>. QED  BY <3>1, <3>2
  <2>. HIDE DEF Q, run
  <2>. QED  BY <2>1, <2>2, Fun_IsSurj
<1>. QED
  <2>. HIDE DEF Q, run
  <2>. QED  BY <1>5, <1>6, FS_Surjection

\* The types of what executeTask and scheduleTask leave behind.
LEMMA ExecuteTypes ==
    ASSUME NEW ids \in SUBSET CronId, NEW rs \in SUBSET Run, NEW r \in Run, Execute(r, ids, rs)
    PROVE  runs' \in SUBSET Run /\ runningTasks' \in SUBSET CronId
<1>1. r.task.id \in CronId
  BY DEF Run, Object
<1>. QED  BY <1>1 DEF Execute

LEMMA ScheduleTypes ==
    ASSUME CronTypeOK, NEW ids \in SUBSET CronId, NEW rs \in SUBSET Run, NEW t \in Object,
           Schedule(t, ids, rs)
    PROVE  /\ runs' \in SUBSET Run /\ runningTasks' \in SUBSET CronId
           /\ timers' \in [CronId -> 0..MaxObjects] /\ stopped' \in SUBSET CronId
<1>1. /\ t.id \in CronId /\ t.number \in 0..MaxObjects /\ [task |-> t, attempt |-> 0] \in Run
      /\ timers \in [CronId -> 0..MaxObjects] /\ stopped \in SUBSET CronId
  BY CronAssumption DEF CronAssumption, CronTypeOK, Object, Run
<1>2. stopped' \in SUBSET CronId
  BY <1>1 DEF Schedule
<1>3. CASE /\ timers' = [timers EXCEPT ![t.id] = t.number]
           /\ runningTasks' = ids /\ runs' = rs
  BY <1>1, <1>2, <1>3
<1>4. CASE Execute([task |-> t, attempt |-> 0], ids, rs) /\ UNCHANGED timers
  BY <1>1, <1>2, <1>4, ExecuteTypes
<1>. QED  BY <1>3, <1>4 DEF Schedule

LEMMA CronStepType == CronTypeOK /\ [CronNext]_cronVars => CronTypeOK'
<1>. SUFFICES ASSUME CronTypeOK, [CronNext]_cronVars PROVE CronTypeOK'
  OBVIOUS
<1>0. /\ registered \in [CronId -> 0..MaxObjects] /\ timers \in [CronId -> 0..MaxObjects]
      /\ runs \in SUBSET Run /\ runningTasks \in SUBSET CronId
      /\ retryTimers \in [Run -> 0..MaxRetryTimers]
      /\ objects \in [CronId -> 0..MaxObjects]
      /\ stopped \in SUBSET CronId /\ shadowed \in SUBSET CronId /\ stops \in 0..MaxStops
      /\ MaxObjects \in Nat /\ MaxRetryTimers \in Nat /\ MaxStops \in Nat /\ ErrorRetryCount \in Nat
  BY CronAssumption DEF CronTypeOK, CronAssumption
<1>1. ASSUME NEW i \in CronId, AddCronTask(i) PROVE CronTypeOK'
  <2>1. PICK t : t = [id |-> i, number |-> objects[i] + 1]
    OBVIOUS
  <2>2. objects[i] + 1 \in 1..MaxObjects /\ t \in Object
    BY <1>0, <1>1, <2>1 DEF AddCronTask, Object
  <2>3. /\ runs' \in SUBSET Run /\ runningTasks' \in SUBSET CronId
        /\ timers' \in [CronId -> 0..MaxObjects] /\ stopped' \in SUBSET CronId
    <3>1. Schedule(t, runningTasks, runs)
      BY <1>1, <2>1 DEF AddCronTask
    <3>. QED  BY <1>0, <2>2, <3>1, ScheduleTypes
  <2>4. /\ registered' \in [CronId -> 0..MaxObjects] /\ objects' \in [CronId -> 0..MaxObjects]
        /\ UNCHANGED <<retryTimers, stops>>
    BY <1>0, <1>1, <2>2 DEF AddCronTask
  <2>5. shadowed' \in SUBSET CronId
    BY <1>0, <1>1 DEF AddCronTask
  <2>. QED  BY <1>0, <2>3, <2>4, <2>5 DEF CronTypeOK
<1>2. ASSUME NEW i \in CronId, RemoveCronTask(i) PROVE CronTypeOK'
  BY <1>0, <1>2 DEF RemoveCronTask, CronTypeOK
<1>a. \A i \in CronId : \A n \in 1..MaxObjects : FirstRun(i, n) \in Run
  BY <1>0 DEF FirstRun, Run, Object
<1>3. ASSUME NEW i \in CronId, TriggerTask(i) PROVE CronTypeOK'
  <2>1. FirstRun(i, registered[i]) \in Run
    BY <1>0, <1>3, <1>a DEF TriggerTask
  <2>2. runs' \in SUBSET Run /\ runningTasks' \in SUBSET CronId
    BY <1>0, <1>3, <2>1, ExecuteTypes DEF TriggerTask
  <2>. QED  BY <1>0, <1>3, <2>2 DEF TriggerTask, CronTypeOK
<1>4. ASSUME NEW i \in CronId, TimerFires(i) PROVE CronTypeOK'
  <2>1. FirstRun(i, timers[i]) \in Run
    BY <1>0, <1>4, <1>a DEF TimerFires
  <2>2. runs' \in SUBSET Run /\ runningTasks' \in SUBSET CronId
    BY <1>0, <1>4, <2>1, ExecuteTypes DEF TimerFires
  <2>. QED  BY <1>0, <1>4, <2>2 DEF TimerFires, CronTypeOK
<1>5. ASSUME NEW r \in Run, RetryTimerFires(r) PROVE CronTypeOK'
  <2>1. runs' \in SUBSET Run /\ runningTasks' \in SUBSET CronId
    BY <1>0, <1>5, ExecuteTypes DEF RetryTimerFires
  <2>. QED  BY <1>0, <1>5, <2>1 DEF RetryTimerFires, CronTypeOK
<1>b. ASSUME NEW r \in Run, Schedule(r.task, runningTasks \ {r.task.id}, runs \ {r})
      PROVE  /\ runs' \in SUBSET Run /\ runningTasks' \in SUBSET CronId
             /\ timers' \in [CronId -> 0..MaxObjects] /\ stopped' \in SUBSET CronId
  <2>1. PICK t, ids, rs : t = r.task /\ ids = runningTasks \ {r.task.id} /\ rs = runs \ {r}
    OBVIOUS
  <2>2. t \in Object /\ ids \in SUBSET CronId /\ rs \in SUBSET Run /\ Schedule(t, ids, rs)
    BY <1>0, <1>b, <2>1 DEF Run
  <2>. QED  BY <2>2, ScheduleTypes
<1>6. ASSUME NEW r \in Run, RunSucceeds(r) PROVE CronTypeOK'
  BY <1>0, <1>6, <1>b DEF RunSucceeds, CronTypeOK
<1>7. ASSUME NEW r \in Run, RunFails(r) PROVE CronTypeOK'
  <2>1. /\ runs' \in SUBSET Run /\ runningTasks' \in SUBSET CronId
        /\ timers' \in [CronId -> 0..MaxObjects] /\ stopped' \in SUBSET CronId
    BY <1>7, <1>b DEF RunFails
  <2>2. retryTimers' \in [Run -> 0..MaxRetryTimers]
    <3>1. CASE r.attempt < ErrorRetryCount
      <4>1. PICK s : s = [r EXCEPT !.attempt = @ + 1]
        OBVIOUS
      <4>2. s \in Run
        BY <1>0, <3>1, <4>1 DEF Run
      <4>3. /\ retryTimers' = [retryTimers EXCEPT ![s] = @ + 1]
            /\ Total(retryTimers, Run) < MaxRetryTimers
        BY <1>7, <3>1, <4>1 DEF RunFails
      <4>4. \A q \in Run : retryTimers[q] \in Nat
        BY <1>0
      <4>5. retryTimers[s] <= Total(retryTimers, Run)
        BY <4>2, <4>4, RunsAreFinite, TotalIncludes
      <4>6. Total(retryTimers, Run) \in Nat
        <5>1. Run \in SUBSET Run
          OBVIOUS
        <5>. QED  BY <4>4, <5>1, RunsAreFinite, TotalType
      <4>7. retryTimers[s] + 1 \in 0..MaxRetryTimers
        BY <1>0, <4>2, <4>3, <4>4, <4>5, <4>6
      <4>. QED  BY <1>0, <4>2, <4>3, <4>7
    <3>2. CASE ~(r.attempt < ErrorRetryCount)
      BY <1>0, <1>7, <3>2 DEF RunFails
    <3>. QED  BY <3>1, <3>2
  <2>. QED  BY <1>0, <1>7, <2>1, <2>2 DEF RunFails, CronTypeOK
<1>8. CASE Stop
  <2>1. stops + 1 \in 0..MaxStops
    BY <1>0, <1>8 DEF Stop
  <2>. QED  BY <1>0, <1>8, <2>1 DEF Stop, CronTypeOK
<1>9. CASE UNCHANGED cronVars
  BY <1>9 DEF cronVars, CronTypeOK
<1>. QED
  BY <1>1, <1>2, <1>3, <1>4, <1>5, <1>6, <1>7, <1>8, <1>9 DEF CronNext

\* A retry timer never counts an attempt that is too many, and no more of them
\* are pending than the bound of the model.
THEOREM CronTypeCorrect == CronSpec => []CronTypeOK
<1>1. CronInit => CronTypeOK
  BY CronAssumption DEF CronInit, CronTypeOK, CronAssumption
<1>2. CronTypeOK /\ [CronNext]_cronVars => CronTypeOK'
  BY CronStepType
<1>. QED  BY <1>1, <1>2, PTL DEF CronSpec
-----------------------------------------------------------------------------
(***************************************************************************)
(* NonceTracker: NoNonceGap for any number of concurrent calls and any     *)
(* history of the account: a nonce never runs ahead of the chain, because  *)
(* every value the tracker is set to was a count of the account, or follows *)
(* one that was mined, and the chain only grows.                           *)
(***************************************************************************)

\* What a suspended call knows of the chain: its nonce is a count that was right
\* once, and it is used up when its transaction is mined.
CallsBehind ==
    \A c \in Sender :
        /\ calls[c].stage \in {"answered", "prepared"} => calls[c].nonce \in 0..chain
        /\ calls[c].stage = "waiting" => calls[c].nonce \in 0..MaxNonce
        /\ calls[c].stage \in {"mined", "reverted"} =>
               calls[c].nonce \in 0..MaxNonce /\ calls[c].nonce + 1 <= chain

\* The node holds one transaction at most, of a call that waits for it.
OneInPool ==
    /\ \A c \in pool : calls[c].stage = "waiting"
    /\ \A c, d \in pool : c = d

NonceInv == NonceTypeOK /\ NoNonceGap /\ CallsBehind /\ OneInPool

\* The first calls find no tracked nonce and nothing at the node.
LEMMA NonceInitInv == NonceInit => NonceInv
<1>. SUFFICES ASSUME NonceInit PROVE NonceInv
  OBVIOUS
<1>. USE NonceAssumption DEF NonceInit, Call
<1>1. NonceTypeOK
  BY DEF NonceTypeOK, Stage
<1>2. NoNonceGap /\ CallsBehind /\ OneInPool
  BY DEF NoNonceGap, CallsBehind, OneInPool
<1>. QED  BY <1>1, <1>2 DEF NonceInv

\* Steps of calls and requests, one by one.
LEMMA NonceStepInv == NonceInv /\ [NonceNext]_nonceVars => NonceInv'
<1>. SUFFICES ASSUME NonceInv, [NonceNext]_nonceVars PROVE NonceInv'
  OBVIOUS
<1>. USE NonceAssumption DEF NonceInv, NonceTypeOK, NoNonceGap, CallsBehind, OneInPool,
                             Stage, Call, At, Moves
<1>1. ASSUME NEW c \in Sender, SendTransaction(c) PROVE NonceInv'
  BY <1>1 DEF SendTransaction
<1>2. ASSUME NEW c \in Sender, CountIsRead(c) PROVE NonceInv'
  BY <1>2 DEF CountIsRead
<1>3. ASSUME NEW c \in Sender, NonceRefreshed(c) PROVE NonceInv'
  BY <1>3 DEF NonceRefreshed
<1>4. ASSUME NEW c \in Sender, RequestFails(c) PROVE NonceInv'
  BY <1>4 DEF RequestFails
<1>5. ASSUME NEW c \in Sender, Submitted(c) PROVE NonceInv'
  <2>1. calls[c].nonce = chain /\ SameNonce(c) = pool
    BY <1>5 DEF Submitted, SameNonce
  <2>2. pool' = {c}
    BY <1>5, <2>1 DEF Submitted
  <2>. QED  BY <1>5, <2>1, <2>2 DEF Submitted
<1>6. ASSUME NEW c \in Sender, ReceiptArrives(c) PROVE NonceInv'
  BY <1>6 DEF ReceiptArrives
<1>7. ASSUME NEW c \in Sender, NEW stage \in {"mined", "reverted"}, Mined(c, stage)
      PROVE  NonceInv'
  <2>1. pool' = {}
    BY <1>7 DEF Mined
  <2>. QED  BY <1>7, <2>1 DEF Mined
<1>8. CASE MinedElsewhere
  <2>1. pool' = {}
    BY <1>8 DEF MinedElsewhere
  <2>. QED  BY <1>8, <2>1 DEF MinedElsewhere
<1>9. CASE PendingAges
  BY <1>9 DEF PendingAges
<1>10. CASE ClearPendingTransactions
  BY <1>10 DEF ClearPendingTransactions
<1>11. CASE ClearNonceCache
  BY <1>11 DEF ClearNonceCache
<1>12. CASE UNCHANGED nonceVars
  BY <1>12 DEF nonceVars
<1>. QED
  BY <1>1, <1>2, <1>3, <1>4, <1>5, <1>6, <1>7, <1>8, <1>9, <1>10, <1>11, <1>12 DEF NonceNext

\* Every reachable state of TransactionProcessorTool's nonce bookkeeping is well
\* typed: the tracker never holds more than the account has mined.
THEOREM NonceTypeCorrect == NonceSpec => []NonceTypeOK
<1>1. NonceInv => NonceTypeOK
  BY DEF NonceInv
<1>. QED  BY NonceInitInv, NonceStepInv, <1>1, PTL DEF NonceSpec

\* Concurrent sends, late counts, failures and transactions from elsewhere never
\* make getNextNonce hand out a nonce beyond the account's count.
THEOREM NonceCorrect == NonceSpec => []NoNonceGap
<1>1. NonceInv => NoNonceGap
  BY DEF NonceInv
<1>. QED  BY NonceInitInv, NonceStepInv, <1>1, PTL DEF NonceSpec
-----------------------------------------------------------------------------
(***************************************************************************)
(* PluginRegistry: PluginsWithinLimit for any number of plugins and callers. *)
(* A caller that registers a plugin holds the place the plugin may take;   *)
(* when the limit is checked, every other caller holds one at most.        *)
(***************************************************************************)

\* A call that waits is about a plugin; removals and validations end in an
\* insertion, and belong to a registration.
CallsNamePlugins ==
    \A c \in RegistryCaller :
        /\ registryCalls[c].await # "none" => registryCalls[c].id \in PluginId
        /\ registryCalls[c].await \in {"removed", "validated"} => registryCalls[c].op = "register"

RegistryInv == RegistryTypeOK /\ CallsNamePlugins /\ PluginsWithinLimit
-----------------------------------------------------------------------------
(***************************************************************************)
(* Types                                                                   *)
(***************************************************************************)
LEMMA RegistryStepType ==
    RegistryTypeOK /\ CallsNamePlugins /\ [RegistryNext]_registryVars
        => RegistryTypeOK' /\ CallsNamePlugins'
<1>. SUFFICES ASSUME RegistryTypeOK, CallsNamePlugins, [RegistryNext]_registryVars
              PROVE  RegistryTypeOK' /\ CallsNamePlugins'
  OBVIOUS
<1>. USE RegistryAssumption DEF RegistryTypeOK, CallsNamePlugins, Operation, Await,
                                Suspends, Returns, Awaits
<1>1. CASE UNCHANGED registryVars
  BY <1>1 DEF registryVars
<1>2. CASE RegistryNext
  <2>. SUFFICES ASSUME NEW c \in RegistryCaller,
                       \/ \E id \in PluginId : \/ RegisterPlugin(c, id) \/ UnregisterPlugin(c, id)
                                               \/ StartPlugin(c, id) \/ StopPlugin(c, id)
                       \/ \E ok \in BOOLEAN : StopHookEnds(c, ok) \/ StartHooksEnd(c, ok)
                       \/ AfterStop(c) \/ AfterRemoval(c) \/ AfterValidation(c)
                PROVE  RegistryTypeOK' /\ CallsNamePlugins'
    BY <1>2 DEF RegistryNext
  <2>0. options' = options
    BY <1>2 DEF RegistryNext
  <2>1. ASSUME NEW id \in PluginId, RegisterPlugin(c, id)
        PROVE  RegistryTypeOK' /\ CallsNamePlugins'
    BY <2>0, <2>1 DEF RegisterPlugin, BeginRemoval, RemoveId, ValidateAndInsert, Insert
  <2>2. ASSUME NEW id \in PluginId, UnregisterPlugin(c, id)
        PROVE  RegistryTypeOK' /\ CallsNamePlugins'
    BY <2>0, <2>2 DEF UnregisterPlugin, BeginRemoval, RemoveId
  <2>3. ASSUME NEW id \in PluginId, StartPlugin(c, id) \/ StopPlugin(c, id)
        PROVE  RegistryTypeOK' /\ CallsNamePlugins'
    BY <2>0, <2>3 DEF StartPlugin, StopPlugin
  <2>4. ASSUME NEW ok \in BOOLEAN, StopHookEnds(c, ok) \/ StartHooksEnd(c, ok)
        PROVE  RegistryTypeOK' /\ CallsNamePlugins'
    BY <2>0, <2>4 DEF StopHookEnds, StartHooksEnd
  <2>5. CASE AfterStop(c)
    BY <2>0, <2>5 DEF AfterStop, RemoveId
  <2>6. CASE AfterRemoval(c)
    BY <2>0, <2>6 DEF AfterRemoval, ValidateAndInsert, Insert
  <2>7. CASE AfterValidation(c)
    BY <2>0, <2>7 DEF AfterValidation, Insert
  <2>. QED  BY <2>1, <2>2, <2>3, <2>4, <2>5, <2>6, <2>7
<1>. QED  BY <1>1, <1>2
-----------------------------------------------------------------------------
(***************************************************************************)
(* The limit                                                               *)
(***************************************************************************)
Size(P, C) == Cardinality(P) + Cardinality(C)

\* Sets of plugins and of callers are finite.
LEMMA Finite ==
    ASSUME NEW P \in SUBSET PluginId, NEW C \in SUBSET RegistryCaller
    PROVE  /\ IsFiniteSet(P) /\ IsFiniteSet(C)
           /\ Cardinality(P) \in Nat /\ Cardinality(C) \in Nat
           /\ Cardinality(RegistryCaller) \in Nat
           /\ Cardinality(C) <= Cardinality(RegistryCaller)
BY RegistryAssumption, FS_Subset, FS_CardinalityType

LEMMA SizeIsNumber ==
    ASSUME NEW P \in SUBSET PluginId, NEW C \in SUBSET RegistryCaller
    PROVE  Size(P, C) \in Int /\ Cardinality(RegistryCaller) \in Nat
BY Finite DEF Size

\* Neither set grows.
LEMMA NothingTaken ==
    ASSUME NEW P \in SUBSET PluginId, NEW C \in SUBSET RegistryCaller,
           NEW Q \in SUBSET P, NEW S \in SUBSET C
    PROVE  Size(Q, S) <= Size(P, C)
<1>1. Cardinality(Q) <= Cardinality(P) /\ Cardinality(S) <= Cardinality(C)
  BY Finite, FS_Subset
<1>2. Cardinality(Q) \in Nat /\ Cardinality(S) \in Nat
      /\ Cardinality(P) \in Nat /\ Cardinality(C) \in Nat
  BY Finite
<1>. QED  BY <1>1, <1>2 DEF Size

\* One plugin more: at most one.
LEMMA OneMore ==
    ASSUME NEW P \in SUBSET PluginId, NEW id \in PluginId
    PROVE  Cardinality(P \cup {id}) \in Nat /\ Cardinality(P \cup {id}) <= Cardinality(P) + 1
<1>1. IsFiniteSet(P) /\ Cardinality(P) \in Nat
  BY Finite
<1>. QED  BY <1>1, FS_AddElement

LEMMA OneLess ==
    ASSUME NEW C \in SUBSET RegistryCaller, NEW c \in C
    PROVE  Cardinality(C \ {c}) \in Nat /\ Cardinality(C \ {c}) = Cardinality(C) - 1
<1>1. IsFiniteSet(C) /\ Cardinality(C) \in Nat
  BY Finite
<1>. QED  BY <1>1, FS_RemoveElement, FS_CardinalityType

\* The plugin is inserted in the place its caller held.
LEMMA PlaceTaken ==
    ASSUME NEW P \in SUBSET PluginId, NEW C \in SUBSET RegistryCaller,
           NEW id \in PluginId, NEW c \in C, NEW S \in SUBSET (C \ {c})
    PROVE  Size(P \cup {id}, S) <= Size(P, C)
<1>1. Cardinality(S) <= Cardinality(C \ {c}) /\ Cardinality(S) \in Nat
  BY Finite, FS_Subset
<1>2. Cardinality(P) \in Nat /\ Cardinality(C) \in Nat
  BY Finite
<1>. QED  BY <1>1, <1>2, OneMore, OneLess DEF Size

\* A caller that finds room inserts its plugin at once, or holds a place for it.
LEMMA RoomFound ==
    ASSUME NEW P \in SUBSET PluginId, NEW C \in SUBSET RegistryCaller,
           Cardinality(P) < MaxPlugins
    PROVE  /\ Size(P, C) <= MaxPlugins - 1 + Cardinality(RegistryCaller)
           /\ \A id \in PluginId, c \in RegistryCaller : c \notin C =>
                  Size(P \cup {id}, C) <= MaxPlugins - 1 + Cardinality(RegistryCaller)
<1>. USE RegistryAssumption
<1>1. /\ Cardinality(P) \in Nat /\ Cardinality(C) \in Nat
      /\ Cardinality(RegistryCaller) \in Nat /\ Cardinality(C) <= Cardinality(RegistryCaller)
  BY Finite
<1>2. ASSUME NEW id \in PluginId, NEW c \in RegistryCaller, c \notin C
      PROVE  Size(P \cup {id}, C) <= MaxPlugins - 1 + Cardinality(RegistryCaller)
  <2>1. C \in SUBSET (RegistryCaller \ {c})
    BY <1>2
  <2>2. Cardinality(C) <= Cardinality(RegistryCaller \ {c})
    <3>1. IsFiniteSet(RegistryCaller \ {c})
      BY Finite
    <3>. QED  BY <2>1, <3>1, FS_Subset
  <2>3. Cardinality(RegistryCaller \ {c}) = Cardinality(RegistryCaller) - 1
    BY OneLess
  <2>. QED  BY <1>1, <2>2, <2>3, OneMore DEF Size
<1>. QED  BY <1>1, <1>2 DEF Size

\* Where a call goes decides whether it holds a place.
LEMMA CallMoves ==
    ASSUME RegistryTypeOK, NEW c \in RegistryCaller, NEW op, NEW id, NEW await,
           Suspends(c, op, id, await)
    PROVE  Registering' = IF op = "register" /\ await # "startHook"
                          THEN Registering \cup {c} ELSE Registering \ {c}
<1>1. \A d \in RegistryCaller : registryCalls'[d] =
          IF d = c THEN [op |-> op, id |-> id, await |-> await] ELSE registryCalls[d]
  BY DEF RegistryTypeOK, Suspends
<1>. QED  BY <1>1 DEF Registering

Within(P, C) == Size(P, C) <= MaxPlugins - 1 + Cardinality(RegistryCaller)

\* A caller with a place, or with room for one, keeps it or makes use of it.
PlaceFor(c) == c \in Registering \/ HasRoom

LEMMA WithinShrinks ==
    ASSUME RegistryInv, plugins' \subseteq plugins, Registering' \subseteq Registering
    PROVE  Within(plugins', Registering')
<1>1. /\ plugins \in SUBSET PluginId /\ Registering \in SUBSET RegistryCaller
      /\ Within(plugins, Registering)
  BY DEF RegistryInv, RegistryTypeOK, PluginsWithinLimit, Registering, Size, Within
<1>2. Size(plugins', Registering') <= Size(plugins, Registering)
  BY <1>1, NothingTaken
<1>3. /\ Size(plugins', Registering') \in Int /\ Size(plugins, Registering) \in Int
      /\ Cardinality(RegistryCaller) \in Nat
  <2>1. plugins' \in SUBSET PluginId /\ Registering' \in SUBSET RegistryCaller
    BY <1>1
  <2>. QED  BY <1>1, <2>1, SizeIsNumber
<1>. QED  BY <1>1, <1>2, <1>3, RegistryAssumption DEF Within

\* The place is kept, and a plugin may have been removed.
LEMMA WithinKept ==
    ASSUME RegistryInv, NEW c \in RegistryCaller, PlaceFor(c),
           plugins' \subseteq plugins, Registering' \subseteq Registering \cup {c}
    PROVE  Within(plugins', Registering')
<1>1. /\ plugins \in SUBSET PluginId /\ Registering \in SUBSET RegistryCaller
      /\ Registering' \in SUBSET RegistryCaller
  BY DEF RegistryInv, RegistryTypeOK, Registering
<1>2. CASE c \in Registering
  BY <1>2, WithinShrinks
<1>3. CASE HasRoom
  <2>1. Cardinality(plugins') < MaxPlugins
    <3>1. Cardinality(plugins') <= Cardinality(plugins)
      BY <1>1, Finite, FS_Subset
    <3>2. Cardinality(plugins') \in Nat /\ Cardinality(plugins) \in Nat
      <4>1. plugins' \in SUBSET PluginId
        BY <1>1
      <4>. QED  BY <1>1, <4>1, Finite
    <3>. QED  BY <1>3, <3>1, <3>2, RegistryAssumption DEF HasRoom
  <2>. QED  BY <1>1, <2>1, RoomFound DEF Within
<1>. QED  BY <1>2, <1>3 DEF PlaceFor

\* The place is taken by the plugin.
LEMMA WithinTaken ==
    ASSUME RegistryInv, NEW c \in RegistryCaller, NEW id \in PluginId, PlaceFor(c),
           plugins' = plugins \cup {id}, Registering' = Registering \ {c}
    PROVE  Within(plugins', Registering')
<1>1. /\ plugins \in SUBSET PluginId /\ Registering \in SUBSET RegistryCaller
      /\ Within(plugins, Registering)
  BY DEF RegistryInv, RegistryTypeOK, PluginsWithinLimit, Registering, Size, Within
<1>2. CASE c \in Registering
  <2>1. Size(plugins', Registering') <= Size(plugins, Registering)
    BY <1>1, <1>2, PlaceTaken
  <2>2. /\ Size(plugins', Registering') \in Int /\ Size(plugins, Registering) \in Int
        /\ Cardinality(RegistryCaller) \in Nat
    <3>1. plugins' \in SUBSET PluginId /\ Registering' \in SUBSET RegistryCaller
      BY <1>1
    <3>. QED  BY <1>1, <3>1, SizeIsNumber
  <2>. QED  BY <1>1, <2>1, <2>2, RegistryAssumption DEF Within
<1>3. CASE HasRoom
  BY <1>1, <1>3, RoomFound DEF HasRoom, Within
<1>. QED  BY <1>2, <1>3 DEF PlaceFor

\* registerPlugin from the validation of dependencies on.
LEMMA ValidateWithin ==
    ASSUME RegistryInv, NEW c \in RegistryCaller, NEW id \in PluginId, PlaceFor(c),
           ValidateAndInsert(c, id) \/ Insert(c, id)
    PROVE  Within(plugins', Registering')
<1>0. RegistryTypeOK
  BY DEF RegistryInv
<1>1. CASE Insert(c, id)
  <2>1. plugins' = plugins \cup {id} /\ Registering' = Registering \ {c}
    BY <1>0, <1>1, CallMoves DEF Insert, Returns
  <2>. QED  BY <2>1, WithinTaken
<1>2. CASE UNCHANGED plugins /\ Suspends(c, "register", id, "validated")
  BY <1>0, <1>2, CallMoves, WithinKept
<1>3. CASE UNCHANGED plugins /\ Returns(c)
  BY <1>0, <1>3, CallMoves, WithinKept DEF Returns
<1>. QED  BY <1>1, <1>2, <1>3 DEF ValidateAndInsert

\* unregisterPlugin, on behalf of a registration or not.
LEMMA RemovalWithin ==
    ASSUME RegistryInv, NEW c \in RegistryCaller, NEW id \in PluginId, NEW op,
           op = "register" => PlaceFor(c),
           BeginRemoval(c, op, id) \/ RemoveId(c, op, id)
    PROVE  Within(plugins', Registering')
<1>0. RegistryTypeOK
  BY DEF RegistryInv
<1>1. plugins' \subseteq plugins
  BY DEF BeginRemoval, RemoveId
<1>2. \E o, i, a : Suspends(c, o, i, a) /\ (o = "register" => op = "register")
  BY DEF BeginRemoval, RemoveId, Returns
<1>3. CASE op = "register"
  <2>1. Registering' \subseteq Registering \cup {c}
    BY <1>0, <1>2, CallMoves
  <2>. QED  BY <1>1, <1>3, <2>1, WithinKept
<1>4. CASE op # "register"
  <2>1. Registering' \subseteq Registering
    BY <1>0, <1>2, <1>4, CallMoves
  <2>. QED  BY <1>1, <2>1, WithinShrinks
<1>. QED  BY <1>3, <1>4

LEMMA RegistryStepLimit ==
    ASSUME RegistryInv, [RegistryNext]_registryVars PROVE Within(plugins', Registering')
<1>0. RegistryTypeOK /\ CallsNamePlugins
  BY DEF RegistryInv
<1>1. CASE UNCHANGED registryVars
  BY <1>1, WithinShrinks DEF registryVars, Registering
<1>2. CASE RegistryNext
  <2>. SUFFICES ASSUME NEW c \in RegistryCaller,
                       \/ \E id \in PluginId : \/ RegisterPlugin(c, id) \/ UnregisterPlugin(c, id)
                                               \/ StartPlugin(c, id) \/ StopPlugin(c, id)
                       \/ \E ok \in BOOLEAN : StopHookEnds(c, ok) \/ StartHooksEnd(c, ok)
                       \/ AfterStop(c) \/ AfterRemoval(c) \/ AfterValidation(c)
                PROVE  Within(plugins', Registering')
    BY <1>2 DEF RegistryNext
  <2>1. ASSUME NEW id \in PluginId, RegisterPlugin(c, id)
        PROVE  Within(plugins', Registering')
    <3>1. HasRoom /\ (BeginRemoval(c, "register", id) \/ ValidateAndInsert(c, id))
      BY <2>1 DEF RegisterPlugin
    <3>. QED  BY <3>1, RemovalWithin, ValidateWithin DEF PlaceFor
  <2>2. ASSUME NEW id \in PluginId, UnregisterPlugin(c, id)
        PROVE  Within(plugins', Registering')
    BY <2>2, RemovalWithin DEF UnregisterPlugin
  <2>3. ASSUME NEW id \in PluginId, StartPlugin(c, id) \/ StopPlugin(c, id)
        PROVE  Within(plugins', Registering')
    <3>1. plugins' = plugins /\ Registering' \subseteq Registering
      BY <1>0, <2>3, CallMoves DEF StartPlugin, StopPlugin
    <3>. QED  BY <3>1, WithinShrinks
  <2>4. ASSUME NEW ok \in BOOLEAN, StopHookEnds(c, ok) \/ StartHooksEnd(c, ok)
        PROVE  Within(plugins', Registering')
    <3>1. CASE StartHooksEnd(c, ok)
      <4>1. plugins' = plugins /\ Registering' \subseteq Registering
        BY <1>0, <3>1, CallMoves DEF StartHooksEnd, Returns
      <4>. QED  BY <4>1, WithinShrinks
    <3>2. CASE StopHookEnds(c, ok)
      <4>1. registryCalls[c].op = "register" => c \in Registering
        BY <3>2 DEF StopHookEnds, Awaits, Registering
      <4>2. plugins' = plugins /\ Registering' \subseteq Registering
        BY <1>0, <3>2, <4>1, CallMoves DEF StopHookEnds, Returns
      <4>. QED  BY <4>2, WithinShrinks
    <3>. QED  BY <2>4, <3>1, <3>2
  <2>5. CASE AfterStop(c)
    <3>1. registryCalls[c].op = "register" => PlaceFor(c)
      BY <2>5 DEF AfterStop, Awaits, Registering, PlaceFor
    <3>2. registryCalls[c].id \in PluginId
      BY <1>0, <2>5 DEF AfterStop, Awaits, CallsNamePlugins
    <3>. QED  BY <2>5, <3>1, <3>2, RemovalWithin DEF AfterStop
  <2>6. CASE AfterRemoval(c) \/ AfterValidation(c)
    <3>1. c \in Registering /\ registryCalls[c].id \in PluginId
      BY <1>0, <2>6 DEF RegistryInv, AfterRemoval, AfterValidation, Awaits, CallsNamePlugins, Registering
    <3>. QED  BY <2>6, <3>1, ValidateWithin DEF AfterRemoval, AfterValidation, PlaceFor
  <2>. QED  BY <2>1, <2>2, <2>3, <2>4, <2>5, <2>6
<1>. QED  BY <1>1, <1>2
-----------------------------------------------------------------------------
LEMMA RegistryInitInv == RegistryInit => RegistryInv
<1>. SUFFICES ASSUME RegistryInit PROVE RegistryInv
  OBVIOUS
<1>1. RegistryTypeOK /\ CallsNamePlugins
  BY RegistryAssumption DEF RegistryInit, RegistryTypeOK, CallsNamePlugins, Operation, Await
<1>2. plugins = {} /\ Registering = {}
  BY DEF RegistryInit, Registering
<1>3. Cardinality({}) = 0 /\ Cardinality(RegistryCaller) \in Nat
  BY FS_EmptySet, RegistryAssumption, FS_CardinalityType
<1>. QED  BY <1>1, <1>2, <1>3, RegistryAssumption DEF RegistryInv, PluginsWithinLimit

LEMMA RegistryStepInv == RegistryInv /\ [RegistryNext]_registryVars => RegistryInv'
<1>. SUFFICES ASSUME RegistryInv, [RegistryNext]_registryVars PROVE RegistryInv'
  OBVIOUS
<1>1. RegistryTypeOK' /\ CallsNamePlugins'
  BY RegistryStepType DEF RegistryInv
<1>2. PluginsWithinLimit'
  BY RegistryStepLimit DEF PluginsWithinLimit, Within, Size
<1>. QED  BY <1>1, <1>2 DEF RegistryInv

\* However registrations, reloads and removals overlap, the registry holds at most
\* maxPlugins plugins and one more for every further registration under way.
THEOREM RegistryLimitCorrect == RegistrySpec => []PluginsWithinLimit
<1>1. RegistryInv => PluginsWithinLimit
  BY DEF RegistryInv
<1>. QED  BY RegistryInitInv, RegistryStepInv, <1>1, PTL DEF RegistrySpec

\* Calls stay well formed: one that waits is about a plugin.
THEOREM RegistryTypeCorrect == RegistrySpec => []RegistryTypeOK
<1>1. RegistryInv => RegistryTypeOK
  BY DEF RegistryInv
<1>. QED  BY RegistryInitInv, RegistryStepInv, <1>1, PTL DEF RegistrySpec
-----------------------------------------------------------------------------
(***************************************************************************)
(* StreamProcessor: SentInOrder and QueueWithinLimit for any batch and queue *)
(* sizes, retries and errors.  What was sent, is in progress and waits, in *)
(* this order, came in this order.                                         *)
(***************************************************************************)

\* Points of a sequence are in the order in which they came.
Ascending(s) == \A i, j \in DOMAIN s : i < j => s[i] < s[j]

\* Everything in s is older than everything in t.
Older(s, t) == \A i \in DOMAIN s, j \in DOMAIN t : s[i] < t[j]

\* What was sent, is in progress and waits, in this order, came in this order.
InLine ==
    /\ Ascending(sent) /\ Ascending(batch) /\ Ascending(waiting)
    /\ Older(sent, batch) /\ Older(sent, waiting) /\ Older(batch, waiting)

Arrived ==
    /\ \A i \in DOMAIN sent : sent[i] <= added
    /\ \A i \in DOMAIN batch : batch[i] <= added
    /\ \A i \in DOMAIN waiting : waiting[i] <= added
    /\ dropped \subseteq 1..added

\* What is put back comes on top of what was let in beside it.
Lengths ==
    /\ Len(batch) <= StreamBatch
    /\ Len(waiting) + Len(batch) <= StreamQueue + StreamBatch

NoneLost == errorHeard => 1..added \subseteq Gone \cup Underway

StreamInv == StreamTypeOK /\ InLine /\ Arrived /\ Lengths /\ NoneLost

\* A queue of points that have arrived, q, together with the batch and behind it.
Queued(q, n) ==
    /\ q \in Seq(Points) /\ Ascending(q) /\ Older(sent, q) /\ Older(batch, q)
    /\ \A i \in DOMAIN q : q[i] <= n

LEMMA ToSetElements == \A s : ToSet(s) = Elements(s)
BY DEF ToSet, Elements

LEMMA ConcatPoints ==
    ASSUME NEW s \in Seq(Points), NEW t \in Seq(Points)
    PROVE  /\ s \o t \in Seq(Points) /\ Len(s \o t) = Len(s) + Len(t)
           /\ ToSet(s \o t) = ToSet(s) \cup ToSet(t)
           /\ \A x : (\A i \in DOMAIN s : s[i] <= x) /\ (\A i \in DOMAIN t : t[i] <= x)
                     => \A i \in DOMAIN (s \o t) : (s \o t)[i] <= x
           /\ \A u : Older(u, s) /\ Older(u, t) => Older(u, s \o t)
           /\ \A u : Older(s, u) /\ Older(t, u) => Older(s \o t, u)
           /\ Ascending(s) /\ Ascending(t) /\ Older(s, t) => Ascending(s \o t)
<1>. DEFINE c == s \o t
<1>1. /\ c \in Seq(Points) /\ Len(c) = Len(s) + Len(t)
      /\ \A i \in 1..(Len(s) + Len(t)) : c[i] = IF i <= Len(s) THEN s[i] ELSE t[i - Len(s)]
  BY ConcatProperties
<1>2. /\ DOMAIN s = 1..Len(s) /\ DOMAIN t = 1..Len(t) /\ DOMAIN c = 1..(Len(s) + Len(t))
      /\ Len(s) \in Nat /\ Len(t) \in Nat
  BY <1>1
<1>3. ToSet(c) = ToSet(s) \cup ToSet(t)
  BY ConcatElements, ToSetElements
<1>. HIDE DEF c
<1>4. \A i \in DOMAIN c : \/ i \in DOMAIN s /\ c[i] = s[i]
                          \/ i - Len(s) \in DOMAIN t /\ c[i] = t[i - Len(s)]
  BY <1>1, <1>2
<1>5. ASSUME Ascending(s), Ascending(t), Older(s, t)  PROVE Ascending(c)
  <2>. SUFFICES ASSUME NEW i \in DOMAIN c, NEW j \in DOMAIN c, i < j  PROVE c[i] < c[j]
    BY DEF Ascending
  <2>1. CASE j <= Len(s)
    <3>1. i \in DOMAIN s /\ j \in DOMAIN s /\ c[i] = s[i] /\ c[j] = s[j]
      BY <1>1, <1>2, <2>1
    <3>. QED  BY <1>5, <3>1 DEF Ascending
  <2>2. CASE i <= Len(s) /\ ~(j <= Len(s))
    <3>1. /\ i \in DOMAIN s /\ j - Len(s) \in DOMAIN t
          /\ c[i] = s[i] /\ c[j] = t[j - Len(s)]
      BY <1>1, <1>2, <2>2
    <3>. QED  BY <1>5, <3>1 DEF Older
  <2>3. CASE ~(i <= Len(s))
    <3>1. /\ i - Len(s) \in DOMAIN t /\ j - Len(s) \in DOMAIN t /\ i - Len(s) < j - Len(s)
          /\ c[i] = t[i - Len(s)] /\ c[j] = t[j - Len(s)]
      BY <1>1, <1>2, <2>3
    <3>. QED  BY <1>5, <3>1 DEF Ascending
  <2>. QED  BY <1>2, <2>1, <2>2, <2>3
<1>6. \A u : Older(u, s) /\ Older(u, t) => Older(u, c)
  BY <1>4 DEF Older
<1>7. \A u : Older(s, u) /\ Older(t, u) => Older(c, u)
  BY <1>4 DEF Older
<1>8. \A x : (\A i \in DOMAIN s : s[i] <= x) /\ (\A i \in DOMAIN t : t[i] <= x)
             => \A i \in DOMAIN c : c[i] <= x
  BY <1>4
<1>. QED  BY <1>1, <1>3, <1>5, <1>6, <1>7, <1>8 DEF c

\* A queue is cut into a batch and the rest.
LEMMA CutPoints ==
    ASSUME NEW q \in Seq(Points)
    PROVE  LET f == First(q, StreamBatch)
               r == Rest(q, StreamBatch)
           IN  /\ f \in Seq(Points) /\ r \in Seq(Points)
               /\ Len(f) <= StreamBatch /\ Len(f) + Len(r) = Len(q)
               /\ ToSet(q) = ToSet(f) \cup ToSet(r)
               /\ \A i \in DOMAIN f : i \in DOMAIN q /\ f[i] = q[i]
               /\ \A i \in DOMAIN r : i + Len(f) \in DOMAIN q /\ r[i] = q[i + Len(f)]
<1>. DEFINE n == IF Len(q) < StreamBatch THEN Len(q) ELSE StreamBatch
            f == SubSeq(q, 1, n)
            r == SubSeq(q, StreamBatch + 1, Len(q))
<1>1. Len(q) \in Nat /\ StreamBatch \in Nat
  BY StreamAssumption
<1>2. n \in 0..Len(q) /\ n <= StreamBatch
      /\ (StreamBatch + 1 <= Len(q) => n = StreamBatch)
      /\ (~(StreamBatch + 1 <= Len(q)) => n = Len(q))
  BY <1>1
<1>3. \A i \in 1..Len(q) : q[i] \in Points
  OBVIOUS
<1>4. f = First(q, StreamBatch) /\ r = Rest(q, StreamBatch)
  BY DEF First, Rest
<1>. HIDE DEF n
<1>5. f \in Seq(Points) /\ Len(f) = n /\ \A i \in 1..n : f[i] = q[i]
  <2>1. \A i \in 1..n : q[i] \in Points
    BY <1>1, <1>2, <1>3
  <2>2. n \in Int /\ 1 \in Int
    BY <1>1, <1>2
  <2>3. /\ f \in Seq(Points)
        /\ Len(f) = IF 1 <= n THEN n - 1 + 1 ELSE 0
        /\ \A i \in 1..(n - 1 + 1) : f[i] = q[1 + i - 1]
    BY <2>1, <2>2, SubSeqProperties
  <2>. HIDE DEF f
  <2>. QED  BY <1>1, <1>2, <2>3
<1>6. /\ r \in Seq(Points) /\ Len(r) = Len(q) - n
      /\ \A i \in 1..(Len(q) - n) : r[i] = q[i + n]
  <2>1. \A i \in (StreamBatch + 1)..Len(q) : q[i] \in Points
    BY <1>1, <1>3
  <2>2. StreamBatch + 1 \in Int /\ Len(q) \in Int
    BY <1>1
  <2>3. /\ r \in Seq(Points)
        /\ Len(r) = IF StreamBatch + 1 <= Len(q) THEN Len(q) - (StreamBatch + 1) + 1 ELSE 0
        /\ \A i \in 1..(Len(q) - (StreamBatch + 1) + 1) : r[i] = q[StreamBatch + 1 + i - 1]
    BY <2>1, <2>2, SubSeqProperties
  <2>. HIDE DEF r
  <2>4. CASE StreamBatch + 1 <= Len(q)
    BY <1>1, <1>2, <2>3, <2>4
  <2>5. CASE ~(StreamBatch + 1 <= Len(q))
    BY <1>1, <1>2, <2>3, <2>5
  <2>. QED  BY <2>4, <2>5
<1>. HIDE DEF f, r
<1>7. DOMAIN q = 1..Len(q) /\ DOMAIN f = 1..n /\ DOMAIN r = 1..(Len(q) - n)
  BY <1>5, <1>6
<1>8. /\ \A i \in DOMAIN f : i \in DOMAIN q /\ f[i] = q[i]
      /\ \A i \in DOMAIN r : i + n \in DOMAIN q /\ r[i] = q[i + n]
  BY <1>1, <1>2, <1>5, <1>6, <1>7
<1>9. ASSUME NEW i \in DOMAIN q
      PROVE  \/ i \in DOMAIN f /\ f[i] = q[i]
             \/ i - n \in DOMAIN r /\ r[i - n] = q[i]
  BY <1>1, <1>2, <1>5, <1>6, <1>7
<1>10. ToSet(q) = ToSet(f) \cup ToSet(r)
  BY <1>8, <1>9 DEF ToSet
<1>11. Len(f) <= StreamBatch /\ Len(f) + Len(r) = Len(q)
  BY <1>1, <1>2, <1>5, <1>6
<1>. QED  BY <1>4, <1>5, <1>6, <1>8, <1>10, <1>11

\* processBatch moves points from the queue to the batch, in their order.
LEMMA ProcessBatchMoves ==
    ASSUME batch \in Seq(Points), failures \in 0..StreamRetries, Ascending(batch),
           Older(sent, batch), Len(batch) <= StreamBatch,
           NEW n \in Int, \A i \in DOMAIN batch : batch[i] <= n,
           NEW q, Queued(q, n), ProcessBatch(q)
    PROVE  /\ waiting' \in Seq(Points) /\ batch' \in Seq(Points)
           /\ failures' \in 0..StreamRetries
           /\ Ascending(batch') /\ Ascending(waiting') /\ Older(batch', waiting')
           /\ Older(sent, batch') /\ Older(sent, waiting')
           /\ \A i \in DOMAIN batch' : batch'[i] <= n
           /\ \A i \in DOMAIN waiting' : waiting'[i] <= n
           /\ Len(batch') <= StreamBatch
           /\ Len(waiting') + Len(batch') = Len(q) + Len(batch)
           /\ ToSet(waiting') \cup ToSet(batch') = ToSet(q) \cup ToSet(batch)
<1>1. CASE batch # <<>>
  BY <1>1 DEF ProcessBatch, Queued
<1>2. CASE batch = <<>>
  <2>. DEFINE f == First(q, StreamBatch)
              r == Rest(q, StreamBatch)
  <2>1. /\ waiting' = r /\ batch' = f /\ failures' = 0
    BY <1>2 DEF ProcessBatch
  <2>2. q \in Seq(Points) /\ Len(q) \in Nat /\ DOMAIN q = 1..Len(q)
    BY DEF Queued
  <2>3. /\ f \in Seq(Points) /\ r \in Seq(Points)
        /\ Len(f) <= StreamBatch /\ Len(f) + Len(r) = Len(q)
        /\ ToSet(q) = ToSet(f) \cup ToSet(r)
        /\ \A i \in DOMAIN f : i \in DOMAIN q /\ f[i] = q[i]
        /\ \A i \in DOMAIN r : i + Len(f) \in DOMAIN q /\ r[i] = q[i + Len(f)]
    BY <2>2, CutPoints
  <2>. HIDE DEF f, r
  <2>4. /\ DOMAIN f = 1..Len(f) /\ DOMAIN r = 1..Len(r)
        /\ Len(f) \in Nat /\ Len(r) \in Nat
    BY <2>3
  <2>5. Ascending(f) /\ Older(sent, f) /\ \A i \in DOMAIN f : f[i] <= n
    <3>1. Ascending(f)
      BY <2>3 DEF Queued, Ascending
    <3>. QED  BY <2>3, <3>1 DEF Queued, Older
  <2>6. Older(sent, r) /\ \A i \in DOMAIN r : r[i] <= n
    BY <2>3 DEF Queued, Older
  <2>7. Ascending(r)
    <3>. SUFFICES ASSUME NEW i \in DOMAIN r, NEW j \in DOMAIN r, i < j  PROVE r[i] < r[j]
      BY DEF Ascending
    <3>1. i + Len(f) < j + Len(f)
      BY <2>4
    <3>. QED  BY <2>3, <3>1 DEF Queued, Ascending
  <2>8. Older(f, r)
    <3>. SUFFICES ASSUME NEW i \in DOMAIN f, NEW j \in DOMAIN r  PROVE f[i] < r[j]
      BY DEF Older
    <3>1. i < j + Len(f)
      BY <2>4
    <3>. QED  BY <2>3, <3>1 DEF Queued, Ascending
  <2>9. Len(batch) = 0 /\ ToSet(batch) = {}
    BY <1>2 DEF ToSet
  <2>10. Len(r) + Len(f) = Len(q) + Len(batch)
    <3>1. Len(f) + Len(r) = Len(q) /\ Len(batch) = 0
      BY <2>3, <2>9
    <3>. QED  BY <2>4, <3>1
  <2>11. 0 \in 0..StreamRetries
    BY StreamAssumption
  <2>. QED  BY <2>1, <2>3, <2>5, <2>6, <2>7, <2>8, <2>9, <2>10, <2>11
<1>. QED  BY <1>1, <1>2

LEMMA StreamInitInv == StreamInit => StreamInv
<1>. SUFFICES ASSUME StreamInit PROVE StreamInv
  OBVIOUS
<1>1. /\ added = 0 /\ waiting = <<>> /\ batch = <<>> /\ sent = <<>> /\ dropped = {}
      /\ failures = 0 /\ flushing = TRUE /\ errorHeard \in BOOLEAN
  BY DEF StreamInit
<1>2. <<>> \in Seq(Points) /\ DOMAIN <<>> = {} /\ Len(<<>>) = 0
  OBVIOUS
<1>3. StreamTypeOK
  BY <1>1, <1>2, StreamAssumption DEF StreamTypeOK
<1>4. InLine /\ Arrived
  BY <1>1, <1>2 DEF InLine, Arrived, Ascending, Older
<1>5. Lengths
  BY <1>1, <1>2, StreamAssumption DEF Lengths
<1>6. NoneLost
  BY <1>1 DEF NoneLost
<1>. QED  BY <1>3, <1>4, <1>5, <1>6 DEF StreamInv

\* A point arrives: a full queue drops its head, and a full batch is begun.
LEMMA AddDataPointKeeps ==
    ASSUME StreamInv, AddDataPoint, UNCHANGED errorHeard
    PROVE  StreamInv'
<1>. DEFINE full == Len(waiting) >= StreamQueue
            kept == IF full THEN Tail(waiting) ELSE waiting
            new == <<added + 1>>
            q == kept \o new
<1>1. /\ added \in 0..MaxPoints /\ waiting \in Seq(Points) /\ batch \in Seq(Points)
      /\ sent \in Seq(Points) /\ failures \in 0..StreamRetries /\ dropped \in SUBSET Points
      /\ Len(waiting) \in Nat /\ Len(batch) \in Nat /\ MaxPoints \in Nat
      /\ StreamQueue \in Nat \ {0} /\ StreamBatch \in Nat \ {0}
  BY StreamAssumption DEF StreamInv, StreamTypeOK
<1>2. /\ added' = added + 1 /\ added' \in Points /\ added' \in 0..MaxPoints
      /\ sent' = sent /\ flushing' = flushing /\ errorHeard' = errorHeard
      /\ dropped' = IF full THEN dropped \cup {Head(waiting)} ELSE dropped
  BY <1>1 DEF AddDataPoint, Points
<1>3. new \in Seq(Points) /\ Len(new) = 1 /\ DOMAIN new = {1} /\ new[1] = added'
  BY <1>2
<1>4. full => waiting # <<>> /\ Head(waiting) = waiting[1] /\ 1 \in DOMAIN waiting
  BY <1>1
<1>5. /\ InLine /\ Arrived /\ Len(batch) <= StreamBatch
      /\ Len(waiting) + Len(batch) <= StreamQueue + StreamBatch
      /\ DOMAIN waiting = 1..Len(waiting)
  BY <1>1 DEF StreamInv, Lengths
<1>6. /\ kept \in Seq(Points) /\ Len(kept) + 1 + Len(batch) <= StreamQueue + StreamBatch
      /\ Ascending(kept) /\ Older(sent, kept) /\ Older(batch, kept)
      /\ \A i \in DOMAIN kept : kept[i] <= added
      /\ ToSet(waiting) \cup dropped \subseteq ToSet(kept) \cup dropped'
      /\ dropped' \subseteq 1..added'
  <2>1. CASE full
    <3>1. /\ kept \in Seq(Points) /\ Len(kept) = Len(waiting) - 1
          /\ DOMAIN kept = 1..(Len(waiting) - 1)
          /\ \A i \in DOMAIN kept : kept[i] = waiting[i + 1] /\ i + 1 \in DOMAIN waiting
      BY <1>1, <1>4, <2>1, HeadTailProperties
    <3>. HIDE DEF kept, full
    <3>2. Ascending(kept)
      BY <1>1, <1>5, <3>1 DEF InLine, Ascending
    <3>3. Older(sent, kept) /\ Older(batch, kept) /\ \A i \in DOMAIN kept : kept[i] <= added
      BY <1>5, <3>1 DEF InLine, Older, Arrived
    <3>4. Len(kept) + 1 + Len(batch) <= StreamQueue + StreamBatch
      <4>1. Len(kept) = Len(waiting) - 1
        BY <3>1
      <4>. QED  BY <1>1, <1>5, <4>1
    <3>5. /\ waiting[1] \in Points /\ waiting[1] <= added /\ dropped \subseteq 1..added
          /\ dropped' = dropped \cup {waiting[1]}
      BY <1>1, <1>2, <1>4, <1>5, <2>1 DEF Arrived
    <3>6. dropped' \subseteq 1..added'
      <4>1. 1..added \subseteq 1..added'
        BY <1>1, <1>2
      <4>2. waiting[1] \in 1..added
        BY <1>1, <3>5 DEF Points
      <4>. QED  BY <3>5, <4>1, <4>2
    <3>7. \A i \in DOMAIN waiting : i = 1 \/ (i - 1 \in DOMAIN kept /\ kept[i - 1] = waiting[i])
      BY <1>1, <1>5, <3>1
    <3>8. ToSet(waiting) \subseteq ToSet(kept) \cup dropped'
      BY <3>5, <3>7 DEF ToSet
    <3>. QED  BY <3>1, <3>2, <3>3, <3>4, <3>5, <3>6, <3>8
  <2>2. CASE ~full
    <3>1. kept = waiting /\ dropped' = dropped /\ ~(Len(waiting) >= StreamQueue)
      BY <1>2, <2>2
    <3>. HIDE DEF kept, full
    <3>2. Len(kept) + 1 + Len(batch) <= StreamQueue + StreamBatch
      BY <1>1, <1>5, <3>1
    <3>3. dropped' \subseteq 1..added'
      <4>1. 1..added \subseteq 1..added'
        BY <1>1, <1>2
      <4>. QED  BY <1>5, <3>1, <4>1 DEF Arrived
    <3>. QED  BY <1>1, <1>5, <3>1, <3>2, <3>3 DEF InLine, Arrived
  <2>. QED  BY <2>1, <2>2
<1>7. /\ q = Append(kept, added + 1)
      /\ IF Len(q) >= StreamBatch THEN ProcessBatch(q)
         ELSE waiting' = q /\ UNCHANGED <<batch, failures>>
  <2>1. q = Append(kept, added + 1)
    <3>1. added + 1 \in Points
      BY <1>2
    <3>. HIDE DEF kept
    <3>. QED  BY <1>6, <3>1, AppendIsConcat
  <2>. QED  BY <2>1 DEF AddDataPoint
<1>. HIDE DEF kept, full, new
<1>8. /\ q \in Seq(Points) /\ Len(q) = Len(kept) + 1 /\ Len(kept) \in Nat
      /\ ToSet(q) = ToSet(kept) \cup {added'}
      /\ Queued(q, added')
  <2>1. ToSet(new) = {added'}
    BY <1>3 DEF ToSet
  <2>2. /\ Ascending(new) /\ Older(kept, new) /\ Older(sent, new) /\ Older(batch, new)
    <3>1. Ascending(new)
      BY <1>3 DEF Ascending
    <3>2. \A s \in {kept, sent, batch} : s \in Seq(Points) /\ \A i \in DOMAIN s : s[i] <= added /\ s[i] \in Int
      BY <1>1, <1>5, <1>6 DEF Arrived, Points
    <3>3. ASSUME NEW s \in {kept, sent, batch}  PROVE Older(s, new)
      BY <1>1, <1>2, <1>3, <3>2 DEF Older
    <3>. QED  BY <3>1, <3>3
  <2>3. /\ q \in Seq(Points) /\ Len(q) = Len(kept) + Len(new)
        /\ ToSet(q) = ToSet(kept) \cup ToSet(new)
        /\ Ascending(q) /\ Older(sent, q) /\ Older(batch, q)
    BY <1>3, <1>6, <2>2, ConcatPoints
  <2>4. \A i \in DOMAIN q : q[i] <= added'
    <3>1. \A i \in DOMAIN new : new[i] <= added'
      BY <1>2, <1>3 DEF Points
    <3>2. \A i \in DOMAIN kept : kept[i] <= added' /\ kept[i] \in Int
      BY <1>1, <1>2, <1>6 DEF Points
    <3>. QED  BY <1>3, <1>6, <3>1, <3>2, ConcatPoints
  <2>5. Len(kept) \in Nat
    BY <1>6
  <2>. HIDE DEF q
  <2>. QED  BY <1>3, <2>1, <2>3, <2>4, <2>5 DEF Queued
<1>. HIDE DEF q
<1>9. /\ waiting' \in Seq(Points) /\ batch' \in Seq(Points)
      /\ failures' \in 0..StreamRetries
      /\ Ascending(batch') /\ Ascending(waiting') /\ Older(batch', waiting')
      /\ Older(sent, batch') /\ Older(sent, waiting')
      /\ \A i \in DOMAIN batch' : batch'[i] <= added'
      /\ \A i \in DOMAIN waiting' : waiting'[i] <= added'
      /\ Len(batch') <= StreamBatch
      /\ Len(waiting') + Len(batch') = Len(q) + Len(batch)
      /\ ToSet(waiting') \cup ToSet(batch') = ToSet(q) \cup ToSet(batch)
  <2>1. /\ Ascending(batch) /\ Older(sent, batch) /\ added' \in Int
        /\ \A i \in DOMAIN batch : batch[i] <= added' /\ batch[i] \in Int
    BY <1>1, <1>2, <1>5 DEF InLine, Arrived, Points
  <2>2. CASE Len(q) >= StreamBatch
    BY <1>1, <1>5, <1>7, <1>8, <2>1, <2>2, ProcessBatchMoves
  <2>3. CASE ~(Len(q) >= StreamBatch)
    <3>1. waiting' = q /\ batch' = batch /\ failures' = failures
      BY <1>7, <2>3
    <3>. QED  BY <1>1, <1>5, <1>8, <2>1, <3>1 DEF Queued
  <2>. QED  BY <2>2, <2>3
<1>10. StreamTypeOK'
  BY <1>1, <1>2, <1>6, <1>9 DEF StreamInv, StreamTypeOK, Points
<1>11. InLine' /\ Arrived'
  <2>1. \A i \in DOMAIN sent : sent[i] <= added' /\ sent[i] \in Int
    BY <1>1, <1>2, <1>5 DEF Arrived, Points
  <2>2. Ascending(sent)
    BY <1>5 DEF InLine
  <2>. QED  BY <1>2, <1>6, <1>9, <2>1, <2>2 DEF InLine, Arrived
<1>12. Lengths'
  <2>1. Len(waiting') + Len(batch') = Len(kept) + 1 + Len(batch)
    BY <1>8, <1>9
  <2>. QED  BY <1>6, <1>9, <2>1 DEF Lengths
<1>13. NoneLost'
  <2>. SUFFICES ASSUME errorHeard'  PROVE 1..added' \subseteq (Gone \cup Underway)'
    BY DEF NoneLost
  <2>1. 1..added \subseteq ToSet(sent) \cup dropped \cup ToSet(waiting) \cup ToSet(batch)
    BY <1>2 DEF StreamInv, NoneLost, Gone, Underway
  <2>2. 1..added' = 1..added \cup {added'}
    BY <1>1, <1>2
  <2>. QED  BY <1>2, <1>6, <1>8, <1>9, <2>1, <2>2 DEF Gone, Underway
<1>. QED  BY <1>10, <1>11, <1>12, <1>13 DEF StreamInv

LEMMA StreamStepInv == StreamInv /\ [StreamNext]_streamVars => StreamInv'
<1>. SUFFICES ASSUME StreamInv, [StreamNext]_streamVars PROVE StreamInv'
  OBVIOUS
<1>1. /\ added \in 0..MaxPoints /\ waiting \in Seq(Points) /\ batch \in Seq(Points)
      /\ sent \in Seq(Points) /\ failures \in 0..StreamRetries /\ dropped \in SUBSET Points
      /\ Len(waiting) \in Nat /\ Len(batch) \in Nat
      /\ InLine /\ Arrived /\ Lengths /\ NoneLost
  BY DEF StreamInv, StreamTypeOK
<1>2. <<>> \in Seq(Points) /\ DOMAIN <<>> = {} /\ Len(<<>>) = 0 /\ ToSet(<<>>) = {}
  BY DEF ToSet
<1>3. ASSUME AddDataPoint, UNCHANGED errorHeard  PROVE StreamInv'
  BY <1>3, AddDataPointKeeps
<1>4. ASSUME Flush, UNCHANGED errorHeard  PROVE StreamInv'
  <2>1. /\ batch = <<>> /\ ProcessBatch(waiting) /\ UNCHANGED <<added, sent, dropped, flushing>>
    BY <1>4 DEF Flush
  <2>2. Queued(waiting, added) /\ added \in Int /\ Ascending(batch) /\ Older(sent, batch)
        /\ Len(batch) <= StreamBatch /\ \A i \in DOMAIN batch : batch[i] <= added
    BY <1>1 DEF Queued, InLine, Arrived, Lengths
  <2>3. /\ waiting' \in Seq(Points) /\ batch' \in Seq(Points)
        /\ failures' \in 0..StreamRetries
        /\ Ascending(batch') /\ Ascending(waiting') /\ Older(batch', waiting')
        /\ Older(sent, batch') /\ Older(sent, waiting')
        /\ \A i \in DOMAIN batch' : batch'[i] <= added
        /\ \A i \in DOMAIN waiting' : waiting'[i] <= added
        /\ Len(batch') <= StreamBatch
        /\ Len(waiting') + Len(batch') = Len(waiting) + Len(batch)
        /\ ToSet(waiting') \cup ToSet(batch') = ToSet(waiting) \cup ToSet(batch)
    BY <1>1, <2>1, <2>2, ProcessBatchMoves
  <2>4. StreamTypeOK'
    BY <1>4, <2>1, <2>3 DEF StreamInv, StreamTypeOK
  <2>5. InLine' /\ Arrived' /\ Lengths' /\ NoneLost'
    BY <1>1, <1>4, <2>1, <2>3 DEF InLine, Arrived, Lengths, NoneLost, Gone, Underway
  <2>. QED  BY <2>4, <2>5 DEF StreamInv
<1>5. ASSUME BatchSent, UNCHANGED errorHeard  PROVE StreamInv'
  <2>1. /\ sent' = sent \o batch /\ batch' = <<>>
        /\ UNCHANGED <<added, waiting, failures, dropped, flushing, errorHeard>>
    BY <1>5 DEF BatchSent
  <2>2. /\ sent' \in Seq(Points) /\ ToSet(sent') = ToSet(sent) \cup ToSet(batch)
        /\ \A i \in DOMAIN sent' : sent'[i] <= added
        /\ Older(sent', waiting) /\ Ascending(sent')
    BY <1>1, <2>1, ConcatPoints DEF InLine, Arrived
  <2>3. StreamTypeOK'
    BY <1>2, <2>1, <2>2 DEF StreamInv, StreamTypeOK
  <2>4. InLine' /\ Arrived'
    BY <1>1, <1>2, <2>1, <2>2 DEF InLine, Arrived, Ascending, Older
  <2>5. Lengths'
    <3>1. Len(batch') = 0 /\ Len(waiting') = Len(waiting)
      BY <1>2, <2>1
    <3>. QED  BY <1>1, <3>1, StreamAssumption DEF Lengths
  <2>6. NoneLost'
    BY <1>1, <1>2, <2>1, <2>2 DEF NoneLost, Gone, Underway
  <2>. QED  BY <2>3, <2>4, <2>5, <2>6 DEF StreamInv
<1>6. ASSUME BatchFails, UNCHANGED errorHeard  PROVE StreamInv'
  <2>1. /\ UNCHANGED <<added, sent, dropped, flushing, errorHeard>>
    BY <1>6 DEF BatchFails
  <2>2. CASE failures = 0 /\ ~errorHeard
    <3>1. batch' = <<>> /\ waiting' = waiting /\ failures' = failures
      BY <1>6, <2>2 DEF BatchFails
    <3>2. StreamTypeOK'
      BY <1>2, <2>1, <3>1 DEF StreamInv, StreamTypeOK
    <3>3. InLine' /\ Arrived'
      BY <1>1, <1>2, <2>1, <3>1 DEF InLine, Arrived, Ascending, Older
    <3>4. Lengths'
      <4>1. Len(batch') = 0 /\ Len(waiting') = Len(waiting)
        BY <1>2, <3>1
      <4>. QED  BY <1>1, <4>1, StreamAssumption DEF Lengths
    <3>. QED  BY <2>1, <2>2, <3>2, <3>3, <3>4 DEF StreamInv, NoneLost
  <2>3. CASE ~(failures = 0 /\ ~errorHeard) /\ failures < StreamRetries
    <3>1. batch' = batch /\ waiting' = waiting /\ failures' = failures + 1
      BY <1>6, <2>3 DEF BatchFails
    <3>2. failures' \in 0..StreamRetries
      BY <1>1, <2>3, <3>1, StreamAssumption
    <3>. QED  BY <2>1, <3>1, <3>2
              DEF StreamInv, StreamTypeOK, InLine, Arrived, Lengths, NoneLost, Gone, Underway
  <2>4. CASE ~(failures = 0 /\ ~errorHeard) /\ ~(failures < StreamRetries)
    <3>1. waiting' = batch \o waiting /\ batch' = <<>> /\ failures' = failures
      BY <1>6, <2>4 DEF BatchFails, PutBack
    <3>2. /\ waiting' \in Seq(Points) /\ Len(waiting') = Len(batch) + Len(waiting)
          /\ ToSet(waiting') = ToSet(batch) \cup ToSet(waiting)
          /\ \A i \in DOMAIN waiting' : waiting'[i] <= added
          /\ Older(sent, waiting') /\ Ascending(waiting')
      BY <1>1, <3>1, ConcatPoints DEF InLine, Arrived
    <3>3. StreamTypeOK'
      BY <1>2, <2>1, <3>1, <3>2 DEF StreamInv, StreamTypeOK
    <3>4. InLine' /\ Arrived'
      BY <1>1, <1>2, <2>1, <3>1, <3>2 DEF InLine, Arrived, Ascending, Older
    <3>5. Lengths'
      <4>1. Len(batch') = 0
        BY <1>2, <3>1
      <4>. QED  BY <1>1, <3>2, <4>1, StreamAssumption DEF Lengths
    <3>6. NoneLost'
      BY <1>1, <1>2, <2>1, <3>1, <3>2 DEF NoneLost, Gone, Underway
    <3>. QED  BY <3>3, <3>4, <3>5, <3>6 DEF StreamInv
  <2>. QED  BY <2>2, <2>3, <2>4
<1>7. ASSUME StopStream, UNCHANGED errorHeard  PROVE StreamInv'
  BY <1>7 DEF StopStream, StreamInv, StreamTypeOK, InLine, Arrived, Lengths, NoneLost,
              Gone, Underway
<1>8. CASE UNCHANGED streamVars
  BY <1>8 DEF streamVars, StreamInv, StreamTypeOK, InLine, Arrived, Lengths, NoneLost,
              Gone, Underway
<1>. QED  BY <1>3, <1>4, <1>5, <1>6, <1>7, <1>8 DEF StreamNext

LEMMA StreamInductive == StreamSpec => []StreamInv
BY StreamInitInv, StreamStepInv, PTL DEF StreamSpec

\* The processor's state is well typed.
THEOREM StreamTypeCorrect == StreamSpec => []StreamTypeOK
BY StreamInductive, PTL DEF StreamInv

\* Points are sent once, in their order, and none is lost while errors are heard.
THEOREM SentInOrderCorrect == StreamSpec => []SentInOrder
<1>1. ASSUME StreamInv  PROVE SentInOrder
  <2>. DEFINE head == sent \o batch
  <2>1. sent \in Seq(Points) /\ batch \in Seq(Points) /\ waiting \in Seq(Points)
    BY <1>1 DEF StreamInv, StreamTypeOK
  <2>2. /\ head \in Seq(Points) /\ Ascending(head) /\ Older(head, waiting)
    BY <1>1, <2>1, ConcatPoints DEF StreamInv, InLine
  <2>. HIDE DEF head
  <2>3. Ascending(head \o waiting)
    BY <1>1, <2>1, <2>2, ConcatPoints DEF StreamInv, InLine
  <2>4. Gone \cup Underway \subseteq 1..added
    <3>1. \A s \in {sent, batch, waiting} :
              s \in Seq(Points) /\ \A i \in DOMAIN s : s[i] \in Points /\ s[i] <= added
      BY <1>1, <2>1 DEF StreamInv, Arrived
    <3>2. \A s \in {sent, batch, waiting} : \A i \in DOMAIN s : s[i] \in 1..added
      BY <1>1, <3>1, StreamAssumption DEF StreamInv, StreamTypeOK, Points
    <3>3. dropped \subseteq 1..added
      BY <1>1 DEF StreamInv, Arrived
    <3>. QED  BY <3>2, <3>3 DEF Gone, Underway, ToSet
  <2>. QED  BY <1>1, <2>3, <2>4 DEF StreamInv, NoneLost, SentInOrder, Ascending, head
<1>. QED  BY <1>1, StreamInductive, PTL

\* The queue outgrows its limit by one batch at most.
THEOREM QueueCorrect == StreamSpec => []QueueWithinLimit
<1>1. ASSUME StreamInv  PROVE QueueWithinLimit
  <2>1. Len(waiting) \in Nat /\ Len(batch) \in Nat
    BY <1>1 DEF StreamInv, StreamTypeOK
  <2>. QED  BY <1>1, <2>1, StreamAssumption DEF StreamInv, Lengths, QueueWithinLimit
<1>. QED  BY <1>1, StreamInductive, PTL
-----------------------------------------------------------------------------
(***************************************************************************)
(* MemoryCache: CacheWithinLimit and CacheTypeOK for any keys, sizes and   *)
(* limits.  An empty place counts nothing, so that memoryUsage is summed   *)
(* over all keys, of which a step changes one, or leaves some empty.       *)
(***************************************************************************)

Sizes == [CacheKey -> EntrySize \cup {0}]

NonEmpty(e) == {k \in CacheKey : e[k] # 0}

CacheInv == CacheTypeOK /\ CacheWithinLimit

\* Places that are empty add nothing.
LEMMA EmptyAddsNothing ==
    ASSUME CacheAssumption, NEW e \in Sizes
    PROVE  /\ IsFiniteSet(CacheKey) /\ \A k \in CacheKey : e[k] \in Nat
           /\ Total(e, NonEmpty(e)) = Total(e, CacheKey) /\ Total(e, CacheKey) \in Nat
<1>1. IsFiniteSet(CacheKey) /\ \A k \in CacheKey : e[k] \in Nat
  <2>1. IsFiniteSet(CacheKey) /\ EntrySize \subseteq Nat \ {0}
    BY DEF CacheAssumption
  <2>2. \A k \in CacheKey : e[k] \in EntrySize \/ e[k] = 0
    BY DEF Sizes
  <2>3. ASSUME NEW k \in CacheKey  PROVE e[k] \in Nat
    <3>1. \A n \in EntrySize : n \in Nat
      BY <2>1
    <3>2. 0 \in Nat
      OBVIOUS
    <3>. QED  BY <2>2, <3>1, <3>2, Zenon
  <2>. QED  BY <2>1, <2>3, Zenon
<1>2. \A k \in CacheKey \ NonEmpty(e) : 1..e[k] = {}
  BY DEF NonEmpty
<1>3. Units(e, NonEmpty(e)) = Units(e, CacheKey)
  BY <1>2 DEF Units, NonEmpty
<1>4. CacheKey \in SUBSET CacheKey
  OBVIOUS
<1>5. Total(e, CacheKey) \in Nat
  BY <1>1, <1>4, TotalType
<1>. QED  BY <1>1, <1>3, <1>5 DEF Total

\* One entry is set.
LEMMA OneEntrySet ==
    ASSUME CacheAssumption, NEW e \in Sizes, NEW k \in CacheKey, NEW n \in EntrySize
    PROVE  /\ [e EXCEPT ![k] = n] \in Sizes
           /\ Total([e EXCEPT ![k] = n], CacheKey) = Total(e, CacheKey) - e[k] + n
           /\ Cardinality(NonEmpty([e EXCEPT ![k] = n])) <= Cardinality(NonEmpty(e)) + 1
<1>. DEFINE f == [e EXCEPT ![k] = n]
            others == CacheKey \ {k}
<1>1. f \in Sizes /\ f[k] = n /\ \A l \in others : f[l] = e[l]
  BY DEF Sizes
<1>2. IsFiniteSet(CacheKey) /\ \A l \in CacheKey : e[l] \in Nat
  BY EmptyAddsNothing
<1>3. \A l \in CacheKey : f[l] \in Nat
  BY <1>1, EmptyAddsNothing
<1>4. NonEmpty(f) \subseteq NonEmpty(e) \cup {k}
  BY <1>1 DEF NonEmpty
<1>. HIDE DEF f
<1>5. CacheKey \in SUBSET CacheKey /\ {k} \in SUBSET CacheKey
  OBVIOUS
<1>6. Total(f, others) = Total(f, CacheKey) - Total(f, {k})
  BY <1>2, <1>3, <1>5, TotalOfRest
<1>7. Total(e, others) = Total(e, CacheKey) - Total(e, {k})
  BY <1>2, <1>5, TotalOfRest
<1>8. Total(f, {k}) = n /\ Total(e, {k}) = e[k] /\ n \in Nat /\ e[k] \in Nat
  BY <1>1, <1>2, <1>3, TotalOfOne
<1>9. Total(f, others) = Total(e, others)
  BY <1>1, TotalSame
<1>10. Total(f, CacheKey) \in Nat /\ Total(e, CacheKey) \in Nat
  BY <1>2, <1>3, <1>5, TotalType
<1>11. Total(f, CacheKey) = Total(e, CacheKey) - e[k] + n
  BY <1>6, <1>7, <1>8, <1>9, <1>10
<1>12. Cardinality(NonEmpty(f)) <= Cardinality(NonEmpty(e)) + 1
  <2>1. NonEmpty(e) \in SUBSET CacheKey
    BY DEF NonEmpty
  <2>2. IsFiniteSet(NonEmpty(e)) /\ Cardinality(NonEmpty(e)) \in Nat
    BY <1>2, <2>1, FS_Subset, FS_CardinalityType
  <2>3. /\ IsFiniteSet(NonEmpty(e) \cup {k})
        /\ \/ Cardinality(NonEmpty(e) \cup {k}) = Cardinality(NonEmpty(e)) + 1
           \/ Cardinality(NonEmpty(e) \cup {k}) = Cardinality(NonEmpty(e))
    BY <2>2, FS_AddElement
  <2>4. Cardinality(NonEmpty(f)) <= Cardinality(NonEmpty(e) \cup {k})
        /\ Cardinality(NonEmpty(f)) \in Nat
    BY <1>4, <2>3, FS_Subset, FS_CardinalityType
  <2>. QED  BY <2>2, <2>3, <2>4
<1>. QED  BY <1>1, <1>11, <1>12 DEF f

\* Some entries are removed.
LEMMA EntriesRemoved ==
    ASSUME CacheAssumption, entries \in Sizes, NEW K \in SUBSET CacheKey
    PROVE  /\ Removed(K) \in Sizes /\ NonEmpty(Removed(K)) = NonEmpty(entries) \ K
           /\ Total(Removed(K), CacheKey) = Total(entries, CacheKey) - Total(entries, K)
<1>. DEFINE f == Removed(K)
<1>1. f \in Sizes /\ \A l \in CacheKey : f[l] = IF l \in K THEN 0 ELSE entries[l]
  BY DEF Sizes, Removed
<1>2. NonEmpty(f) = NonEmpty(entries) \ K
  BY <1>1 DEF NonEmpty
<1>. HIDE DEF f
<1>3. IsFiniteSet(CacheKey) /\ \A l \in CacheKey : entries[l] \in Nat
  BY EmptyAddsNothing
<1>4. CacheKey \in SUBSET CacheKey
  OBVIOUS
<1>5. Total(entries, CacheKey \ K) = Total(entries, CacheKey) - Total(entries, K)
  BY <1>3, <1>4, TotalOfRest
<1>6. Total(f, CacheKey) = Total(entries, CacheKey \ K)
  <2>1. \A l \in K : 1..f[l] = {}
    BY <1>1
  <2>2. Units(f, CacheKey) = Units(f, CacheKey \ K)
    BY <2>1 DEF Units
  <2>3. Total(f, CacheKey \ K) = Total(entries, CacheKey \ K)
    <3>1. \A l \in CacheKey \ K : f[l] = entries[l]
      BY <1>1
    <3>. QED  BY <3>1, TotalSame
  <2>. QED  BY <2>2, <2>3 DEF Total
<1>. QED  BY <1>1, <1>2, <1>5, <1>6 DEF f

\* What CacheInv says, with the sum over all keys.
LEMMA CacheInvByTotal ==
    ASSUME CacheAssumption, entries \in Sizes
    PROVE  CacheWithinLimit <=>
               /\ Cardinality(NonEmpty(entries)) + Len(awaiting) <= MaxEntries - 1 + MaxSets
               /\ usage = Total(entries, CacheKey) + leftover
<1>1. Cached = NonEmpty(entries)
  BY DEF Cached, NonEmpty
<1>2. Total(entries, NonEmpty(entries)) = Total(entries, CacheKey)
  BY EmptyAddsNothing
<1>. QED  BY <1>1, <1>2 DEF CacheWithinLimit, SizeOf

LEMMA CacheInvByTotalNext ==
    ASSUME CacheAssumption, entries' \in Sizes
    PROVE  CacheWithinLimit' <=>
               /\ Cardinality(NonEmpty(entries')) + Len(awaiting') <= MaxEntries - 1 + MaxSets
               /\ usage' = Total(entries', CacheKey) + leftover'
<1>1. Cached' = NonEmpty(entries')
  BY DEF Cached, NonEmpty
<1>2. Total(entries', NonEmpty(entries')) = Total(entries', CacheKey)
  BY EmptyAddsNothing
<1>. QED  BY <1>1, <1>2 DEF CacheWithinLimit, SizeOf

LEMMA CacheInitInv == CacheInit => CacheInv
<1>. SUFFICES ASSUME CacheInit  PROVE CacheInv
  OBVIOUS
<1>0. CacheAssumption
  BY CacheAssumption
<1>1. CacheTypeOK /\ entries \in Sizes
  BY DEF CacheInit, CacheTypeOK, Sizes
<1>2. NonEmpty(entries) = {} /\ Cached = {}
  BY DEF NonEmpty, CacheInit, Cached
<1>3. usage = Total(entries, Cached) + leftover
  <2>1. Total(entries, {}) = 0
    BY TotalOfNone
  <2>. QED  BY <1>2, <2>1 DEF CacheInit
<1>4. Cardinality(Cached) + Len(awaiting) <= MaxEntries - 1 + MaxSets
  <2>1. Cardinality({}) = 0 /\ Len(<<>>) = 0
    BY FS_EmptySet
  <2>. QED  BY <1>0, <1>2, <2>1 DEF CacheInit, CacheAssumption
<1>. QED  BY <1>1, <1>3, <1>4 DEF CacheInv, CacheWithinLimit, SizeOf

LEMMA CacheStepInv == CacheInv /\ [CacheNext]_cacheVars => CacheInv'
<1>. SUFFICES ASSUME CacheInv, [CacheNext]_cacheVars  PROVE CacheInv'
  OBVIOUS
<1>0. CacheAssumption
  BY CacheAssumption
<1>a. /\ MaxEntries \in Nat \ {0} /\ MaxSets \in Nat /\ IsFiniteSet(CacheKey)
      /\ EntrySize \subseteq Nat \ {0}
  BY <1>0 DEF CacheAssumption
<1>b. /\ entries \in Sizes /\ usage \in Nat /\ leftover \in Nat /\ awaiting \in Seq(SetCall)
      /\ Len(awaiting) \in Nat
  BY DEF CacheInv, CacheTypeOK, Sizes
<1>c. /\ Cardinality(NonEmpty(entries)) + Len(awaiting) <= MaxEntries - 1 + MaxSets
      /\ usage = Total(entries, CacheKey) + leftover
  BY <1>0, <1>b, CacheInvByTotal DEF CacheInv
<1>d. IsFiniteSet(NonEmpty(entries)) /\ Cardinality(NonEmpty(entries)) \in Nat
  <2>1. NonEmpty(entries) \in SUBSET CacheKey
    BY DEF NonEmpty
  <2>. QED  BY <1>a, <2>1, FS_Subset, FS_CardinalityType
<1>e. Total(entries, CacheKey) \in Nat
  BY <1>0, <1>b, EmptyAddsNothing
\* Enough to show what the step does to the sum and to the number of entries.
<1>f. ASSUME /\ entries' \in Sizes /\ leftover' \in Nat /\ awaiting' \in Seq(SetCall)
             /\ Cardinality(NonEmpty(entries')) + Len(awaiting') <= MaxEntries - 1 + MaxSets
             /\ usage' = Total(entries', CacheKey) + leftover'
      PROVE  CacheInv'
  <2>1. Total(entries', CacheKey) \in Nat
    BY <1>0, <1>f, EmptyAddsNothing
  <2>2. usage' \in Nat
    BY <1>f, <2>1
  <2>3. CacheTypeOK'
    BY <1>f, <2>2 DEF CacheTypeOK, Sizes
  <2>4. CacheWithinLimit'
    BY <1>0, <1>f, CacheInvByTotalNext
  <2>. QED  BY <2>3, <2>4 DEF CacheInv
<1>1. ASSUME NEW k \in CacheKey, NEW n \in EntrySize, BeginSet(k, n)  PROVE CacheInv'
  <2>1. /\ Len(awaiting) < MaxSets /\ awaiting' = Append(awaiting, [key |-> k, size |-> n])
        /\ leftover' = leftover
    BY <1>1 DEF BeginSet
  <2>2. awaiting' \in Seq(SetCall) /\ Len(awaiting') = Len(awaiting) + 1
    <3>1. [key |-> k, size |-> n] \in SetCall
      BY DEF SetCall
    <3>. QED  BY <1>b, <2>1, <3>1, AppendProperties
  <2>3. CASE Full
    <3>1. PICK K \in SUBSET Cached :
              Evicted(K) /\ entries' = Removed(K) /\ usage' = usage - SizeOf(K)
      BY <1>1, <2>3 DEF BeginSet
    <3>2. K \in SUBSET CacheKey /\ K \subseteq NonEmpty(entries) /\ Cached = NonEmpty(entries)
      BY DEF Cached, NonEmpty
    <3>3. /\ entries' \in Sizes /\ NonEmpty(entries') = NonEmpty(entries) \ K
          /\ Total(entries', CacheKey) = Total(entries, CacheKey) - Total(entries, K)
      BY <1>0, <1>b, <3>1, <3>2, EntriesRemoved
    <3>4. Total(entries, K) \in Nat
      <4>1. \A l \in CacheKey : entries[l] \in Nat
        BY <1>0, <1>b, EmptyAddsNothing
      <4>. QED  BY <1>a, <3>2, <4>1, TotalType
    <3>5. usage' = Total(entries', CacheKey) + leftover'
      BY <1>b, <1>c, <1>e, <2>1, <3>1, <3>3, <3>4 DEF SizeOf
    <3>6. Cardinality(NonEmpty(entries')) + Len(awaiting') <= MaxEntries - 1 + MaxSets
      <4>. DEFINE n0 == Cardinality(NonEmpty(entries))
                  n1 == Cardinality(NonEmpty(entries'))
      <4>1. Cardinality(K) = EvictCount(n0)
        BY <3>1, <3>2 DEF Evicted
      <4>2. IsFiniteSet(K)
        BY <1>d, <3>2, FS_Subset
      <4>3. n1 = n0 - Cardinality(NonEmpty(entries) \cap K)
        BY <1>d, <3>3, FS_Difference
      <4>4. NonEmpty(entries) \cap K = K
        BY <3>2
      <4>. HIDE DEF n0, n1
      <4>5. n1 = n0 - EvictCount(n0)
        BY <4>1, <4>3, <4>4
      <4>6. n0 \in Nat /\ n0 + Len(awaiting) <= MaxEntries - 1 + MaxSets
        BY <1>c, <1>d DEF n0
      <4>7. n0 = 0 => EvictCount(n0) = 0
        BY DEF EvictCount
      <4>8. n0 # 0 => EvictCount(n0) >= 1 /\ EvictCount(n0) \in Int
        BY <4>6 DEF EvictCount
      <4>9. n1 + Len(awaiting') <= MaxEntries - 1 + MaxSets
        <5>1. CASE n0 = 0
          BY <1>a, <1>b, <2>1, <2>2, <4>5, <4>7, <5>1
        <5>2. CASE n0 # 0
          BY <1>a, <1>b, <2>2, <4>5, <4>6, <4>8, <5>2
        <5>. QED  BY <5>1, <5>2
      <4>. QED  BY <4>9 DEF n1
    <3>. QED  BY <1>b, <1>f, <2>1, <2>2, <3>3, <3>5, <3>6
  <2>4. CASE ~Full
    <3>1. entries' = entries /\ usage' = usage
      BY <1>1, <2>4 DEF BeginSet
    <3>2. Cardinality(NonEmpty(entries)) < MaxEntries
      <4>1. Cached = NonEmpty(entries)
        BY DEF Cached, NonEmpty
      <4>. QED  BY <1>a, <1>d, <2>4, <4>1 DEF Full
    <3>3. Cardinality(NonEmpty(entries')) + Len(awaiting') <= MaxEntries - 1 + MaxSets
      BY <1>a, <1>b, <1>d, <2>1, <2>2, <3>1, <3>2
    <3>. QED  BY <1>b, <1>c, <1>f, <2>1, <2>2, <3>1, <3>3
  <2>. QED  BY <2>3, <2>4
<1>2. CASE EndSet
  <2>. DEFINE k == Head(awaiting).key
              n == Head(awaiting).size
  <2>1. /\ awaiting # <<>> /\ entries' = [entries EXCEPT ![k] = n]
        /\ usage' = usage - entries[k] + n /\ awaiting' = Tail(awaiting) /\ leftover' = leftover
    BY <1>2 DEF EndSet
  <2>2. /\ Head(awaiting) \in SetCall /\ awaiting' \in Seq(SetCall)
        /\ Len(awaiting') = Len(awaiting) - 1
    BY <1>b, <2>1, HeadTailProperties
  <2>3. k \in CacheKey /\ n \in EntrySize
    BY <2>2 DEF SetCall
  <2>. HIDE DEF k, n
  <2>4. /\ entries' \in Sizes
        /\ Total(entries', CacheKey) = Total(entries, CacheKey) - entries[k] + n
        /\ Cardinality(NonEmpty(entries')) <= Cardinality(NonEmpty(entries)) + 1
    BY <1>0, <1>b, <2>1, <2>3, OneEntrySet
  <2>5. entries[k] \in Nat /\ n \in Nat
    BY <1>a, <1>0, <1>b, <2>3, EmptyAddsNothing
  <2>6. usage' = Total(entries', CacheKey) + leftover'
    BY <1>b, <1>c, <1>e, <2>1, <2>4, <2>5
  <2>7. Cardinality(NonEmpty(entries')) \in Nat
    <3>1. NonEmpty(entries') \in SUBSET CacheKey
      BY DEF NonEmpty
    <3>. QED  BY <1>a, <3>1, FS_Subset, FS_CardinalityType
  <2>8. Cardinality(NonEmpty(entries')) + Len(awaiting') <= MaxEntries - 1 + MaxSets
    BY <1>a, <1>b, <1>c, <1>d, <2>2, <2>4, <2>7
  <2>. QED  BY <1>b, <1>f, <2>1, <2>2, <2>4, <2>6, <2>8
<1>3. ASSUME NEW k \in CacheKey, Delete(k)  PROVE CacheInv'
  <2>1. /\ entries' = Removed({k}) /\ usage' = usage - entries[k]
        /\ awaiting' = awaiting /\ leftover' = leftover
    BY <1>3 DEF Delete
  <2>2. {k} \in SUBSET CacheKey
    OBVIOUS
  <2>3. /\ entries' \in Sizes /\ NonEmpty(entries') = NonEmpty(entries) \ {k}
        /\ Total(entries', CacheKey) = Total(entries, CacheKey) - Total(entries, {k})
    BY <1>0, <1>b, <2>1, <2>2, EntriesRemoved
  <2>4. entries[k] \in Nat /\ Total(entries, {k}) = entries[k]
    BY <1>0, <1>b, EmptyAddsNothing, TotalOfOne
  <2>5. usage' = Total(entries', CacheKey) + leftover'
    BY <1>b, <1>c, <1>e, <2>1, <2>3, <2>4
  <2>6. /\ Cardinality(NonEmpty(entries')) <= Cardinality(NonEmpty(entries))
        /\ Cardinality(NonEmpty(entries')) \in Nat
    BY <1>d, <2>3, FS_Subset, FS_CardinalityType
  <2>7. Cardinality(NonEmpty(entries')) + Len(awaiting') <= MaxEntries - 1 + MaxSets
    BY <1>a, <1>b, <1>c, <1>d, <2>1, <2>6
  <2>. QED  BY <1>b, <1>f, <2>1, <2>3, <2>5, <2>7
\* clear and close leave no entry.
<1>g. ASSUME entries' = Removed(CacheKey), awaiting' = awaiting
      PROVE  /\ entries' \in Sizes /\ Total(entries', CacheKey) = 0
             /\ Cardinality(NonEmpty(entries')) + Len(awaiting') <= MaxEntries - 1 + MaxSets
  <2>1. CacheKey \in SUBSET CacheKey
    OBVIOUS
  <2>2. /\ entries' \in Sizes /\ NonEmpty(entries') = NonEmpty(entries) \ CacheKey
        /\ Total(entries', CacheKey) = Total(entries, CacheKey) - Total(entries, CacheKey)
    BY <1>0, <1>b, <1>g, <2>1, EntriesRemoved
  <2>3. NonEmpty(entries') = {}
    BY <2>2 DEF NonEmpty
  <2>4. Cardinality(NonEmpty(entries')) = 0
    BY <2>3, FS_EmptySet
  <2>5. Len(awaiting') = Len(awaiting)
    BY <1>g
  <2>. QED  BY <1>a, <1>b, <1>c, <1>d, <1>e, <2>2, <2>4, <2>5
<1>4. CASE Clear
  <2>1. /\ entries' = Removed(CacheKey) /\ usage' = 0 /\ leftover' = 0 /\ awaiting' = awaiting
    BY <1>4 DEF Clear
  <2>. QED  BY <1>b, <1>f, <1>g, <2>1
<1>5. CASE CloseCache
  <2>1. /\ entries' = Removed(CacheKey) /\ usage' = usage /\ leftover' = usage
        /\ awaiting' = awaiting
    BY <1>5 DEF CloseCache
  <2>. QED  BY <1>b, <1>f, <1>g, <2>1
<1>6. CASE UNCHANGED cacheVars
  <2>1. entries' = entries /\ usage' = usage /\ leftover' = leftover /\ awaiting' = awaiting
    BY <1>6 DEF cacheVars
  <2>. QED  BY <1>b, <1>c, <1>f, <2>1
<1>. QED  BY <1>1, <1>2, <1>3, <1>4, <1>5, <1>6 DEF CacheNext

LEMMA CacheInductive == CacheSpec => []CacheInv
BY CacheInitInv, CacheStepInv, PTL DEF CacheSpec

\* The cache's state is well typed.
THEOREM CacheTypeCorrect == CacheSpec => []CacheTypeOK
BY CacheInductive, PTL DEF CacheInv

\* The cache outgrows its limit by the further set calls under way at most, and
\* memoryUsage is the size of what is cached.
THEOREM CacheLimitCorrect == CacheSpec => []CacheWithinLimit
BY CacheInductive, PTL DEF CacheInv
-----------------------------------------------------------------------------
(***************************************************************************)
(* ResourceLimiter: UsageWithinLimit and LimiterTypeOK for any number of   *)
(* concurrent calls, any amounts, limits and measurements.  A call owes    *)
(* its amount once it has been granted, and before, when the usage it saw  *)
(* leaves room under a bound.  For every bound that no limit so far        *)
(* exceeds, the share of one call is told from that of the others, which   *)
(* is at most one largest amount for each of them.                         *)
(***************************************************************************)

AllocationRecord ==
    [stage: {"none", "measuring", "looked", "granted"}, amount: Amount \cup {0}, used: Nat]

AllocationCalls == [Allocator -> AllocationRecord]

Amounts(a) == [c \in Allocator |-> a[c].amount]

\* The calls whose amount may be added while the limits stay within b.
OwedCalls(a, b) ==
    {c \in Allocator : \/ a[c].stage = "granted"
                       \/ a[c].stage = "looked" /\ a[c].used + a[c].amount <= b}

Owed(a, b) == Total(Amounts(a), OwedCalls(a, b))

OwedToOthers(a, b, c) == Total(Amounts(a), OwedCalls(a, b) \ {c})

OwedTo(a, b, c) == IF c \in OwedCalls(a, b) THEN a[c].amount ELSE 0

Largest(most) == most \in Amount /\ \A n \in Amount : n <= most

Allowed(b, most) == b + (Cardinality(Allocator) - 1) * most

\* Neither a limit so far nor a measurement and one amount exceed b.
Covers(b, most) ==
    b \in Nat /\ highest <= b /\ Largest(most) /\ \A m \in Measured : m + most <= b

OwedWithin == \A b, most : Covers(b, most) =>
                  resourceUsage + Owed(allocations, b) <= Allowed(b, most)

LimiterInv == LimiterTypeOK /\ maxUsage <= highest /\ OwedWithin

\* Amounts are natural numbers, no larger than the largest.
LEMMA AmountsBounded ==
    ASSUME LimiterAssumption, NEW a \in AllocationCalls, NEW c \in Allocator
    PROVE  /\ Amounts(a)[c] = a[c].amount /\ a[c].amount \in Nat
           /\ a[c].amount = 0 \/ a[c].amount \in Amount
           /\ \A most : Largest(most) => most \in Nat /\ a[c].amount <= most
<1>1. Amount \subseteq Nat \ {0}
  BY DEF LimiterAssumption
<1>2. Amounts(a)[c] = a[c].amount /\ (a[c].amount = 0 \/ a[c].amount \in Amount)
  BY DEF Amounts, AllocationCalls, AllocationRecord
<1>3. \A n \in Amount : n \in Nat
  BY <1>1
<1>4. a[c].amount \in Nat
  <2>1. 0 \in Nat
    OBVIOUS
  <2>. QED  BY <1>2, <1>3, <2>1, Zenon
<1>5. ASSUME NEW most, Largest(most)  PROVE most \in Nat /\ a[c].amount <= most
  <2>1. most \in Nat /\ \A n \in Amount : n <= most
    BY <1>3, <1>5 DEF Largest
  <2>2. 0 <= most
    BY <2>1
  <2>. QED  BY <1>2, <2>1, <2>2
<1>. QED  BY <1>2, <1>4, <1>5

\* What is owed is what is owed to one call and what is owed to the others.
LEMMA OwedSplit ==
    ASSUME LimiterAssumption, NEW a \in AllocationCalls, NEW b, NEW c \in Allocator
    PROVE  /\ Owed(a, b) = OwedToOthers(a, b, c) + OwedTo(a, b, c)
           /\ OwedToOthers(a, b, c) \in Nat /\ OwedTo(a, b, c) \in Nat
           /\ \A most : Largest(most) =>
                  OwedToOthers(a, b, c) <= (Cardinality(Allocator) - 1) * most
<1>. DEFINE f == Amounts(a)
            G == OwedCalls(a, b)
<1>1. \A d \in Allocator : f[d] \in Nat /\ f[d] = a[d].amount
  BY AmountsBounded
<1>2. IsFiniteSet(Allocator) /\ Cardinality(Allocator) \in Nat
  BY FS_CardinalityType DEF LimiterAssumption
<1>3. G \in SUBSET Allocator
  BY DEF OwedCalls
<1>4. OwedTo(a, b, c) = IF c \in G THEN f[c] ELSE 0
  BY <1>1 DEF OwedTo
<1>5. \A most : Largest(most) => most \in Nat /\ \A d \in Allocator : f[d] <= most
  BY <1>1, AmountsBounded
<1>. HIDE DEF f, G
<1>6. Total(f, G \ {c}) \in Nat
  <2>1. G \ {c} \in SUBSET Allocator
    BY <1>3
  <2>. QED  BY <1>1, <1>2, <2>1, TotalType
<1>7. Total(f, G) = Total(f, G \ {c}) + IF c \in G THEN f[c] ELSE 0
  <2>1. CASE c \in G
    <3>1. {c} \in SUBSET G
      BY <2>1
    <3>2. Total(f, G \ {c}) = Total(f, G) - Total(f, {c})
      BY <1>1, <1>2, <1>3, <3>1, TotalOfRest
    <3>3. Total(f, {c}) = f[c] /\ f[c] \in Nat
      BY <1>1, TotalOfOne
    <3>4. Total(f, G) \in Nat
      BY <1>1, <1>2, <1>3, TotalType
    <3>. QED  BY <1>6, <2>1, <3>2, <3>3, <3>4
  <2>2. CASE c \notin G
    <3>1. G \ {c} = G
      BY <2>2
    <3>2. Total(f, G) = Total(f, G \ {c})
      BY <3>1, Zenon
    <3>3. Total(f, G \ {c}) = Total(f, G \ {c}) + 0
      <4>. DEFINE x == Total(f, G \ {c})
      <4>1. x \in Nat
        BY <1>6
      <4>. HIDE DEF x
      <4>2. x = x + 0
        BY <4>1
      <4>. QED  BY <4>2 DEF x
    <3>. QED  BY <2>2, <3>2, <3>3, Zenon
  <2>. QED  BY <2>1, <2>2
<1>8. ASSUME NEW most, Largest(most)
      PROVE  Total(f, G \ {c}) <= (Cardinality(Allocator) - 1) * most
  <2>. DEFINE K == Allocator \ {c}
              H == G \ {c}
  <2>1. IsFiniteSet(K) /\ Cardinality(K) = Cardinality(Allocator) - 1
    BY <1>2, FS_RemoveElement
  <2>2. H \in SUBSET K /\ \A d \in H : d \in Allocator
    BY <1>3
  <2>3. IsFiniteSet(H) /\ Cardinality(H) <= Cardinality(K) /\ Cardinality(H) \in Nat
    BY <2>1, <2>2, FS_Subset, FS_CardinalityType
  <2>4. most \in Nat /\ \A d \in H : f[d] \in Nat /\ f[d] <= most
    BY <1>1, <1>5, <1>8, <2>2
  <2>. HIDE DEF H, K
  <2>5. Total(f, H) <= Cardinality(H) * most
    BY <2>3, <2>4, TotalBound
  <2>6. Cardinality(K) \in Nat
    BY <2>1, FS_CardinalityType
  <2>7. Cardinality(H) * most <= Cardinality(K) * most
    <3>. DEFINE x == Cardinality(H)
                y == Cardinality(K)
    <3>1. x \in Nat /\ y \in Nat /\ x <= y /\ most \in Nat
      BY <2>3, <2>4, <2>6
    <3>. HIDE DEF x, y
    <3>2. x * most <= y * most
      BY <3>1
    <3>. QED  BY <3>2 DEF x, y
  <2>8. Total(f, H) \in Nat
    BY <1>6 DEF H
  <2>9. Cardinality(H) * most \in Int /\ Cardinality(K) * most \in Int
    BY <2>3, <2>4, <2>6
  <2>10. Total(f, H) <= Cardinality(K) * most
    BY <2>5, <2>7, <2>8, <2>9
  <2>. QED  BY <2>1, <2>10 DEF H
<1>9. Owed(a, b) = Total(f, G) /\ OwedToOthers(a, b, c) = Total(f, G \ {c})
  BY DEF Owed, OwedToOthers, f, G
<1>10. OwedTo(a, b, c) \in Nat
  <2>1. f[c] \in Nat /\ 0 \in Nat
    BY <1>1
  <2>. QED  BY <1>4, <2>1, Zenon
<1>. QED  BY <1>4, <1>6, <1>7, <1>8, <1>9, <1>10, Zenon

\* What is owed is a natural number.
LEMMA OwedType ==
    ASSUME LimiterAssumption, NEW a \in AllocationCalls, NEW b
    PROVE  Owed(a, b) \in Nat
<1>1. \A c \in Allocator : Amounts(a)[c] \in Nat
  BY AmountsBounded
<1>2. OwedCalls(a, b) \in SUBSET Allocator /\ IsFiniteSet(Allocator)
  BY DEF OwedCalls, LimiterAssumption
<1>. QED  BY <1>1, <1>2, TotalType DEF Owed

\* A step of one call leaves the others what they have.
LEMMA OthersKept ==
    ASSUME NEW a \in AllocationCalls, NEW e \in AllocationCalls, NEW b, NEW c \in Allocator,
           \A d \in Allocator \ {c} : e[d] = a[d]
    PROVE  OwedToOthers(e, b, c) = OwedToOthers(a, b, c)
<1>. DEFINE K == OwedCalls(a, b) \ {c}
<1>1. OwedCalls(e, b) \ {c} = K
  BY DEF OwedCalls
<1>2. \A d \in K : Amounts(a)[d] = Amounts(e)[d]
  BY DEF Amounts, OwedCalls
<1>3. Total(Amounts(a), K) = Total(Amounts(e), K)
  <2>. HIDE DEF K
  <2>. QED  BY <1>2, TotalSame
<1>. QED  BY <1>1, <1>3 DEF OwedToOthers

\* After a measurement at most one amount is owed to each call.
LEMMA OwedBounded ==
    ASSUME LimiterAssumption, NEW a \in AllocationCalls, NEW b, NEW most, Covers(b, most),
           NEW m \in Nat, m = 0 \/ m \in Measured
    PROVE  m + Owed(a, b) <= Allowed(b, most)
<1>1. Amount \subseteq Nat \ {0} /\ Measured \subseteq Nat /\ Measured # {} /\ b \in Nat
  BY DEF LimiterAssumption, Covers
<1>2. most \in Nat /\ m + most <= b
  <2>1. most \in Amount /\ most \in Nat
    BY <1>1 DEF Covers, Largest
  <2>2. CASE m \in Measured
    BY <2>1, <2>2 DEF Covers
  <2>3. CASE m = 0
    <3>1. PICK x \in Measured : TRUE
      BY <1>1
    <3>2. x \in Nat /\ x + most <= b
      BY <1>1, <2>1, <3>1 DEF Covers
    <3>. QED  BY <1>1, <2>1, <2>3, <3>2
  <2>. QED  BY <2>1, <2>2, <2>3
<1>3. CASE Allocator = {}
  <2>1. Owed(a, b) = 0
    <3>1. OwedCalls(a, b) = {}
      BY <1>3 DEF OwedCalls
    <3>. QED  BY <3>1, TotalOfNone DEF Owed
  <2>2. Cardinality(Allocator) = 0
    BY <1>3, FS_EmptySet
  <2>3. (0 - 1) * most = 0 - most
    BY <1>2
  <2>4. Allowed(b, most) = b + (0 - most)
    BY <2>2, <2>3 DEF Allowed
  <2>. QED  BY <1>1, <1>2, <2>1, <2>4
<1>4. CASE Allocator # {}
  <2>1. PICK c \in Allocator : TRUE
    BY <1>4
  <2>. DEFINE rest == (Cardinality(Allocator) - 1) * most
  <2>0. Largest(most)
    BY DEF Covers
  <2>2. /\ Owed(a, b) = OwedToOthers(a, b, c) + OwedTo(a, b, c)
        /\ OwedToOthers(a, b, c) \in Nat /\ OwedTo(a, b, c) \in Nat
        /\ OwedToOthers(a, b, c) <= rest
    BY <2>0, OwedSplit
  <2>3. OwedTo(a, b, c) <= most
    <3>1. a[c].amount <= most /\ 0 <= most
      BY <1>2, <2>0, AmountsBounded
    <3>. QED  BY <3>1 DEF OwedTo
  <2>4. rest \in Int
    <3>1. Cardinality(Allocator) \in Nat
      BY FS_CardinalityType DEF LimiterAssumption
    <3>. QED  BY <1>2, <3>1
  <2>5. Allowed(b, most) = b + rest
    BY DEF Allowed
  <2>. HIDE DEF rest
  <2>. QED  BY <1>1, <1>2, <2>2, <2>3, <2>4, <2>5
<1>. QED  BY <1>3, <1>4

\* What is granted is owed, so that the invariant has the property for its part.
LEMMA OwedCoversGranted == LimiterInv => UsageWithinLimit
<1>. SUFFICES ASSUME LimiterInv, NEW most \in Amount, NEW bound \in Bounds,
                     \A n \in Amount : n <= most, \A b \in Bounds : b <= bound
              PROVE  resourceUsage + Total([c \in Allocator |-> allocations[c].amount], Granted)
                         <= bound + (Cardinality(Allocator) - 1) * most
  BY DEF UsageWithinLimit
<1>0. LimiterAssumption
  BY LimiterAssumption
<1>1. /\ Amount \subseteq Nat \ {0} /\ Measured \subseteq Nat /\ Limits \subseteq Nat
      /\ IsFiniteSet(Allocator) /\ Cardinality(Allocator) \in Nat
  BY <1>0, FS_CardinalityType DEF LimiterAssumption
<1>2. allocations \in AllocationCalls /\ resourceUsage \in Nat /\ highest \in Nat
  BY <1>1 DEF LimiterInv, LimiterTypeOK, AllocationCalls, AllocationRecord
<1>3. Covers(bound, most)
  <2>1. bound \in Nat
    <3>1. \A n \in Amount : n \in Nat
      BY <1>1
    <3>2. \A m \in Measured : m \in Nat
      BY <1>1
    <3>3. \A m \in Measured, n \in Amount : m + n \in Nat
      BY <3>1, <3>2
    <3>. QED  BY <1>2, <3>3 DEF Bounds
  <2>2. highest <= bound /\ \A m \in Measured : m + most <= bound
    BY DEF Bounds
  <2>. QED  BY <2>1, <2>2 DEF Covers, Largest
<1>. DEFINE f == Amounts(allocations)
            K == OwedCalls(allocations, bound)
<1>4. resourceUsage + Total(f, K) <= Allowed(bound, most)
  BY <1>3 DEF LimiterInv, OwedWithin, Owed
<1>5. Granted \in SUBSET K /\ K \in SUBSET Allocator
  BY DEF Granted, OwedCalls
<1>6. \A c \in Allocator : f[c] \in Nat
  BY <1>0, <1>2, AmountsBounded
<1>7. f = [c \in Allocator |-> allocations[c].amount]
  BY DEF Amounts
<1>. HIDE DEF f, K
<1>8. Total(f, K \ Granted) = Total(f, K) - Total(f, Granted)
  BY <1>1, <1>5, <1>6, TotalOfRest
<1>9. Total(f, K \ Granted) \in Nat /\ Total(f, K) \in Nat /\ Total(f, Granted) \in Nat
  <2>1. K \ Granted \in SUBSET Allocator /\ Granted \in SUBSET Allocator
    BY <1>5
  <2>. QED  BY <1>1, <1>5, <1>6, <2>1, TotalType
<1>10. Allowed(bound, most) \in Int
  <2>1. most \in Nat /\ bound \in Nat
    BY <1>1, <1>3 DEF Covers
  <2>. QED  BY <1>1, <2>1 DEF Allowed
<1>11. resourceUsage + Total(f, Granted) <= Allowed(bound, most)
  BY <1>2, <1>4, <1>8, <1>9, <1>10
<1>. QED  BY <1>7, <1>11 DEF Allowed

LEMMA LimiterInitInv == LimiterInit => LimiterInv
<1>. SUFFICES ASSUME LimiterInit  PROVE LimiterInv
  OBVIOUS
<1>0. LimiterAssumption
  BY LimiterAssumption
<1>1. /\ allocations \in AllocationCalls /\ resourceUsage = 0 /\ monitoring = FALSE
      /\ maxUsage \in Limits /\ highest = maxUsage
  BY DEF LimiterInit, AllocationCalls, AllocationRecord, NoAllocation, Allocation
<1>2. LimiterTypeOK
  <2>1. 0 \in Nat
    OBVIOUS
  <2>. QED  BY <1>1, <2>1 DEF LimiterTypeOK, AllocationCalls, AllocationRecord
<1>3. \A b, most : Covers(b, most) => 0 + Owed(allocations, b) <= Allowed(b, most)
  BY <1>0, <1>1, OwedBounded
<1>4. maxUsage <= highest
  <2>1. maxUsage \in Nat
    BY <1>0, <1>1 DEF LimiterAssumption
  <2>. QED  BY <1>1, <2>1
<1>. QED  BY <1>1, <1>2, <1>3, <1>4 DEF LimiterInv, OwedWithin

LEMMA LimiterStepInv == LimiterInv /\ [LimiterNext]_limiterVars => LimiterInv'
<1>. SUFFICES ASSUME LimiterInv, [LimiterNext]_limiterVars  PROVE LimiterInv'
  OBVIOUS
<1>0. LimiterAssumption
  BY LimiterAssumption
<1>a. /\ Amount \subseteq Nat \ {0} /\ Measured \subseteq Nat /\ Limits \subseteq Nat
      /\ Cardinality(Allocator) \in Nat
  BY <1>0, FS_CardinalityType DEF LimiterAssumption
<1>b. /\ allocations \in AllocationCalls /\ resourceUsage \in Nat /\ monitoring \in BOOLEAN
      /\ maxUsage \in Limits /\ highest \in Limits /\ maxUsage \in Nat /\ highest \in Nat
      /\ maxUsage <= highest
  BY <1>a DEF LimiterInv, LimiterTypeOK, AllocationCalls, AllocationRecord
<1>c. \A b, most : Covers(b, most) =>
          resourceUsage + Owed(allocations, b) <= Allowed(b, most)
  BY DEF LimiterInv, OwedWithin
<1>. DEFINE LimitKept == maxUsage' = maxUsage /\ highest' = highest
            Typed == /\ allocations' \in AllocationCalls /\ resourceUsage' \in Nat
                     /\ monitoring' \in BOOLEAN
\* Enough to show the bound for what the limits so far do not exceed.
<1>d. ASSUME Typed, LimitKept,
             \A b, most : Covers(b, most) =>
                 resourceUsage' + Owed(allocations', b) <= Allowed(b, most)
      PROVE  LimiterInv'
  <2>1. LimiterTypeOK'
    BY <1>b, <1>d DEF LimiterTypeOK, AllocationCalls, AllocationRecord
  <2>2. maxUsage' <= highest'
    BY <1>b, <1>d
  <2>3. ASSUME NEW b, NEW most, Covers(b, most)'
        PROVE  resourceUsage' + Owed(allocations', b) <= Allowed(b, most)
    <3>1. Covers(b, most)
      BY <1>d, <2>3 DEF Covers
    <3>. QED  BY <1>d, <3>1
  <2>4. OwedWithin'
    BY <2>3 DEF OwedWithin, Owed, Amounts, OwedCalls, Allowed
  <2>. QED  BY <2>1, <2>2, <2>4 DEF LimiterInv
\* A measurement, and close, may do with the calls what they like.
<1>e. ASSUME Typed, LimitKept, resourceUsage' = 0 \/ resourceUsage' \in Measured
      PROVE  LimiterInv'
  <2>1. \A b, most : Covers(b, most) =>
            resourceUsage' + Owed(allocations', b) <= Allowed(b, most)
    BY <1>0, <1>e, OwedBounded
  <2>. QED  BY <1>d, <1>e, <2>1
\* A call changes its own entry.
<1>f. ASSUME NEW c \in Allocator, NEW r \in AllocationRecord,
             allocations' = [allocations EXCEPT ![c] = r]
      PROVE  /\ allocations' \in AllocationCalls /\ allocations'[c] = r
             /\ \A b : Owed(allocations', b)
                           = OwedToOthers(allocations, b, c) + OwedTo(allocations', b, c)
  <2>1. allocations' \in AllocationCalls /\ allocations'[c] = r
        /\ \A d \in Allocator \ {c} : allocations'[d] = allocations[d]
    BY <1>b, <1>f DEF AllocationCalls
  <2>2. ASSUME NEW b
        PROVE  Owed(allocations', b) = OwedToOthers(allocations, b, c) + OwedTo(allocations', b, c)
    <3>1. OwedToOthers(allocations', b, c) = OwedToOthers(allocations, b, c)
      BY <1>b, <2>1, OthersKept
    <3>2. Owed(allocations', b) = OwedToOthers(allocations', b, c) + OwedTo(allocations', b, c)
      BY <1>0, <2>1, OwedSplit
    <3>. QED  BY <3>1, <3>2
  <2>. QED  BY <2>1, <2>2
<1>g. ASSUME NEW b, NEW c \in Allocator
      PROVE  /\ Owed(allocations, b) = OwedToOthers(allocations, b, c) + OwedTo(allocations, b, c)
             /\ OwedToOthers(allocations, b, c) \in Nat /\ OwedTo(allocations, b, c) \in Nat
             /\ \A most : Largest(most) =>
                    OwedToOthers(allocations, b, c) <= (Cardinality(Allocator) - 1) * most
  BY <1>0, <1>b, OwedSplit
\* What leaves the sum of both as it is, or makes it smaller, keeps the bound.
<1>i. ASSUME Typed, LimitKept,
             \A b, most : Covers(b, most) =>
                 resourceUsage' + Owed(allocations', b) <= resourceUsage + Owed(allocations, b)
      PROVE  LimiterInv'
  <2>1. ASSUME NEW b, NEW most, Covers(b, most)
        PROVE  resourceUsage' + Owed(allocations', b) <= Allowed(b, most)
    <3>1. resourceUsage + Owed(allocations, b) <= Allowed(b, most)
      BY <1>c, <2>1
    <3>2. resourceUsage' + Owed(allocations', b) <= resourceUsage + Owed(allocations, b)
      BY <1>i, <2>1
    <3>3. Allowed(b, most) \in Int
      <4>1. most \in Nat /\ b \in Nat
        BY <1>a, <2>1 DEF Covers, Largest
      <4>. QED  BY <1>a, <4>1 DEF Allowed
    <3>4. Owed(allocations, b) \in Nat /\ Owed(allocations', b) \in Nat
      BY <1>0, <1>b, <1>i, OwedType
    <3>. QED  BY <1>b, <1>i, <3>1, <3>2, <3>3, <3>4
  <2>. QED  BY <1>d, <1>i, <2>1
\* A call that owes no more than before.
<1>h. ASSUME NEW c \in Allocator, NEW r \in AllocationRecord, LimitKept,
             allocations' = [allocations EXCEPT ![c] = r],
             resourceUsage' = resourceUsage, monitoring' = monitoring,
             \A b, most : Covers(b, most) =>
                 OwedTo(allocations', b, c) \in Nat
                 /\ OwedTo(allocations', b, c) <= OwedTo(allocations, b, c)
      PROVE  LimiterInv'
  <2>1. Typed
    BY <1>b, <1>f, <1>h
  <2>2. ASSUME NEW b, NEW most, Covers(b, most)
        PROVE  resourceUsage' + Owed(allocations', b) <= resourceUsage + Owed(allocations, b)
    <3>1. Owed(allocations', b) = OwedToOthers(allocations, b, c) + OwedTo(allocations', b, c)
      BY <1>f, <1>h
    <3>2. OwedTo(allocations', b, c) \in Nat
          /\ OwedTo(allocations', b, c) <= OwedTo(allocations, b, c)
      BY <1>h, <2>2
    <3>. QED  BY <1>b, <1>g, <1>h, <3>1, <3>2
  <2>. QED  BY <1>h, <1>i, <2>1, <2>2
<1>1. ASSUME NEW c \in Allocator, NEW n \in Amount, AllocateResource(c, n)  PROVE LimiterInv'
  <2>1. /\ allocations[c].stage = "none" /\ resourceUsage' = resourceUsage
        /\ monitoring' = monitoring /\ LimitKept /\ n \in Nat
    BY <1>1, <1>a DEF AllocateResource
  <2>2. CASE allocations' = [allocations EXCEPT ![c] = Allocation("looked", n, resourceUsage)]
    <3>1. PICK r : r = Allocation("looked", n, resourceUsage)
      OBVIOUS
    <3>2. /\ r \in AllocationRecord /\ r.stage = "looked" /\ r.amount = n
          /\ r.used = resourceUsage
      BY <1>b, <3>1 DEF Allocation, AllocationRecord
    <3>3. /\ allocations' \in AllocationCalls /\ allocations'[c] = r
          /\ \A b : Owed(allocations', b)
                        = OwedToOthers(allocations, b, c) + OwedTo(allocations', b, c)
      BY <1>f, <2>2, <3>1, <3>2
    <3>4. ASSUME NEW b, NEW most, Covers(b, most)
          PROVE  resourceUsage' + Owed(allocations', b) <= Allowed(b, most)
      <4>. DEFINE rest == (Cardinality(Allocator) - 1) * most
                  others == OwedToOthers(allocations, b, c)
      <4>1. others \in Nat /\ others <= rest
        BY <1>g, <3>4 DEF Covers
      <4>2. rest \in Int /\ b \in Nat
        BY <1>a, <3>4 DEF Covers, Largest
      <4>3. Allowed(b, most) = b + rest
        BY DEF Allowed
      <4>4. Owed(allocations', b) = others + OwedTo(allocations', b, c)
        BY <3>3
      <4>5. resourceUsage + Owed(allocations, b) <= Allowed(b, most)
        BY <1>c, <3>4
      <4>6. Owed(allocations, b) = others
        <5>1. OwedTo(allocations, b, c) = 0
          BY <2>1 DEF OwedTo, OwedCalls
        <5>. QED  BY <1>g, <5>1
      <4>7. OwedTo(allocations', b, c) = IF resourceUsage + n <= b THEN n ELSE 0
        BY <3>2, <3>3 DEF OwedTo, OwedCalls
      <4>. HIDE DEF rest, others
      <4>8. CASE resourceUsage + n <= b
        BY <1>b, <2>1, <4>1, <4>2, <4>3, <4>4, <4>7, <4>8
      <4>9. CASE ~(resourceUsage + n <= b)
        BY <1>b, <2>1, <4>1, <4>4, <4>5, <4>6, <4>7, <4>9
      <4>. QED  BY <4>8, <4>9
    <3>. QED  BY <1>b, <1>d, <2>1, <3>3, <3>4
  <2>3. CASE allocations' = [allocations EXCEPT ![c] = Allocation("measuring", n, 0)]
    <3>1. PICK r : r = Allocation("measuring", n, 0)
      OBVIOUS
    <3>2. r \in AllocationRecord /\ r.stage = "measuring"
      <4>1. 0 \in Nat
        OBVIOUS
      <4>. QED  BY <3>1, <4>1 DEF Allocation, AllocationRecord
    <3>3. allocations' = [allocations EXCEPT ![c] = r] /\ allocations'[c] = r
      BY <1>f, <2>3, <3>1, <3>2
    <3>4. ASSUME NEW b
          PROVE  OwedTo(allocations', b, c) \in Nat
                 /\ OwedTo(allocations', b, c) <= OwedTo(allocations, b, c)
      <4>1. OwedTo(allocations', b, c) = 0
        BY <3>2, <3>3 DEF OwedTo, OwedCalls
      <4>. QED  BY <1>g, <4>1
    <3>. QED  BY <1>h, <2>1, <3>2, <3>3, <3>4
  <2>. QED  BY <1>1, <2>2, <2>3 DEF AllocateResource
<1>2. ASSUME NEW c \in Allocator, NEW m \in Measured, MeasurementEnds(c, m)  PROVE LimiterInv'
  <2>1. PICK r : r = Allocation("looked", allocations[c].amount, m)
    OBVIOUS
  <2>2. /\ resourceUsage' = m /\ monitoring' = monitoring /\ m \in Nat /\ LimitKept
        /\ allocations' = [allocations EXCEPT ![c] = r]
    BY <1>a, <1>2, <2>1 DEF MeasurementEnds
  <2>3. r \in AllocationRecord
    BY <1>b, <2>1, <2>2 DEF Allocation, AllocationRecord, AllocationCalls
  <2>4. allocations' \in AllocationCalls
    BY <1>f, <2>2, <2>3
  <2>. QED  BY <1>b, <1>e, <2>2, <2>4
\* checkLimit: what fits has been owed since the look.
<1>3. ASSUME NEW c \in Allocator, CheckLimit(c)  PROVE LimiterInv'
  <2>. DEFINE n == allocations[c].amount
              u == allocations[c].used
  <2>1. /\ allocations[c].stage = "looked" /\ resourceUsage' = resourceUsage
        /\ monitoring' = monitoring /\ LimitKept
        /\ allocations' = [allocations EXCEPT ![c] =
               IF FitsLimit(u, n) THEN Allocation("granted", n, 0) ELSE NoAllocation]
    BY <1>3 DEF CheckLimit
  <2>2. n \in Amount \cup {0} /\ n \in Nat /\ u \in Nat
    BY <1>0, <1>b, AmountsBounded DEF AllocationCalls, AllocationRecord
  <2>3. CASE FitsLimit(u, n)
    <3>1. PICK r : r = Allocation("granted", n, 0)
      OBVIOUS
    <3>2. r \in AllocationRecord /\ r.stage = "granted" /\ r.amount = n
      <4>1. 0 \in Nat
        OBVIOUS
      <4>. QED  BY <2>2, <3>1, <4>1 DEF Allocation, AllocationRecord
    <3>3. allocations' = [allocations EXCEPT ![c] = r] /\ allocations'[c] = r
      <4>1. allocations' = [allocations EXCEPT ![c] = r]
        BY <2>1, <2>3, <3>1
      <4>. QED  BY <1>f, <3>2, <4>1
    <3>4. ASSUME NEW b, NEW most, Covers(b, most)
          PROVE  OwedTo(allocations', b, c) \in Nat
                 /\ OwedTo(allocations', b, c) <= OwedTo(allocations, b, c)
      <4>1. u + n <= maxUsage /\ highest <= b /\ b \in Nat
        BY <2>3, <3>4 DEF FitsLimit, Covers
      <4>2. u + n <= b
        BY <1>b, <2>2, <4>1
      <4>3. c \in OwedCalls(allocations, b)
        BY <2>1, <4>2 DEF OwedCalls
      <4>4. OwedTo(allocations, b, c) = n /\ OwedTo(allocations', b, c) = n
        BY <3>2, <3>3, <4>3 DEF OwedTo, OwedCalls
      <4>. QED  BY <2>2, <4>4
    <3>. QED  BY <1>h, <2>1, <3>2, <3>3, <3>4
  <2>4. CASE ~FitsLimit(u, n)
    <3>1. NoAllocation \in AllocationRecord /\ NoAllocation.stage = "none"
      <4>1. 0 \in Nat
        OBVIOUS
      <4>. QED  BY <4>1 DEF NoAllocation, Allocation, AllocationRecord
    <3>2. allocations' = [allocations EXCEPT ![c] = NoAllocation] /\ allocations'[c] = NoAllocation
      <4>1. allocations' = [allocations EXCEPT ![c] = NoAllocation]
        BY <2>1, <2>4
      <4>. QED  BY <1>f, <3>1, <4>1
    <3>3. ASSUME NEW b
          PROVE  OwedTo(allocations', b, c) \in Nat
                 /\ OwedTo(allocations', b, c) <= OwedTo(allocations, b, c)
      <4>1. OwedTo(allocations', b, c) = 0
        BY <3>1, <3>2 DEF OwedTo, OwedCalls
      <4>. QED  BY <1>g, <4>1
    <3>. QED  BY <1>h, <2>1, <3>1, <3>2, <3>3
  <2>. QED  BY <2>3, <2>4
<1>4. ASSUME NEW c \in Allocator, Commit(c)  PROVE LimiterInv'
  <2>1. /\ allocations[c].stage = "granted" /\ monitoring' = monitoring /\ LimitKept
        /\ resourceUsage' = resourceUsage + allocations[c].amount
        /\ allocations' = [allocations EXCEPT ![c] = NoAllocation]
    BY <1>4 DEF Commit
  <2>2. NoAllocation \in AllocationRecord /\ NoAllocation.stage = "none"
    <3>1. 0 \in Nat
      OBVIOUS
    <3>. QED  BY <3>1 DEF NoAllocation, Allocation, AllocationRecord
  <2>3. /\ allocations' \in AllocationCalls /\ allocations'[c] = NoAllocation
        /\ \A b : Owed(allocations', b)
                      = OwedToOthers(allocations, b, c) + OwedTo(allocations', b, c)
    BY <1>f, <2>1, <2>2
  <2>4. allocations[c].amount \in Nat
    BY <1>0, <1>b, AmountsBounded
  <2>5. ASSUME NEW b
        PROVE  resourceUsage' + Owed(allocations', b) <= resourceUsage + Owed(allocations, b)
    <3>1. OwedTo(allocations, b, c) = allocations[c].amount
      BY <2>1 DEF OwedTo, OwedCalls
    <3>2. OwedTo(allocations', b, c) = 0
      BY <2>2, <2>3 DEF OwedTo, OwedCalls
    <3>3. Owed(allocations', b) = OwedToOthers(allocations, b, c)
      BY <1>g, <2>3, <3>2
    <3>. QED  BY <1>b, <1>g, <2>1, <2>4, <3>1, <3>3
  <2>6. Typed
    BY <1>b, <2>1, <2>3, <2>4
  <2>. QED  BY <1>i, <2>1, <2>5, <2>6
\* Steps that no call takes.
<1>j. ASSUME allocations' = allocations, resourceUsage' \in Nat, monitoring' \in BOOLEAN,
             LimitKept, resourceUsage' <= resourceUsage
      PROVE  LimiterInv'
  <2>1. ASSUME NEW b
        PROVE  resourceUsage' + Owed(allocations', b) <= resourceUsage + Owed(allocations, b)
    <3>1. Owed(allocations', b) = Owed(allocations, b) /\ Owed(allocations, b) \in Nat
      BY <1>0, <1>b, <1>j, OwedType
    <3>. QED  BY <1>b, <1>j, <3>1
  <2>2. Typed
    BY <1>b, <1>j
  <2>. QED  BY <1>i, <1>j, <2>1, <2>2
<1>5. ASSUME NEW n \in Amount, Release(n)  PROVE LimiterInv'
  <2>1. /\ allocations' = allocations /\ monitoring' = monitoring /\ n \in Nat /\ LimitKept
        /\ resourceUsage' = IF resourceUsage < n THEN 0 ELSE resourceUsage - n
    BY <1>a, <1>5 DEF Release
  <2>2. resourceUsage' \in Nat /\ resourceUsage' <= resourceUsage
    BY <1>b, <2>1
  <2>. QED  BY <1>b, <1>j, <2>1, <2>2
\* A limit above the highest so far leaves fewer bounds to keep.
<1>6. ASSUME NEW l \in Limits, UpdateConfig(l)  PROVE LimiterInv'
  <2>1. /\ allocations' = allocations /\ resourceUsage' = resourceUsage
        /\ monitoring' = monitoring /\ maxUsage' = l
        /\ highest' = IF l > highest THEN l ELSE highest
    BY <1>6 DEF UpdateConfig
  <2>2. l \in Nat /\ maxUsage' \in Limits /\ highest' \in Limits
    BY <1>a, <1>b, <2>1
  <2>3. maxUsage' <= highest' /\ highest <= highest' /\ highest' \in Nat
    BY <1>b, <2>1, <2>2
  <2>4. LimiterTypeOK'
    BY <1>b, <2>1, <2>2 DEF LimiterTypeOK, AllocationCalls, AllocationRecord
  <2>5. ASSUME NEW b, NEW most, Covers(b, most)'
        PROVE  resourceUsage + Owed(allocations, b) <= Allowed(b, most)
    <3>1. Covers(b, most)
      BY <1>b, <2>3, <2>5 DEF Covers
    <3>. QED  BY <1>c, <3>1
  <2>6. OwedWithin'
    BY <2>1, <2>5 DEF OwedWithin, Owed, Amounts, OwedCalls, Allowed
  <2>. QED  BY <2>3, <2>4, <2>6 DEF LimiterInv
<1>7. CASE MonitorTick
  <2>1. /\ allocations' = allocations /\ resourceUsage' = resourceUsage
        /\ monitoring' \in BOOLEAN /\ LimitKept
    BY <1>7 DEF MonitorTick
  <2>. QED  BY <1>b, <1>j, <2>1
<1>8. ASSUME NEW m \in Measured, MonitorMeasures(m)  PROVE LimiterInv'
  <2>1. /\ allocations' = allocations /\ resourceUsage' = m /\ monitoring' \in BOOLEAN
        /\ m \in Nat /\ LimitKept
    BY <1>a, <1>8 DEF MonitorMeasures
  <2>. QED  BY <1>b, <1>e, <2>1
<1>9. CASE CloseLimiter
  <2>1. /\ allocations' = allocations /\ resourceUsage' = 0 /\ monitoring' = monitoring
        /\ LimitKept
    BY <1>9 DEF CloseLimiter
  <2>. QED  BY <1>b, <1>e, <2>1
<1>10. CASE UNCHANGED limiterVars
  <2>1. /\ allocations' = allocations /\ resourceUsage' = resourceUsage
        /\ monitoring' = monitoring /\ LimitKept
    BY <1>10 DEF limiterVars
  <2>. QED  BY <1>b, <1>j, <2>1
<1>. QED
  BY <1>1, <1>2, <1>3, <1>4, <1>5, <1>6, <1>7, <1>8, <1>9, <1>10 DEF LimiterNext

LEMMA LimiterInductive == LimiterSpec => []LimiterInv
BY LimiterInitInv, LimiterStepInv, PTL DEF LimiterSpec

\* The limiter's state is well typed.
THEOREM LimiterTypeCorrect == LimiterSpec => []LimiterTypeOK
BY LimiterInductive, PTL DEF LimiterInv

\* Usage and grants exceed the highest limit so far, or a higher measurement and
\* one amount, by the amounts of the further calls that run at a time, and by no
\* more.
THEOREM LimiterLimitCorrect == LimiterSpec => []UsageWithinLimit
BY LimiterInductive, OwedCoversGranted, PTL
-----------------------------------------------------------------------------
(***************************************************************************)
(* The managers together: MCServices runs one of them and leaves the       *)
(* others alone, so that each behaves as its own specification says.       *)
(***************************************************************************)
LEMMA ServicesStepOfEach ==
    [ServicesNext]_servicesVars =>
        /\ [MCNext]_mcVars /\ [CronNext]_cronVars /\ [NonceNext]_nonceVars
        /\ [CacheNext]_cacheVars /\ [RegistryNext]_registryVars
        /\ [LimiterNext]_limiterVars /\ [StreamNext]_streamVars
        /\ [CollectorNext]_collectorVars /\ [MemoryNext]_memory
BY DEF ServicesNext, servicesVars, mcVars, cronVars, nonceVars, cacheVars, registryVars,
       limiterVars, streamVars, collectorVars

LEMMA ServicesInitOfEach ==
    ServicesInit =>
        /\ MCInit /\ CronInit /\ NonceInit /\ CacheInit
        /\ RegistryInit /\ LimiterInit /\ StreamInit /\ CollectorInit /\ MemoryInit
BY DEF ServicesInit

LEMMA ServicesBehave ==
    ServicesSpec =>
        /\ MCSpec /\ CronSpec /\ NonceSpec /\ CacheSpec
        /\ RegistrySpec /\ LimiterSpec /\ StreamSpec /\ CollectorSpec /\ MemorySpec
BY ServicesInitOfEach, ServicesStepOfEach, PTL
   DEF ServicesSpec, MCSpec, CronSpec, NonceSpec, CacheSpec, RegistrySpec, LimiterSpec,
       StreamSpec, CollectorSpec, MemorySpec

\* How far four limits that are checked before an await, or not at all, are
\* overrun: entries of the cache, plugins, queued points, and the usage of a
\* resource above its highest limit or measurement.  maxMemory is none of them.
THEOREM LimitsCorrect == ServicesSpec => []LimitsOverrunOnlyByConcurrency
BY ServicesBehave, CacheLimitCorrect, RegistryLimitCorrect, LimiterLimitCorrect, QueueCorrect, PTL
   DEF LimitsOverrunOnlyByConcurrency

\* Together, too, each manager keeps what it promises.
THEOREM ManagersCorrect ==
    ServicesSpec => [](/\ EvaluationExact /\ OneRunPerId /\ NoNonceGap
                       /\ SentInOrder /\ SteadySourcesCountedOnce /\ BlocksDisjoint)
BY ServicesBehave, EvaluationCorrect, CronCorrect, NonceCorrect, SentInOrderCorrect,
   SteadyCorrect, BlocksStayDisjoint, PTL

\* ... and keeps states of its types.
THEOREM ServicesTypeCorrect == ServicesSpec => []ServicesTypeOK
BY ServicesBehave, RulesTypeCorrect, CronTypeCorrect, MemoryTypeCorrect, CacheTypeCorrect,
   NonceTypeCorrect, StreamTypeCorrect, CollectorTypeCorrect, RegistryTypeCorrect,
   LimiterTypeCorrect, PTL DEF ServicesTypeOK
=============================================================================
