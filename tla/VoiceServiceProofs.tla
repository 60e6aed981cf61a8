------------------------- MODULE VoiceServiceProofs -------------------------
(***************************************************************************)
(* Proofs about VoiceService, for every value of its constants: the books  *)
(* balance, and a client's report is counted once.                         *)
(***************************************************************************)
EXTENDS VoiceService, FiniteSetTheorems, WellFoundedInduction, TLAPS

-----------------------------------------------------------------------------
(* The sum of a function.                                                   *)

\* A function on the subsets of S that adds up as a sum does is the sum.
LEMMA SumIs ==
    ASSUME NEW S, IsFiniteSet(S), NEW f \in [S -> Nat], NEW E \in [SUBSET S -> Nat],
           E[{}] = 0, \A s \in SUBSET S : \A x \in s : E[s] = f[x] + E[s \ {x}]
    PROVE  SumFunction(f) = E[S]
<1> DEFINE Rest(g, s) == IF s = {} THEN 0
                         ELSE LET x == CHOOSE x \in s : TRUE IN f[x] + g[s \ {x}]
           Solves(g) == g = [s \in SUBSET S |-> Rest(g, s)]
           iter == CHOOSE g : Solves(g)
<1>1. SumFunction(f) = iter[S]
  BY DEF SumFunction, SumFunctionOnSet, FoldFunctionOnSet, MapThenFoldSet
<1>2. Solves(E)
  <2>1. \A s \in SUBSET S : E[s] = Rest(E, s)
    OBVIOUS
  <2> HIDE DEF Rest
  <2> QED BY <2>1
<1>3. Solves(iter)
  <2> HIDE DEF Solves
  <2> QED BY <1>2
<1> HIDE DEF iter
<1>4. ASSUME NEW s \in SUBSET S, s # {}
      PROVE  \E x \in s : iter[s] = f[x] + iter[s \ {x}]
  <2>1. iter[s] = Rest(iter, s)
    <3> HIDE DEF Rest
    <3> QED BY <1>3
  <2>2. (CHOOSE x \in s : TRUE) \in s
    BY <1>4
  <2> DEFINE x == CHOOSE x \in s : TRUE
  <2>3. iter[s] = f[x] + iter[s \ {x}] /\ x \in s
    BY <1>4, <2>1, <2>2
  <2> HIDE DEF x
  <2> QED BY <2>3
<1>5. iter[{}] = 0
  BY <1>3
<1> DEFINE Size == {Cardinality(s) : s \in {t \in SUBSET S : iter[t] # E[t]}}
<1>6. Size \subseteq Nat
  BY FS_Subset, FS_CardinalityType
<1>7. SUFFICES ASSUME Size # {} PROVE FALSE
  BY <1>1
<1>8. PICK n \in Size : \A m \in Size : ~(m < n)
  <2> HIDE DEF Size
  <2>1. PICK n \in Size : \A m \in Size : ~(<<m, n>> \in OpToRel(<, Nat))
    BY <1>6, <1>7, NatLessThanWellFounded, WFMin
  <2> QED BY <1>6, <2>1 DEF OpToRel
<1>9. PICK s \in SUBSET S : iter[s] # E[s] /\ Cardinality(s) = n
  BY <1>8
<1>10. s # {}
  BY <1>5, <1>9
<1>11. PICK x \in s : iter[s] = f[x] + iter[s \ {x}]
  BY <1>4, <1>10
<1>12. IsFiniteSet(s) /\ Cardinality(s \ {x}) = Cardinality(s) - 1 /\ Cardinality(s) \in Nat
  BY FS_Subset, FS_RemoveElement, FS_CardinalityType
<1>13. iter[s \ {x}] = E[s \ {x}]
  <2> SUFFICES ASSUME iter[s \ {x}] # E[s \ {x}] PROVE FALSE
    OBVIOUS
  <2>1. Cardinality(s \ {x}) \in Size
    OBVIOUS
  <2> HIDE DEF Size
  <2> QED BY <1>8, <1>9, <1>12, <2>1
<1> QED BY <1>9, <1>11, <1>13

LEMMA FiniteTotals == IsFiniteSet(Totals)
<1>1. \A a, b : IsFiniteSet({a, b})
  <2>1. \A a, b : IsFiniteSet({} \cup {a} \cup {b}) /\ {} \cup {a} \cup {b} = {a, b}
    BY FS_EmptySet, FS_AddElement
  <2> QED BY <2>1
<1>2. Totals = {"success", "failed"} \cup {"timeout", "cancelled"}
  BY DEF Totals
<1> QED BY <1>1, <1>2, FS_Union

LEMMA SumOfResults ==
    ASSUME NEW f \in [Results -> Nat]
    PROVE  SumFunction(f) = f["success"] + f["failed"] + f["timeout"] + f["cancelled"] + f["empty_response"]
<1> DEFINE At(s, r) == IF r \in s THEN f[r] ELSE 0
           E == [s \in SUBSET Results |-> At(s, "success") + At(s, "failed") + At(s, "timeout")
                                          + At(s, "cancelled") + At(s, "empty_response")]
<1>1. \A r \in Results : f[r] \in Nat
  OBVIOUS
<1>2. E \in [SUBSET Results -> Nat]
  BY <1>1 DEF Results
<1>3. E[{}] = 0
  OBVIOUS
<1>4. ASSUME NEW s \in SUBSET Results, NEW x \in s
      PROVE  E[s] = f[x] + E[s \ {x}]
  BY <1>1 DEF Results
<1>5. IsFiniteSet(Results)
  <2>1. Results = Totals \cup {"empty_response"}
    BY DEF Results, Totals
  <2> QED BY <2>1, FiniteTotals, FS_AddElement
<1> HIDE DEF E
<1>6. SumFunction(f) = E[Results]
  BY <1>2, <1>3, <1>4, <1>5, SumIs
<1> QED BY <1>6 DEF E, Results

LEMMA SumOfTotals ==
    ASSUME NEW f \in [Totals -> Nat]
    PROVE  SumFunction(f) = f["success"] + f["failed"] + f["timeout"] + f["cancelled"]
<1> DEFINE At(s, r) == IF r \in s THEN f[r] ELSE 0
           E == [s \in SUBSET Totals |-> At(s, "success") + At(s, "failed") + At(s, "timeout")
                                         + At(s, "cancelled")]
<1>1. \A r \in Totals : f[r] \in Nat
  OBVIOUS
<1>2. E \in [SUBSET Totals -> Nat]
  BY <1>1 DEF Totals
<1>3. E[{}] = 0
  OBVIOUS
<1>4. ASSUME NEW s \in SUBSET Totals, NEW x \in s
      PROVE  E[s] = f[x] + E[s \ {x}]
  BY <1>1 DEF Totals
<1>5. IsFiniteSet(Totals)
  BY FiniteTotals
<1> HIDE DEF E
<1>6. SumFunction(f) = E[Totals]
  BY <1>2, <1>3, <1>4, <1>5, SumIs
<1> QED BY <1>6 DEF E, Totals

-----------------------------------------------------------------------------
(* A client's report is counted once.                                       *)

\* The keys of a session counted within the last age ticks.
Reported(s, age) == {k \in Keys : last[s][k] \in 0..age}

Remembered(s, key) == s \in DOMAIN sessions /\ key \in DOMAIN sessions[s]

LastTypes == last \in [Sessions -> [Keys -> {Never} \cup 0..Old]]

\* What the table has is as old as its last counted report.
SameAges ==
    \A s \in DOMAIN sessions :
        /\ s \in Sessions
        /\ \A k \in DOMAIN sessions[s] :
              k \in Keys /\ sessions[s][k] = last[s][k] /\ last[s][k] # Never

FewReports == \A s \in Sessions : IsFiniteSet(Reported(s, Old))

\* A key that is not old left its table only for as many that came with or after it.
Displaced ==
    \A s \in Sessions, k \in Keys :
        last[s][k] \in 0..TTL /\ ~Remembered(s, k)
        => Cardinality(Reported(s, last[s][k]) \ {k}) >= MaxReports

ReportInv == LastTypes /\ SameAges /\ FewReports /\ Displaced

LEMMA Ages ==
    /\ Old \in Nat /\ TTL \in Nat /\ Old = TTL + 1 /\ Never = -1 /\ Never \notin 0..Old
    /\ \A age \in 0..TTL : age + 1 \in 0..Old /\ age # Never /\ age # Old
    /\ \A age \in 0..Old : age \in 0..TTL \/ age = Old
BY FilterAssumption DEF Old, Never

\* How a report or a disconnection changes one session and leaves the others.
LEMMA OthersKept ==
    ASSUME ReportInv, NEW s \in Sessions, LastTypes', SameAges',
           \A r \in Sessions : r # s => last'[r] = last[r],
           \A r \in Sessions : r # s => (r \in DOMAIN sessions' <=> r \in DOMAIN sessions),
           \A r \in DOMAIN sessions : r # s => sessions'[r] = sessions[r],
           IsFiniteSet(Reported(s, Old)'),
           \A k \in Keys : last'[s][k] \in 0..TTL /\ ~Remembered(s, k)'
              => Cardinality(Reported(s, last[s][k])' \ {k}) >= MaxReports
    PROVE  ReportInv'
<1>1. \A r \in Sessions, age \in Nat : r # s => Reported(r, age)' = Reported(r, age)
  BY DEF Reported
<1>2. FewReports'
  BY <1>1, Ages DEF FewReports, ReportInv, Reported, Old
<1>3. ASSUME NEW r \in Sessions, NEW k \in Keys, last'[r][k] \in 0..TTL, ~Remembered(r, k)'
      PROVE  Cardinality(Reported(r, last[r][k])' \ {k}) >= MaxReports
  <2>1. CASE r = s
    BY <1>3, <2>1
  <2>2. CASE r # s
    <3>1. last'[r] = last[r] /\ ~Remembered(r, k)
      BY <1>3, <2>2 DEF Remembered
    <3>2. Reported(r, last[r][k])' = Reported(r, last[r][k])
      BY <2>2, <3>1 DEF Reported
    <3> QED BY <1>3, <3>1, <3>2 DEF ReportInv, Displaced
  <2> QED BY <2>1, <2>2
<1> QED BY <1>2, <1>3 DEF ReportInv, Displaced

\* The entries of a session's table that are within the TTL.
LEMMA FreshIs ==
    ASSUME ReportInv, NEW s \in Sessions
    PROVE  /\ Fresh(Entered(s)[s]) = {k \in Keys : Remembered(s, k) /\ last[s][k] \in 0..TTL}
           /\ \A k \in Fresh(Entered(s)[s]) : Entered(s)[s][k] = last[s][k]
<1>1. \A k \in Keys : last[s][k] \in {Never} \cup 0..Old
  BY DEF ReportInv, LastTypes
<1>2. CASE s \in DOMAIN sessions
  <2>1. Entered(s)[s] = sessions[s]
    BY <1>2 DEF Entered
  <2>2. \A k \in DOMAIN sessions[s] : k \in Keys /\ sessions[s][k] = last[s][k] /\ last[s][k] # Never
    BY <1>2 DEF ReportInv, SameAges
  <2>3. \A k \in DOMAIN sessions[s] : sessions[s][k] <= TTL <=> last[s][k] \in 0..TTL
    BY <1>1, <2>2, Ages
  <2> QED BY <1>2, <2>1, <2>2, <2>3 DEF Fresh, Remembered
<1>3. CASE s \notin DOMAIN sessions
  <2>1. Entered(s)[s] = <<>>
    BY <1>3 DEF Entered, NoReports
  <2>2. Fresh(<<>>) = {}
    BY DEF Fresh
  <2> QED BY <1>3, <2>1, <2>2 DEF Remembered
<1> QED BY <1>2, <1>3

LEMMA RememberKeeps ==
    ASSUME ReportInv, NEW s \in Sessions, NEW key \in Keys, Remember(s, key)
    PROVE  ReportInv'
<1> DEFINE reported == Entered(s)[s]
           fresh == Fresh(reported)
<1>1. /\ fresh = {k \in Keys : Remembered(s, k) /\ last[s][k] \in 0..TTL}
      /\ \A k \in fresh : reported[k] = last[s][k]
  BY FreshIs
<1>2. PICK gone : /\ gone \subseteq fresh /\ gone # {} => Cardinality(fresh) >= MaxReports
                  /\ \A k \in gone, j \in fresh : reported[k] >= reported[j]
                  /\ gone = {} \/ \E k \in fresh : gone = {k}
                  /\ sessions' = [Entered(s) EXCEPT ![s] =
                        [k \in (fresh \ gone) \cup {key} |-> IF k = key THEN 0 ELSE reported[k]]]
  BY DEF Remember, Evictable
<1>3. /\ key \notin fresh /\ last' = [last EXCEPT ![s][key] = 0]
  BY DEF Remember
<1> HIDE DEF fresh, reported
<1>4. /\ \A r \in Sessions : r # s => last'[r] = last[r]
      /\ \A k \in Keys : last'[s][k] = IF k = key THEN 0 ELSE last[s][k]
      /\ LastTypes'
  <2>1. last \in [Sessions -> [Keys -> {Never} \cup 0..Old]] /\ 0 \in 0..Old
    BY Ages DEF ReportInv, LastTypes
  <2>2. last' = [last EXCEPT ![s] = [last[s] EXCEPT ![key] = 0]]
    BY <1>3
  <2>3. [last[s] EXCEPT ![key] = 0] \in [Keys -> {Never} \cup 0..Old]
    BY <2>1
  <2>4. LastTypes'
    BY <2>1, <2>2, <2>3 DEF LastTypes
  <2>5. \A k \in Keys : [last[s] EXCEPT ![key] = 0][k] = IF k = key THEN 0 ELSE last[s][k]
    BY <2>1
  <2>6. last'[s] = [last[s] EXCEPT ![key] = 0]
    BY <2>1, <2>2
  <2> QED BY <2>1, <2>2, <2>4, <2>5, <2>6
<1>5. /\ DOMAIN sessions' = DOMAIN sessions \cup {s}
      /\ \A r \in DOMAIN sessions : r # s => sessions'[r] = sessions[r]
      /\ DOMAIN sessions'[s] = (fresh \ gone) \cup {key}
      /\ \A k \in (fresh \ gone) \cup {key} : sessions'[s][k] = IF k = key THEN 0 ELSE reported[k]
  <2>1. /\ DOMAIN Entered(s) = DOMAIN sessions \cup {s}
        /\ \A r \in DOMAIN sessions : Entered(s)[r] = sessions[r]
    BY DEF Entered
  <2>2. s \in DOMAIN Entered(s)
    BY <2>1
  <2> HIDE DEF Entered
  <2> QED BY <1>2, <2>1, <2>2
<1>6. SameAges'
  <2> SUFFICES ASSUME NEW r \in DOMAIN sessions'
               PROVE  /\ r \in Sessions
                      /\ \A k \in DOMAIN sessions'[r] :
                            k \in Keys /\ sessions'[r][k] = last'[r][k] /\ last'[r][k] # Never
    BY DEF SameAges
  <2>1. CASE r = s
    BY <1>1, <1>4, <1>5, <2>1, Ages
  <2>2. CASE r # s
    BY <1>4, <1>5, <2>2 DEF ReportInv, SameAges
  <2> QED BY <2>1, <2>2
<1>7. \A k \in Keys : Remembered(s, k)' <=> k \in (fresh \ gone) \cup {key}
  BY <1>5 DEF Remembered
<1>8. Reported(s, Old)' = Reported(s, Old) \cup {key}
  BY <1>4, Ages DEF Reported, Old
<1>9. IsFiniteSet(Reported(s, Old)')
  BY <1>8, FS_AddElement DEF ReportInv, FewReports
<1>10. ASSUME NEW k \in Keys, last'[s][k] \in 0..TTL, ~Remembered(s, k)'
       PROVE  Cardinality(Reported(s, last[s][k])' \ {k}) >= MaxReports
  <2> DEFINE after == Reported(s, last[s][k])' \ {k}
             before == Reported(s, last[s][k]) \ {k}
  <2>1. k # key /\ last'[s][k] = last[s][k]
    BY <1>4, <1>7, <1>10
  <2>2. before \subseteq after /\ key \in after /\ IsFiniteSet(after) /\ IsFiniteSet(before)
    <3>1. after \subseteq Reported(s, Old)'
      BY <1>10, Ages DEF Reported, Old
    <3>2. before \subseteq after
      BY <1>4, <2>1, <1>10, Ages DEF Reported
    <3>3. key \in after
      BY <1>4, <1>10, <2>1, Ages DEF Reported
    <3> QED BY <1>9, <3>1, <3>2, <3>3, FS_Subset
  <2>3. CASE k \in fresh
    <3>1. k \in gone /\ Cardinality(fresh) >= MaxReports
      BY <1>2, <1>7, <1>10, <2>3
    <3>2. \A j \in fresh : last[s][j] \in 0..last[s][k]
      BY <1>1, <1>2, <3>1, Ages
    <3>3. (fresh \ {k}) \cup {key} \subseteq after
      BY <1>1, <1>3, <1>4, <2>1, <2>2, <3>2 DEF Reported
    <3>4. IsFiniteSet(fresh)
      <4>1. fresh \subseteq Reported(s, Old)
        BY <1>1, Ages DEF Reported, Old
      <4> QED BY <4>1, FS_Subset DEF ReportInv, FewReports
    <3>5. Cardinality((fresh \ {k}) \cup {key}) = Cardinality(fresh)
      <4>1. IsFiniteSet(fresh \ {k}) /\ Cardinality(fresh \ {k}) = Cardinality(fresh) - 1
        BY <2>3, <3>4, FS_RemoveElement
      <4>2. Cardinality((fresh \ {k}) \cup {key}) = Cardinality(fresh \ {k}) + 1
        BY <1>3, <4>1, FS_AddElement
      <4> QED BY <3>4, <4>1, <4>2, FS_CardinalityType
    <3>6. Cardinality((fresh \ {k}) \cup {key}) <= Cardinality(after)
      BY <2>2, <3>3, FS_Subset
    <3> HIDE DEF after
    <3>7. Cardinality(fresh) \in Nat /\ Cardinality(after) \in Nat /\ MaxReports \in Nat
      BY <2>2, <3>4, FS_CardinalityType, FilterAssumption
    <3>8. Cardinality(after) >= MaxReports
      BY <3>1, <3>5, <3>6, <3>7
    <3> QED BY <3>8 DEF after
  <2>4. CASE k \notin fresh
    <3>1. ~Remembered(s, k)
      BY <1>1, <1>10, <2>1, <2>4
    <3>2. Cardinality(before) >= MaxReports
      BY <1>10, <2>1, <3>1 DEF ReportInv, Displaced
    <3>3. Cardinality(before) <= Cardinality(after)
      BY <2>2, FS_Subset
    <3> HIDE DEF after, before
    <3>4. Cardinality(before) \in Nat /\ Cardinality(after) \in Nat /\ MaxReports \in Nat
      BY <2>2, FS_CardinalityType, FilterAssumption
    <3>5. Cardinality(after) >= MaxReports
      BY <3>2, <3>3, <3>4
    <3> QED BY <3>5 DEF after
  <2> QED BY <2>3, <2>4
<1> QED BY <1>4, <1>5, <1>6, <1>9, <1>10, OthersKept

LEMMA RefuseKeeps ==
    ASSUME ReportInv, NEW s \in Sessions, NEW key \in Keys, Refuse(s, key)
    PROVE  ReportInv'
<1> DEFINE fresh == Fresh(Entered(s)[s])
<1>1. fresh = {k \in Keys : Remembered(s, k) /\ last[s][k] \in 0..TTL}
  BY FreshIs
<1>2. /\ key \in fresh /\ last' = last
      /\ sessions' = [sessions EXCEPT ![s] = [k \in fresh |-> sessions[s][k]]]
  BY DEF Refuse, Sized
<1> HIDE DEF fresh
<1>3. s \in DOMAIN sessions
  BY <1>1, <1>2 DEF Remembered
<1>4. /\ DOMAIN sessions' = DOMAIN sessions
      /\ \A r \in DOMAIN sessions : r # s => sessions'[r] = sessions[r]
      /\ DOMAIN sessions'[s] = fresh
      /\ \A k \in fresh : sessions'[s][k] = sessions[s][k]
  BY <1>2, <1>3
<1>5. SameAges' /\ LastTypes'
  <2>1. \A r \in DOMAIN sessions : \A k \in DOMAIN sessions'[r] :
           k \in DOMAIN sessions[r] /\ sessions'[r][k] = sessions[r][k]
    BY <1>1, <1>4 DEF Remembered
  <2>2. SameAges'
    BY <1>2, <1>4, <2>1 DEF ReportInv, SameAges
  <2>3. LastTypes'
    BY <1>2 DEF ReportInv, LastTypes, Old
  <2> QED BY <2>2, <2>3
<1>6. \A k \in Keys : last[s][k] \in 0..TTL /\ ~Remembered(s, k)' => ~Remembered(s, k)
  BY <1>1, <1>3, <1>4 DEF Remembered
<1>7. \A k \in Keys : Reported(s, last[s][k])' = Reported(s, last[s][k])
  BY <1>2 DEF Reported
<1>8. IsFiniteSet(Reported(s, Old)')
  BY <1>2 DEF Reported, Old, ReportInv, FewReports
<1>9. ASSUME NEW k \in Keys, last'[s][k] \in 0..TTL, ~Remembered(s, k)'
      PROVE  Cardinality(Reported(s, last[s][k])' \ {k}) >= MaxReports
  BY <1>2, <1>6, <1>7, <1>9 DEF ReportInv, Displaced
<1> QED BY <1>2, <1>4, <1>5, <1>8, <1>9, OthersKept

LEMMA TickKeeps ==
    ASSUME ReportInv, Tick
    PROVE  ReportInv'
<1>1. \A s \in Sessions, k \in Keys : last[s][k] \in {Never} \cup 0..Old
  BY DEF ReportInv, LastTypes
<1>2. /\ last' = [s \in Sessions |-> [k \in Keys |-> Older(last[s][k])]]
      /\ \A s \in Sessions, k \in Keys : last'[s][k] = Older(last[s][k])
  BY DEF Tick
<1>3. /\ DOMAIN sessions' = DOMAIN sessions
      /\ \A s \in DOMAIN sessions : /\ DOMAIN sessions'[s] = DOMAIN sessions[s]
                                    /\ \A k \in DOMAIN sessions[s] : sessions'[s][k] = Older(sessions[s][k])
  BY DEF Tick
<1>4. \A age \in {Never} \cup 0..Old : /\ Older(age) \in {Never} \cup 0..Old
                                       /\ Older(age) = Never <=> age = Never
                                       /\ Older(age) \in 0..TTL => age \in 0..TTL /\ Older(age) = age + 1
  BY Ages DEF Older
<1>5. LastTypes'
  BY <1>1, <1>2, <1>4 DEF LastTypes
<1>6. SameAges'
  BY <1>1, <1>2, <1>3, <1>4 DEF ReportInv, SameAges
<1>7. \A s \in Sessions : Reported(s, Old)' = Reported(s, Old)
  <2>1. \A s \in Sessions, k \in Keys : last'[s][k] \in 0..Old <=> last[s][k] \in 0..Old
    BY <1>1, <1>2, <1>4, Ages
  <2> QED BY <2>1 DEF Reported, Old
<1>8. FewReports'
  BY <1>7 DEF ReportInv, FewReports, Old
<1>9. ASSUME NEW s \in Sessions, NEW k \in Keys, last'[s][k] \in 0..TTL, ~Remembered(s, k)'
      PROVE  Cardinality(Reported(s, last[s][k])' \ {k}) >= MaxReports
  <2>1. last[s][k] \in 0..TTL /\ last'[s][k] = last[s][k] + 1
    BY <1>1, <1>2, <1>4, <1>9
  <2>2. ~Remembered(s, k)
    BY <1>3, <1>9 DEF Remembered
  <2>3. ASSUME NEW j \in Keys
        PROVE  last'[s][j] \in 0..(last[s][k] + 1) <=> last[s][j] \in 0..last[s][k]
    <3>1. last'[s][j] = Older(last[s][j]) /\ last[s][j] \in {Never} \cup 0..Old
      BY <1>1, <1>2
    <3>2. last[s][k] + 1 \in 0..TTL
      BY <1>9, <2>1
    <3> QED BY <2>1, <3>1, <3>2, <1>4, Ages DEF Older
  <2>4. Reported(s, last[s][k])' = Reported(s, last[s][k])
    BY <2>1, <2>3 DEF Reported
  <2> QED BY <2>1, <2>2, <2>4 DEF ReportInv, Displaced
<1> QED BY <1>5, <1>6, <1>8, <1>9 DEF ReportInv, Displaced

LEMMA DisconnectKeeps ==
    ASSUME ReportInv, NEW s \in Sessions, Disconnect(s)
    PROVE  ReportInv'
<1>1. /\ DOMAIN sessions' = DOMAIN sessions \ {s}
      /\ \A r \in DOMAIN sessions : r # s => sessions'[r] = sessions[r]
      /\ last' = [last EXCEPT ![s] = [k \in Keys |-> Never]]
  BY DEF Disconnect
<1>2. /\ \A r \in Sessions : r # s => last'[r] = last[r]
      /\ \A k \in Keys : last'[s][k] = Never
      /\ LastTypes'
  BY <1>1 DEF ReportInv, LastTypes
<1>3. SameAges'
  BY <1>1, <1>2 DEF ReportInv, SameAges
<1>4. Reported(s, Old)' = {}
  BY <1>2, Ages DEF Reported, Old
<1>5. IsFiniteSet(Reported(s, Old)')
  BY <1>4, FS_EmptySet
<1>6. \A k \in Keys : last'[s][k] \notin 0..TTL
  BY <1>2, Ages
<1> QED BY <1>1, <1>2, <1>3, <1>5, <1>6, OthersKept

\* Whoever comes in finds its session, or an empty one.
LEMMA EnterKeeps ==
    ASSUME ReportInv, NEW s \in Sessions, sessions' = Entered(s), last' = last
    PROVE  ReportInv'
<1>1. /\ DOMAIN sessions' = DOMAIN sessions \cup {s}
      /\ \A r \in DOMAIN sessions : sessions'[r] = sessions[r]
      /\ s \notin DOMAIN sessions => sessions'[s] = <<>>
  BY DEF Entered, NoReports
<1>2. \A r, k : Remembered(r, k)' <=> Remembered(r, k)
  <2>1. DOMAIN <<>> = {}
    OBVIOUS
  <2> QED BY <1>1, <2>1 DEF Remembered
<1>3. SameAges'
  <2>1. DOMAIN <<>> = {}
    OBVIOUS
  <2> QED BY <1>1, <2>1 DEF ReportInv, SameAges
<1> QED BY <1>2, <1>3 DEF ReportInv, LastTypes, FewReports, Displaced, Reported, Old

LEMMA ReportStep == ReportInv /\ [NextService]_serviceVars => ReportInv'
<1> SUFFICES ASSUME ReportInv, [NextService]_serviceVars PROVE ReportInv'
  OBVIOUS
<1>1. ASSUME UNCHANGED <<sessions, last>> PROVE ReportInv'
  BY <1>1 DEF ReportInv, LastTypes, SameAges, FewReports, Displaced, Reported, Remembered, Old
<1>2. CASE Tick
  BY <1>2, TickKeeps
<1>3. ASSUME NEW s \in Sessions, Report(s)
      PROVE  ReportInv'
  <2>1. ReportKeys \subseteq Keys
    BY DEF ReportKeys, Keys, Metrics
  <2> QED BY <1>3, <2>1, RememberKeeps, RefuseKeeps DEF Report
<1>4. ASSUME NEW s \in Sessions, Disconnect(s)
      PROVE  ReportInv'
  BY <1>4, DisconnectKeeps
<1>5. ASSUME NEW s \in Sessions, OtherPayload(s) \/ Interrupt(s) \/ \E t \in Turns : Utterance(s, t)
      PROVE  ReportInv'
  BY <1>5, EnterKeeps DEF OtherPayload, Interrupt, Utterance
<1>6. ASSUME NEW t \in Turns, TurnStep(t) \/ Panic(t)
      PROVE  ReportInv'
  BY <1>1, <1>6 DEF TurnStep, Panic, ObserveCancel, AsrEnds, AsrHeard, FirstText, FirstFrame,
                    FirstSent, AudioRefused, ItemsEnd, ItemsFail, LastStatusRefused, Ends, DropGuard, Noted
<1>7. CASE Janitorial \/ \E t \in Turns : HelperAsks(t) \/ HelperTracks(t) \/ ChildEnds(t)
  BY <1>1, <1>7 DEF Janitorial, JanitorAsks, JanitorLocks, JanitorExits, JanitorJoins,
                    HelperAsks, HelperTracks, ChildEnds
<1>8. CASE UNCHANGED serviceVars
  BY <1>1, <1>8 DEF serviceVars
<1> QED BY <1>2, <1>3, <1>4, <1>5, <1>6, <1>7, <1>8 DEF NextService, Connections, Pipelines, Reports

LEMMA ReportInit == InitService => ReportInv
<1> SUFFICES ASSUME InitService PROVE ReportInv
  OBVIOUS
<1>1. DOMAIN sessions = {}
  BY DEF InitService
<1>2. \A s \in Sessions, k \in Keys : last[s][k] = Never
  BY DEF InitService
<1>3. \A s \in Sessions : Reported(s, Old) = {}
  BY <1>2, Ages DEF Reported
<1>4. FewReports
  BY <1>3, FS_EmptySet DEF FewReports
<1>5. LastTypes
  BY DEF InitService, LastTypes
<1>6. SameAges
  BY <1>1 DEF SameAges
<1>7. Displaced
  BY <1>2, Ages DEF Displaced
<1> QED BY <1>4, <1>5, <1>6, <1>7 DEF ReportInv

LEMMA CountedOnceStep ==
    ASSUME ReportInv, NEW s \in Sessions, NEW key \in ReportKeys, Remember(s, key)
    PROVE  \/ last[s][key] \in {Never, Old}
           \/ Cardinality({k \in Keys \ {key} : last[s][k] \in 0..last[s][key]}) >= MaxReports
<1>1. key \in Keys
  BY DEF ReportKeys, Keys, Metrics
<1>2. key \notin Fresh(Entered(s)[s])
  BY DEF Remember
<1>3. ~(Remembered(s, key) /\ last[s][key] \in 0..TTL)
  BY <1>1, <1>2, FreshIs
<1>4. CASE last[s][key] \in 0..TTL
  <2>1. Cardinality(Reported(s, last[s][key]) \ {key}) >= MaxReports
    BY <1>1, <1>3, <1>4 DEF ReportInv, Displaced
  <2>2. Reported(s, last[s][key]) \ {key} = {k \in Keys \ {key} : last[s][k] \in 0..last[s][key]}
    BY DEF Reported
  <2> QED BY <2>1, <2>2
<1>5. CASE last[s][key] \notin 0..TTL
  <2>1. last[s][key] \in {Never} \cup 0..Old
    BY <1>1 DEF ReportInv, LastTypes
  <2> QED BY <1>5, <2>1, Ages
<1> QED BY <1>4, <1>5

\* A report of a message and metric is counted again only when the first is past
\* the TTL, or as many others as the table holds came with or after it, however
\* often a client repeats it or reconnects (remember_client_metric_once).
THEOREM AlwaysCountedOnce == SpecService => CountedOnce
<1>1. ReportInv /\ [NextService]_serviceVars
      => [\A s \in Sessions : \A key \in ReportKeys :
            Remember(s, key) =>
              \/ last[s][key] \in {Never, Old}
              \/ Cardinality({k \in Keys \ {key} : last[s][k] \in 0..last[s][key]}) >= MaxReports]_serviceVars
  BY CountedOnceStep
<1> QED BY <1>1, ReportInit, ReportStep, PTL DEF SpecService, CountedOnce

-----------------------------------------------------------------------------
(* The books balance.                                                       *)

\* The pipelines whose guard is alive; of these, the ones in the middle of their
\* first sound, and the ones that have text and no sound yet.
Living == {t \in Turns : Live(t)}
Unsent == {t \in Turns : turn[t].frame /\ ~turn[t].sent}
Silent == {t \in Turns : turn[t].text /\ ~turn[t].frame}

\* A guard notes first texts and sounds only in the answer, the sending after the sound.
Guard == [session : Sessions \cup {NoMsg}, stage : {"unborn", "asr", "answer", "over"},
          cancelled : BOOLEAN, text : BOOLEAN, frame : BOOLEAN, sent : BOOLEAN,
          panicked : BOOLEAN]

Guards ==
    /\ turn \in [Turns -> Guard]
    /\ \A t \in Turns :
          /\ turn[t].stage # "answer" => ~turn[t].text /\ ~turn[t].frame /\ ~turn[t].sent
          /\ turn[t].sent => turn[t].frame

CounterTypes ==
    /\ started \in Nat
    /\ finished \in [Results -> Nat]
    /\ totals \in [Totals -> Nat]
    /\ count \in [Histograms -> Nat]

Done == finished["success"] + finished["failed"] + finished["timeout"]
        + finished["cancelled"] + finished["empty_response"]

Labelled ==
    /\ totals["success"] = finished["success"]
    /\ totals["failed"] = finished["failed"] + finished["empty_response"]
    /\ totals["timeout"] = finished["timeout"]
    /\ totals["cancelled"] = finished["cancelled"]

Observed ==
    /\ count["duration"] = Done
    /\ count["e2e_complete"] = finished["success"]

\* What each pipeline on its way still owes to a pair of histograms.
Owed ==
    /\ started = Done + Cardinality(Living)
    /\ count["ws_first_audio_sent"] + Cardinality(Unsent) <= count["tts_first_frame"]
    /\ count["tts_first_frame"] <= count["ws_first_audio_sent"] + Cardinality(Unsent)
                                   + finished["cancelled"] + finished["failed"]
    /\ count["llm_first_text_to_tts_first_frame"] + Cardinality(Silent) <= count["llm_first_text"]

BookInv == Guards /\ CounterTypes /\ IsFiniteSet(Living) /\ Labelled /\ Observed /\ Owed

LEMMA FiniteParts ==
    ASSUME Guards, IsFiniteSet(Living)
    PROVE  /\ Unsent \subseteq Living /\ Silent \subseteq Living
           /\ IsFiniteSet(Unsent) /\ IsFiniteSet(Silent)
           /\ Cardinality(Unsent) \in Nat /\ Cardinality(Silent) \in Nat /\ Cardinality(Living) \in Nat
           /\ Cardinality(Unsent) <= Cardinality(Living)
<1>1. Unsent \subseteq Living /\ Silent \subseteq Living
  BY DEF Unsent, Silent, Living, Live, Guards
<1> QED BY <1>1, FS_Subset, FS_CardinalityType

\* A set of pipelines that one of them joins or leaves.
LEMMA OneMore ==
    ASSUME NEW S, IsFiniteSet(S), NEW t
    PROVE  /\ IsFiniteSet(S \cup {t}) /\ IsFiniteSet(S \ {t})
           /\ Cardinality(S) \in Nat
           /\ t \notin S => Cardinality(S \cup {t}) = Cardinality(S) + 1 /\ S \ {t} = S
           /\ t \in S => Cardinality(S \ {t}) = Cardinality(S) - 1 /\ S \cup {t} = S
BY FS_AddElement, FS_RemoveElement, FS_CardinalityType

\* A step that changes no guard's progress and no book.
LEMMA BooksUntouched ==
    ASSUME BookInv, UNCHANGED books, Guards',
           \A t \in Turns : /\ Live(t)' <=> Live(t)
                            /\ turn'[t].text = turn[t].text /\ turn'[t].frame = turn[t].frame
                            /\ turn'[t].sent = turn[t].sent
    PROVE  BookInv'
<1>1. Living' = Living /\ Unsent' = Unsent /\ Silent' = Silent
  BY DEF Living, Unsent, Silent
<1> QED BY <1>1 DEF BookInv, CounterTypes, Labelled, Observed, Owed, Done, books

\* Cancelling changes what a guard knows of nothing but the cancellation.
LEMMA CancelKeeps ==
    ASSUME BookInv, UNCHANGED books, NEW g, turn' = [t \in Turns |-> g[t]],
           \A t \in Turns : \/ g[t] = turn[t]
                            \/ g[t] = [turn[t] EXCEPT !.cancelled = TRUE]
                            \/ turn[t].stage = "asr" /\ g[t] = [turn[t] EXCEPT !.stage = "answer"]
    PROVE  BookInv'
<1>1. \A t \in Turns : /\ turn'[t] \in Guard
                       /\ turn'[t].text = turn[t].text /\ turn'[t].frame = turn[t].frame
                       /\ turn'[t].sent = turn[t].sent
                       /\ \/ turn'[t].stage = turn[t].stage
                          \/ turn[t].stage = "asr" /\ turn'[t].stage = "answer"
  <2> TAKE t \in Turns
  <2>1. turn[t] \in Guard /\ turn'[t] = g[t]
    BY DEF BookInv, Guards
  <2> QED BY <2>1 DEF Guard
<1>2. \A t \in Turns : Live(t)' <=> Live(t)
  BY <1>1 DEF Live
<1>3. Guards'
  <2>1. turn' \in [Turns -> Guard]
    BY <1>1
  <2> QED BY <1>1, <2>1 DEF BookInv, Guards
<1> QED BY <1>1, <1>2, <1>3, BooksUntouched

\* A pipeline is spawned.
LEMMA UtteranceBooked ==
    ASSUME BookInv, NEW s \in Sessions, NEW t \in Turns, Utterance(s, t)
    PROVE  BookInv'
<1>1. /\ turn' = [turn EXCEPT ![t] = [NoTurn EXCEPT !.session = s, !.stage = "asr"]]
      /\ started' = started + 1 /\ UNCHANGED <<finished, totals, count>>
      /\ turn[t] = NoTurn
  BY DEF Utterance
<1> DEFINE new == [NoTurn EXCEPT !.session = s, !.stage = "asr"]
<1>2. /\ new \in Guard /\ new.stage = "asr" /\ ~new.text /\ ~new.frame /\ ~new.sent
      /\ ~NoTurn.text /\ ~NoTurn.frame /\ ~NoTurn.sent /\ NoTurn.stage = "unborn"
  BY DEF NoTurn, Guard
<1> HIDE DEF new
<1>3. turn \in [Turns -> Guard]
  BY DEF BookInv, Guards
<1>4. turn'[t] = new /\ \A q \in Turns : q # t => turn'[q] = turn[q]
  BY <1>1, <1>3 DEF new
<1>5. Guards'
  <2>1. turn' \in [Turns -> Guard]
    BY <1>1, <1>2, <1>3 DEF new
  <2> QED BY <1>2, <1>4, <2>1 DEF BookInv, Guards
<1>6. Living' = Living \cup {t} /\ t \notin Living
  BY <1>1, <1>2, <1>4 DEF Living, Live
<1>7. Unsent' = Unsent /\ Silent' = Silent
  BY <1>1, <1>2, <1>4 DEF Unsent, Silent
<1>8. IsFiniteSet(Living') /\ Cardinality(Living') = Cardinality(Living) + 1 /\ Cardinality(Living) \in Nat
  BY <1>6, OneMore DEF BookInv
<1>9. CounterTypes' /\ Labelled' /\ Observed' /\ Done' = Done
  BY <1>1 DEF BookInv, CounterTypes, Labelled, Observed, Done
<1>10. Owed'
  <2>1. Done \in Nat
    BY DEF BookInv, CounterTypes, Done, Results
  <2> QED BY <1>1, <1>7, <1>8, <1>9, <2>1 DEF BookInv, Owed, CounterTypes
<1> QED BY <1>5, <1>8, <1>9, <1>10 DEF BookInv

LEMMA ObserveType ==
    ASSUME CounterTypes, NEW names, Observe(names)
    PROVE  /\ count' \in [Histograms -> Nat]
           /\ \A h \in Histograms : count'[h] = count[h] + IF h \in names THEN 1 ELSE 0
BY DEF Observe, CounterTypes

\* The guard is dropped: only a cancelled, a failed or a panicking pipeline may
\* leave in the middle of its first sound.
LEMMA DropBooked ==
    ASSUME BookInv, NEW t \in Turns, NEW result \in Results, NEW panicked \in BOOLEAN,
           Live(t), DropGuard(t, result, panicked),
           MidItem(t) => result \in {"cancelled", "failed"}
    PROVE  BookInv'
<1> DEFINE new == [NoTurn EXCEPT !.stage = "over", !.panicked = panicked]
           names == {"duration"} \cup IF result = "success" THEN {"e2e_complete"} ELSE {}
<1>1. /\ turn' = [turn EXCEPT ![t] = new] /\ UNCHANGED started
      /\ Finished(result) /\ Observe(names)
  BY DEF DropGuard
<1>2. new \in Guard /\ new.stage = "over" /\ ~new.text /\ ~new.frame /\ ~new.sent
  BY DEF NoTurn, Guard
<1> HIDE DEF new
<1>3. turn \in [Turns -> Guard]
  BY DEF BookInv, Guards
<1>4. turn'[t] = new /\ \A q \in Turns : q # t => turn'[q] = turn[q]
  BY <1>1, <1>3
<1>5. Guards'
  <2>1. turn' \in [Turns -> Guard]
    BY <1>1, <1>2, <1>3
  <2> QED BY <1>2, <1>4, <2>1 DEF BookInv, Guards
<1>6. Living' = Living \ {t} /\ t \in Living
  BY <1>2, <1>4 DEF Living, Live
<1>7. Unsent' = Unsent \ {t} /\ Silent' = Silent \ {t}
  BY <1>2, <1>4 DEF Unsent, Silent
<1>8. IsFiniteSet(Living') /\ Cardinality(Living') = Cardinality(Living) - 1 /\ Cardinality(Living) \in Nat
  BY <1>6, OneMore DEF BookInv
<1>9. /\ IsFiniteSet(Unsent) /\ IsFiniteSet(Silent)
      /\ Cardinality(Unsent) \in Nat /\ Cardinality(Silent) \in Nat
  BY FiniteParts DEF BookInv
<1>10. /\ Cardinality(Silent') <= Cardinality(Silent) /\ Cardinality(Silent') \in Nat
       /\ t \notin Unsent => Cardinality(Unsent') = Cardinality(Unsent)
       /\ t \in Unsent => Cardinality(Unsent') = Cardinality(Unsent) - 1
  <2>1. /\ t \notin Unsent => Unsent \ {t} = Unsent
        /\ t \in Unsent => Cardinality(Unsent \ {t}) = Cardinality(Unsent) - 1
    BY <1>9, OneMore
  <2>2. /\ t \notin Silent => Silent \ {t} = Silent
        /\ t \in Silent => Cardinality(Silent \ {t}) = Cardinality(Silent) - 1
    BY <1>9, OneMore
  <2>3. IsFiniteSet(Silent \ {t})
    BY <1>9, OneMore
  <2>4. Cardinality(Silent \ {t}) \in Nat
    BY <2>3, FS_CardinalityType
  <2>5. Cardinality(Silent \ {t}) <= Cardinality(Silent)
    <3>1. \/ Cardinality(Silent \ {t}) = Cardinality(Silent)
          \/ Cardinality(Silent \ {t}) = Cardinality(Silent) - 1
      BY <2>2, Zenon
    <3> QED BY <1>9, <3>1
  <2> QED BY <1>7, <2>1, <2>4, <2>5
<1>11. t \in Unsent => result \in {"cancelled", "failed"}
  BY DEF Unsent, MidItem
<1>12. /\ finished' = [finished EXCEPT ![result] = finished[result] + 1]
       /\ totals' = [totals EXCEPT ![Total(result)] = totals[Total(result)] + 1]
  BY <1>1 DEF Finished
<1>13. Total(result) \in Totals
  BY DEF Total, Totals, Results
<1>14. /\ finished \in [Results -> Nat] /\ totals \in [Totals -> Nat] /\ started \in Nat
       /\ finished' \in [Results -> Nat] /\ totals' \in [Totals -> Nat]
  BY <1>12, <1>13 DEF BookInv, CounterTypes
<1>15. /\ \A r \in Results : finished'[r] = finished[r] + IF r = result THEN 1 ELSE 0
       /\ \A r \in Totals : totals'[r] = totals[r] + IF r = Total(result) THEN 1 ELSE 0
       /\ \A r \in Results : finished[r] \in Nat
       /\ \A r \in Totals : totals[r] \in Nat
  BY <1>12, <1>13, <1>14
<1>16. /\ count' \in [Histograms -> Nat]
       /\ \A h \in Histograms : count'[h] = count[h] + IF h \in names THEN 1 ELSE 0
  BY <1>1, ObserveType DEF BookInv
<1>17. Done' = Done + 1 /\ Done \in Nat
  BY <1>15 DEF Done, Results
<1>18. CounterTypes'
  BY <1>1, <1>14, <1>16 DEF CounterTypes
<1>19. Labelled'
  BY <1>15 DEF BookInv, Labelled, Total, Results, Totals
<1>20. \A h \in Histograms : count[h] \in Nat
  BY DEF BookInv, CounterTypes
<1>21. Observed'
  BY <1>15, <1>16, <1>17, <1>20 DEF BookInv, Observed, Histograms, Results
<1>22. Owed'
  <2>1. /\ count'["ws_first_audio_sent"] = count["ws_first_audio_sent"]
        /\ count'["tts_first_frame"] = count["tts_first_frame"]
        /\ count'["llm_first_text"] = count["llm_first_text"]
        /\ count'["llm_first_text_to_tts_first_frame"] = count["llm_first_text_to_tts_first_frame"]
        /\ count["ws_first_audio_sent"] \in Nat /\ count["tts_first_frame"] \in Nat
        /\ count["llm_first_text"] \in Nat /\ count["llm_first_text_to_tts_first_frame"] \in Nat
    BY <1>16, <1>20 DEF Histograms
  <2>2. /\ finished["cancelled"] \in Nat /\ finished["failed"] \in Nat
        /\ finished'["cancelled"] = finished["cancelled"] + IF result = "cancelled" THEN 1 ELSE 0
        /\ finished'["failed"] = finished["failed"] + IF result = "failed" THEN 1 ELSE 0
    BY <1>15 DEF Results
  <2>3. started' = Done' + Cardinality(Living')
    BY <1>1, <1>8, <1>14, <1>17 DEF BookInv, Owed
  <2>4. count'["ws_first_audio_sent"] + Cardinality(Unsent') <= count'["tts_first_frame"]
    BY <1>9, <1>10, <2>1 DEF BookInv, Owed
  <2>5. count'["tts_first_frame"] <= count'["ws_first_audio_sent"] + Cardinality(Unsent')
                                     + finished'["cancelled"] + finished'["failed"]
    BY <1>9, <1>10, <1>11, <2>1, <2>2 DEF BookInv, Owed
  <2>6. count'["llm_first_text_to_tts_first_frame"] + Cardinality(Silent') <= count'["llm_first_text"]
    BY <1>9, <1>10, <2>1 DEF BookInv, Owed
  <2> QED BY <2>3, <2>4, <2>5, <2>6 DEF Owed
<1> QED BY <1>5, <1>8, <1>18, <1>19, <1>21, <1>22 DEF BookInv

\* A guard notes its first text, its first sound or the sending of it.
LEMMA NotedBooked ==
    ASSUME BookInv, NEW t \in Turns, NEW new \in Guard, NEW names, turn[t].stage = "answer",
           Noted(t, new, names), new.stage = "answer",
           \/ /\ names = {"llm_first_text"} /\ ~turn[t].text
              /\ new.text /\ new.frame = turn[t].frame /\ new.sent = turn[t].sent
           \/ /\ names = FrameNames(t) /\ ~turn[t].frame /\ ~turn[t].sent
              /\ new.text = turn[t].text /\ new.frame /\ new.sent = turn[t].sent
           \/ /\ names = {"ws_first_audio_sent", "tts_first_frame_to_ws_first_audio_sent"}
              /\ turn[t].frame /\ ~turn[t].sent
              /\ new.text = turn[t].text /\ new.frame = turn[t].frame /\ new.sent
    PROVE  BookInv'
<1>1. /\ turn' = [turn EXCEPT ![t] = new] /\ UNCHANGED <<started, finished, totals>>
      /\ Observe(names)
  BY DEF Noted
<1>2. turn \in [Turns -> Guard]
  BY DEF BookInv, Guards
<1>3. turn'[t] = new /\ \A q \in Turns : q # t => turn'[q] = turn[q]
  BY <1>1, <1>2
<1>4. Guards'
  <2>1. turn' \in [Turns -> Guard]
    BY <1>1, <1>2
  <2> QED BY <1>3, <2>1 DEF BookInv, Guards
<1>5. Living' = Living
  BY <1>3 DEF Living, Live
<1>6. /\ IsFiniteSet(Unsent) /\ IsFiniteSet(Silent)
      /\ Cardinality(Unsent) \in Nat /\ Cardinality(Silent) \in Nat
  BY FiniteParts DEF BookInv
<1>7. /\ count' \in [Histograms -> Nat]
      /\ \A h \in Histograms : count'[h] = count[h] + IF h \in names THEN 1 ELSE 0
      /\ \A h \in Histograms : count[h] \in Nat
  BY <1>1, ObserveType DEF BookInv, CounterTypes
<1>8. CounterTypes' /\ Labelled' /\ Done' = Done
  BY <1>1, <1>7 DEF BookInv, CounterTypes, Labelled, Done
<1>9. names \subseteq Histograms \ {"duration", "e2e_complete"}
  BY DEF FrameNames, Histograms
<1>10. Observed'
  BY <1>1, <1>7, <1>8, <1>9 DEF BookInv, Observed, Histograms
<1>11. /\ started' = Done' + Cardinality(Living')
       /\ finished["cancelled"] \in Nat /\ finished["failed"] \in Nat
       /\ finished'["cancelled"] = finished["cancelled"] /\ finished'["failed"] = finished["failed"]
  BY <1>1, <1>5, <1>8 DEF BookInv, Owed, CounterTypes, Results
<1>12. LET c == count IN
       /\ c["ws_first_audio_sent"] \in Nat /\ c["tts_first_frame"] \in Nat
       /\ c["llm_first_text"] \in Nat /\ c["llm_first_text_to_tts_first_frame"] \in Nat
  BY <1>7 DEF Histograms
<1>13. CASE names = {"llm_first_text"} /\ ~turn[t].text /\ new.text /\ new.frame = turn[t].frame /\ new.sent = turn[t].sent
  <2>1. Unsent' = Unsent
    BY <1>3, <1>13 DEF Unsent
  <2>2. Silent' = Silent \/ Silent' = Silent \cup {t}
    BY <1>3, <1>13 DEF Silent
  <2>3. Cardinality(Silent') <= Cardinality(Silent) + 1 /\ Cardinality(Silent') \in Nat
    <3>1. /\ t \notin Silent => Cardinality(Silent \cup {t}) = Cardinality(Silent) + 1
          /\ t \in Silent => Silent \cup {t} = Silent
      BY <1>6, OneMore
    <3> QED BY <1>6, <2>2, <3>1
  <2>4. /\ count'["ws_first_audio_sent"] = count["ws_first_audio_sent"]
        /\ count'["tts_first_frame"] = count["tts_first_frame"]
        /\ count'["llm_first_text"] = count["llm_first_text"] + 1
        /\ count'["llm_first_text_to_tts_first_frame"] = count["llm_first_text_to_tts_first_frame"]
    BY <1>7, <1>13 DEF Histograms
  <2>5. Owed'
    BY <1>6, <1>11, <1>12, <2>1, <2>3, <2>4 DEF BookInv, Owed
  <2> QED BY <1>4, <1>5, <1>8, <1>10, <2>5 DEF BookInv
<1>14. CASE names = FrameNames(t) /\ ~turn[t].frame /\ ~turn[t].sent /\ new.text = turn[t].text /\ new.frame /\ new.sent = turn[t].sent
  <2>1. Unsent' = Unsent \cup {t} /\ t \notin Unsent
    BY <1>3, <1>14 DEF Unsent
  <2>2. Silent' = Silent \ {t} /\ (t \in Silent <=> turn[t].text)
    BY <1>3, <1>14 DEF Silent
  <2>3. /\ Cardinality(Unsent') = Cardinality(Unsent) + 1
        /\ Cardinality(Silent') = IF turn[t].text THEN Cardinality(Silent) - 1 ELSE Cardinality(Silent)
    BY <1>6, <2>1, <2>2, OneMore
  <2>4. /\ count'["ws_first_audio_sent"] = count["ws_first_audio_sent"]
        /\ count'["tts_first_frame"] = count["tts_first_frame"] + 1
        /\ count'["llm_first_text"] = count["llm_first_text"]
        /\ count'["llm_first_text_to_tts_first_frame"]
              = count["llm_first_text_to_tts_first_frame"] + IF turn[t].text THEN 1 ELSE 0
    BY <1>7, <1>14 DEF Histograms, FrameNames
  <2>5. Owed'
    BY <1>6, <1>11, <1>12, <2>3, <2>4 DEF BookInv, Owed
  <2> QED BY <1>4, <1>5, <1>8, <1>10, <2>5 DEF BookInv
<1>15. CASE /\ names = {"ws_first_audio_sent", "tts_first_frame_to_ws_first_audio_sent"}
            /\ turn[t].frame /\ ~turn[t].sent
            /\ new.text = turn[t].text /\ new.frame = turn[t].frame /\ new.sent
  <2>1. Unsent' = Unsent \ {t} /\ t \in Unsent
    BY <1>3, <1>15 DEF Unsent
  <2>2. Silent' = Silent
    BY <1>3, <1>15 DEF Silent
  <2>3. Cardinality(Unsent') = Cardinality(Unsent) - 1
    BY <1>6, <2>1, OneMore
  <2>4. /\ count'["ws_first_audio_sent"] = count["ws_first_audio_sent"] + 1
        /\ count'["tts_first_frame"] = count["tts_first_frame"]
        /\ count'["llm_first_text"] = count["llm_first_text"]
        /\ count'["llm_first_text_to_tts_first_frame"] = count["llm_first_text_to_tts_first_frame"]
    BY <1>7, <1>15 DEF Histograms
  <2>5. Owed'
    BY <1>6, <1>11, <1>12, <2>2, <2>3, <2>4 DEF BookInv, Owed
  <2> QED BY <1>4, <1>5, <1>8, <1>10, <2>5 DEF BookInv
<1> QED BY <1>13, <1>14, <1>15


\* Every step of the service keeps the books.
LEMMA BookStep == BookInv /\ [NextService]_serviceVars => BookInv'
<1> SUFFICES ASSUME BookInv, [NextService]_serviceVars PROVE BookInv'
  OBVIOUS
<1>1. /\ Guards /\ turn \in [Turns -> Guard]
      /\ \A t \in Turns : turn[t] \in Guard
  BY DEF BookInv, Guards
<1>2. ASSUME UNCHANGED turn, UNCHANGED books PROVE BookInv'
  BY <1>1, <1>2, BooksUntouched DEF Live, Guards
<1>3. ASSUME NEW s \in Sessions, UNCHANGED books, CancelSession(s) PROVE BookInv'
  <2> DEFINE g == [t \in Turns |-> IF turn[t].session = s /\ Live(t)
                                   THEN [turn[t] EXCEPT !.cancelled = TRUE] ELSE turn[t]]
  <2>1. turn' = [t \in Turns |-> g[t]]
    BY <1>3 DEF CancelSession
  <2>2. \A t \in Turns : g[t] = turn[t] \/ g[t] = [turn[t] EXCEPT !.cancelled = TRUE]
    OBVIOUS
  <2> HIDE DEF g
  <2> QED BY <1>3, <2>1, <2>2, CancelKeeps
<1>4. CASE Connections
  BY <1>2, <1>3, <1>4 DEF Connections, OtherPayload, Interrupt, Disconnect
<1>5. CASE Reports
  BY <1>2, <1>5 DEF Reports, Tick, Report
<1>6. CASE Janitorial
  BY <1>2, <1>6 DEF Janitorial, JanitorAsks, JanitorLocks, JanitorExits, JanitorJoins
<1>7. ASSUME NEW t \in Turns, TurnStep(t) \/ Panic(t) PROVE BookInv'
  <2>1. CASE ObserveCancel(t)
    BY <2>1, DropBooked DEF ObserveCancel, Ends, Results
  <2>2. CASE AsrEnds(t)
    <3>1. Live(t) /\ ~MidItem(t)
      BY <1>1, <2>2 DEF AsrEnds, Live, MidItem, Guards
    <3>2. PICK result \in {"failed", "timeout", "empty_response"} : DropGuard(t, result, FALSE)
      BY <2>2 DEF AsrEnds, Ends
    <3>3. result \in Results
      BY DEF Results
    <3> QED BY <3>1, <3>2, <3>3, DropBooked
  <2>3. CASE AsrHeard(t)
    <3> DEFINE g == [q \in Turns |->
          IF q = t THEN [turn[t] EXCEPT !.stage = "answer"]
          ELSE IF turn[q].session = turn[t].session /\ turn[q].stage = "answer"
               THEN [turn[q] EXCEPT !.cancelled = TRUE] ELSE turn[q]]
    <3>1. turn' = [q \in Turns |-> g[q]] /\ UNCHANGED books
      BY <2>3 DEF AsrHeard
    <3>2. \A q \in Turns : \/ g[q] = turn[q]
                           \/ g[q] = [turn[q] EXCEPT !.cancelled = TRUE]
                           \/ turn[q].stage = "asr" /\ g[q] = [turn[q] EXCEPT !.stage = "answer"]
      BY <2>3 DEF AsrHeard
    <3> HIDE DEF g
    <3> QED BY <3>1, <3>2, CancelKeeps
  <2>4. CASE FirstText(t)
    <3> DEFINE new == [turn[t] EXCEPT !.text = TRUE]
    <3>1. /\ new \in Guard /\ new.stage = turn[t].stage
          /\ new.text /\ new.frame = turn[t].frame /\ new.sent = turn[t].sent
      BY <1>1 DEF Guard
    <3>2. turn[t].stage = "answer" /\ ~turn[t].text /\ Noted(t, new, {"llm_first_text"})
      BY <2>4 DEF FirstText
    <3> HIDE DEF new
    <3> QED BY <3>1, <3>2, NotedBooked
  <2>5. CASE FirstFrame(t)
    <3> DEFINE new == [turn[t] EXCEPT !.frame = TRUE]
    <3>1. /\ new \in Guard /\ new.stage = turn[t].stage
          /\ new.text = turn[t].text /\ new.frame /\ new.sent = turn[t].sent
      BY <1>1 DEF Guard
    <3>2. turn[t].stage = "answer" /\ ~turn[t].frame /\ Noted(t, new, FrameNames(t))
      BY <2>5 DEF FirstFrame
    <3>3. ~turn[t].sent
      BY <1>1, <3>2 DEF Guards
    <3> HIDE DEF new
    <3> QED BY <3>1, <3>2, <3>3, NotedBooked
  <2>6. CASE FirstSent(t)
    <3> DEFINE new == [turn[t] EXCEPT !.sent = TRUE]
               names == {"ws_first_audio_sent", "tts_first_frame_to_ws_first_audio_sent"}
    <3>1. /\ new \in Guard /\ new.stage = turn[t].stage
          /\ new.text = turn[t].text /\ new.frame = turn[t].frame /\ new.sent
      BY <1>1 DEF Guard
    <3>2. turn[t].stage = "answer" /\ turn[t].frame /\ ~turn[t].sent /\ Noted(t, new, names)
      BY <2>6 DEF FirstSent
    <3> HIDE DEF new
    <3> QED BY <3>1, <3>2, NotedBooked
  <2>7. CASE ItemsEnd(t) \/ ItemsFail(t)
    <3>1. /\ Live(t) /\ ~MidItem(t)
          /\ DropGuard(t, "success", FALSE) \/ DropGuard(t, "failed", FALSE)
      BY <2>7 DEF ItemsEnd, ItemsFail, Ends, Live
    <3> QED BY <3>1, DropBooked DEF Results
  <2>8. CASE LastStatusRefused(t)
    BY <2>8, DropBooked DEF LastStatusRefused, Ends, Live, Results
  <2>9. CASE Panic(t)
    BY <2>9, DropBooked DEF Panic, Results
  <2>10. CASE AudioRefused(t)
    BY <2>10, DropBooked DEF AudioRefused, Ends, Live, Results
  <2> QED BY <1>7, <2>1, <2>2, <2>3, <2>4, <2>5, <2>6, <2>7, <2>8, <2>9, <2>10 DEF TurnStep
<1>8. CASE Pipelines
  <2>1. ASSUME NEW t \in Turns, HelperAsks(t) \/ HelperTracks(t) \/ ChildEnds(t) PROVE BookInv'
    BY <1>2, <2>1 DEF HelperAsks, HelperTracks, ChildEnds
  <2> QED BY <1>7, <1>8, <2>1, UtteranceBooked DEF Pipelines
<1>9. CASE UNCHANGED serviceVars
  BY <1>2, <1>9 DEF serviceVars, books
<1> QED BY <1>4, <1>5, <1>6, <1>8, <1>9 DEF NextService

LEMMA BookInit == InitService => BookInv
<1> SUFFICES ASSUME InitService PROVE BookInv
  OBVIOUS
<1>1. /\ turn = [t \in Turns |-> NoTurn]
      /\ started = 0 /\ finished = [r \in Results |-> 0]
      /\ totals = [r \in Totals |-> 0] /\ count = [h \in Histograms |-> 0]
  BY DEF InitService
<1>2. NoTurn \in Guard /\ NoTurn.stage = "unborn" /\ ~NoTurn.text /\ ~NoTurn.frame /\ ~NoTurn.sent
  BY DEF NoTurn, Guard
<1>3. Guards
  BY <1>1, <1>2 DEF Guards
<1>4. Living = {} /\ Unsent = {} /\ Silent = {}
  BY <1>1, <1>2 DEF Living, Unsent, Silent, Live
<1>5. IsFiniteSet(Living) /\ Cardinality(Living) = 0 /\ Cardinality(Unsent) = 0 /\ Cardinality(Silent) = 0
  BY <1>4, FS_EmptySet
<1>6. CounterTypes /\ Labelled /\ Done = 0
  BY <1>1 DEF CounterTypes, Labelled, Done, Results, Totals
<1>7. Observed
  BY <1>1, <1>6 DEF Observed, Results, Histograms
<1>8. Owed
  BY <1>1, <1>5, <1>6 DEF Owed, Results, Histograms
<1> QED BY <1>3, <1>5, <1>6, <1>7, <1>8 DEF BookInv

LEMMA BooksFollow == BookInv => BooksBalance
<1> SUFFICES ASSUME BookInv PROVE BooksBalance
  OBVIOUS
<1>1. /\ finished \in [Results -> Nat] /\ totals \in [Totals -> Nat]
      /\ \A r \in Results : finished[r] \in Nat
      /\ \A h \in Histograms : count[h] \in Nat
  BY DEF BookInv, CounterTypes
<1>2. SumFunction(finished) = Done
  BY <1>1, SumOfResults DEF Done
<1>3. SumFunction(totals) = Done
  <2>1. SumFunction(totals) = totals["success"] + totals["failed"] + totals["timeout"] + totals["cancelled"]
    BY <1>1, SumOfTotals
  <2> QED BY <1>1, <2>1 DEF BookInv, Labelled, Done, Results
<1>4. /\ Cardinality(Unsent) \in Nat /\ Cardinality(Silent) \in Nat
      /\ Cardinality(Living) \in Nat /\ Cardinality(Unsent) <= Cardinality(Living)
  BY FiniteParts DEF BookInv
<1>5. /\ finished["cancelled"] \in Nat /\ finished["failed"] \in Nat
      /\ count["ws_first_audio_sent"] \in Nat /\ count["tts_first_frame"] \in Nat
      /\ count["llm_first_text"] \in Nat /\ count["llm_first_text_to_tts_first_frame"] \in Nat
  BY <1>1 DEF Results, Histograms
<1>6. started = Done + Cardinality(Living)
  BY DEF BookInv, Owed
<1>7. count["duration"] = Done /\ count["e2e_complete"] = totals["success"]
  BY DEF BookInv, Observed, Labelled
<1>8. /\ count["ws_first_audio_sent"] <= count["tts_first_frame"]
      /\ count["tts_first_frame"] - count["ws_first_audio_sent"]
            <= Cardinality(Living) + finished["cancelled"] + finished["failed"]
      /\ count["llm_first_text_to_tts_first_frame"] <= count["llm_first_text"]
  BY <1>4, <1>5 DEF BookInv, Owed
<1> QED BY <1>2, <1>3, <1>6, <1>7, <1>8 DEF BooksBalance, Living

\* Every pipeline that started is alive or finished with one result; the totals
\* and the durations say the same as the labels, and the stages of the way to the
\* client's ear follow from one another (Drop for PipelineMetricsGuard).
THEOREM BooksAlwaysBalance == SpecService => []BooksBalance
BY BookInit, BookStep, BooksFollow, PTL DEF SpecService

=============================================================================
