------------------------- MODULE CompletionsProofs -------------------------
(***************************************************************************)
(* Proofs about Completions, for any variations, providers and models, any *)
(* limits and any number of attempts.                                      *)
(***************************************************************************)
EXTENDS Completions, FiniteSetTheorems, TLAPS

(* A request that was sent has made an attempt, and one that sleeps has another
   to make. *)
Attempting ==
  \A v \in Variations : /\ stage[v] # "failed" => attempt[v] >= 1
                        /\ stage[v] = "sleeping" => attempt[v] < RetryCount

IdleIsOver == round = "idle" => RoundOver

(* The attempts every variation that asks p may make in one round, and those of
   this round that may still be charged. *)
Slots(p) == AskedOf(p) \X (1 .. RetryCount)

Open(p) ==
  {x \in Slots(p) : /\ Provider(x[1]) = p
                    /\ \/ stage[x[1]] = "waiting" /\ attempt[x[1]] <= x[2]
                       \/ stage[x[1]] = "sleeping" /\ attempt[x[1]] < x[2]}

Most(p) == TokensPerMinute + Cardinality(AskedOf(p)) * RetryCount * Need

(* What is charged and what may still be charged, together. *)
InBudget(p) == tokens[p] + Need + Cardinality(Open(p)) * Need <= Most(p)

CompletionsInv ==
  TypeOK /\ Attempting /\ IdleIsOver /\ \A p \in Providers : InBudget(p)

-----------------------------------------------------------------------------
(***************************************************************************)
(* The history and the limit.                                              *)
(***************************************************************************)
LEMMA TailTyped ==
  ASSUME NEW S, NEW q \in Seq(S), q # << >>
  PROVE  Tail(q) \in Seq(S) /\ Len(Tail(q)) = Len(q) - 1 /\ Len(q) \in Nat
OBVIOUS

LEMMA RecordedTyped ==
  ASSUME NEW h \in Seq(BOOLEAN), Len(h) <= HistorySize, NEW b \in BOOLEAN
  PROVE  Recorded(h, b) \in Seq(BOOLEAN) /\ Len(Recorded(h, b)) <= HistorySize
<1> DEFINE all == Append(h, b)
<1>1. all \in Seq(BOOLEAN) /\ Len(all) = Len(h) + 1 /\ Len(h) \in Nat
  OBVIOUS
<1> HIDE DEF all
<1>2. all # << >>
  BY <1>1
<1>3. Tail(all) \in Seq(BOOLEAN) /\ Len(Tail(all)) = Len(all) - 1
  BY <1>1, <1>2, TailTyped
<1>4. HistorySize \in Nat
  BY CompletionsAssumption
<1>5. Recorded(h, b) = IF Len(all) > HistorySize THEN Tail(all) ELSE all
  BY DEF Recorded, all
<1>6. CASE Len(all) > HistorySize
  <2>1. Recorded(h, b) = Tail(all)
    BY <1>5, <1>6
  <2>2. Len(Tail(all)) <= HistorySize
    BY <1>1, <1>3, <1>4
  <2> QED
    BY <1>3, <2>1, <2>2
<1>7. CASE ~(Len(all) > HistorySize)
  <2>1. Recorded(h, b) = all
    BY <1>5, <1>7
  <2>2. Len(all) <= HistorySize
    BY <1>1, <1>4, <1>7
  <2> QED
    BY <1>1, <2>1, <2>2
<1> QED
  BY <1>6, <1>7

(* The limit is only ever lowered. *)
LEMMA AdaptedFalls ==
  ASSUME NEW l \in Nat, NEW h
  PROVE  Adapted(l, h) \in 0 .. l
<1>1. (l * 4) \div 5 \in 0 .. l
  OBVIOUS
<1> QED
  BY <1>1 DEF Adapted

(* What a failed or answered attempt does to history and limit of p. *)
LEMMA AttemptTyped ==
  ASSUME TypeOK, NEW p \in Providers,
         NEW h \in Seq(BOOLEAN), Len(h) <= HistorySize,
         history' = [history EXCEPT ![p] = h],
         limit' = [limit EXCEPT ![p] = Adapted(@, h)]
  PROVE  /\ history' \in [Providers -> Seq(BOOLEAN)] /\ \A q \in Providers : Len(history'[q]) <= HistorySize
         /\ limit' \in [Providers -> 0 .. TokensPerMinute]
         /\ \A q \in Providers : limit'[q] <= limit[q]
<1>1. limit[p] \in Nat /\ limit[p] <= TokensPerMinute /\ TokensPerMinute \in Nat
  BY CompletionsAssumption DEF TypeOK
<1>2. Adapted(limit[p], h) \in 0 .. limit[p]
  BY <1>1, AdaptedFalls
<1>3. limit' \in [Providers -> 0 .. TokensPerMinute]
  BY <1>1, <1>2 DEF TypeOK
<1>4. \A q \in Providers : limit'[q] <= limit[q]
  BY <1>1, <1>2 DEF TypeOK
<1>5. history' \in [Providers -> Seq(BOOLEAN)] /\ \A q \in Providers : Len(history'[q]) <= HistorySize
  BY DEF TypeOK
<1> QED
  BY <1>3, <1>4, <1>5

-----------------------------------------------------------------------------
(***************************************************************************)
(* Counting attempts.                                                      *)
(***************************************************************************)
LEMMA SlotsCount ==
  ASSUME NEW p
  PROVE  /\ IsFiniteSet(Slots(p)) /\ IsFiniteSet(AskedOf(p))
         /\ Cardinality(AskedOf(p)) \in Nat
         /\ Cardinality(Slots(p)) = Cardinality(AskedOf(p)) * RetryCount
<1>1. IsFiniteSet(Variations) /\ RetryCount \in Nat \ {0}
  BY CompletionsAssumption
<1>2. AskedOf(p) \in SUBSET Variations
  BY DEF AskedOf
<1>3. IsFiniteSet(AskedOf(p)) /\ Cardinality(AskedOf(p)) \in Nat
  BY <1>1, <1>2, FS_Subset, FS_CardinalityType
<1>4. IsFiniteSet(1 .. RetryCount) /\ Cardinality(1 .. RetryCount) = RetryCount
  BY <1>1, FS_Interval
<1> QED
  BY <1>3, <1>4, FS_Product DEF Slots

LEMMA SlotsBound ==
  ASSUME NEW p, NEW S \in SUBSET Slots(p)
  PROVE  /\ IsFiniteSet(S) /\ Cardinality(S) \in Nat
         /\ Cardinality(S) <= Cardinality(AskedOf(p)) * RetryCount
BY SlotsCount, FS_Subset, FS_CardinalityType

LEMMA OpenCount ==
  ASSUME NEW p
  PROVE  /\ IsFiniteSet(Open(p)) /\ Cardinality(Open(p)) \in Nat
         /\ IsFiniteSet(Open(p)') /\ Cardinality(Open(p)') \in Nat
         /\ Cardinality(Open(p)') <= Cardinality(AskedOf(p)) * RetryCount
<1>1. Open(p) \in SUBSET Slots(p)
  BY DEF Open
<1>2. Open(p)' \in SUBSET Slots(p)
  BY DEF Open, Slots, AskedOf
<1> QED
  BY <1>1, <1>2, SlotsBound

LEMMA Products ==
  ASSUME NEW a \in Nat, NEW b \in Nat, NEW n \in Nat, a <= b
  PROVE  /\ a * n \in Nat /\ b * n \in Nat /\ a * n <= b * n
         /\ (a + 1) * n = a * n + n
OBVIOUS

LEMMA MostTyped ==
  ASSUME NEW p
  PROVE  /\ Most(p) \in Nat /\ Most(p)' = Most(p)
         /\ TokensPerMinute \in Nat /\ Need \in Nat \ {0} /\ RetryCount \in Nat \ {0}
         /\ Most(p) = TokensPerMinute + (Cardinality(AskedOf(p)) * RetryCount) * Need
<1>1. Cardinality(AskedOf(p)) \in Nat
  BY SlotsCount
<1>2. TokensPerMinute \in Nat /\ Need \in Nat \ {0} /\ RetryCount \in Nat \ {0}
  BY CompletionsAssumption
<1> QED
  BY <1>1, <1>2 DEF Most, AskedOf

(* Nothing is charged, and nothing more can be. *)
LEMMA BudgetKept ==
  ASSUME NEW p \in Providers, InBudget(p), tokens[p] \in Nat, tokens'[p] \in Nat,
         tokens'[p] <= tokens[p], Open(p)' \subseteq Open(p)
  PROVE  InBudget(p)'
<1>1. /\ IsFiniteSet(Open(p)) /\ Cardinality(Open(p)) \in Nat /\ Cardinality(Open(p)') \in Nat
  BY OpenCount
<1>2. Cardinality(Open(p)') <= Cardinality(Open(p))
  BY <1>1, FS_Subset
<1>3. /\ Cardinality(Open(p)') * Need <= Cardinality(Open(p)) * Need
      /\ Cardinality(Open(p)') * Need \in Nat /\ Cardinality(Open(p)) * Need \in Nat
  BY <1>1, <1>2, Products, MostTyped
<1>4. tokens[p] + Need + Cardinality(Open(p)) * Need <= Most(p)
  BY DEF InBudget
<1>5. tokens'[p] + Need + Cardinality(Open(p)') * Need <= Most(p)'
  BY <1>3, <1>4, MostTyped
<1> QED
  BY <1>5 DEF InBudget

(* One attempt is charged: it cannot be charged again. *)
LEMMA BudgetSpent ==
  ASSUME NEW p \in Providers, InBudget(p), tokens[p] \in Nat, tokens'[p] \in Nat,
         tokens'[p] <= tokens[p] + Need, NEW x \in Open(p), Open(p)' \subseteq Open(p) \ {x}
  PROVE  InBudget(p)'
<1>1. /\ IsFiniteSet(Open(p)) /\ Cardinality(Open(p)) \in Nat /\ Cardinality(Open(p)') \in Nat
  BY OpenCount
<1>2. /\ IsFiniteSet(Open(p) \ {x})
      /\ Cardinality(Open(p) \ {x}) = Cardinality(Open(p)) - 1
  BY <1>1, FS_RemoveElement
<1>3. Cardinality(Open(p)') <= Cardinality(Open(p) \ {x})
  BY <1>2, FS_Subset
<1>4. Cardinality(Open(p)') + 1 <= Cardinality(Open(p))
  BY <1>1, <1>2, <1>3
<1>5. /\ (Cardinality(Open(p)') + 1) * Need <= Cardinality(Open(p)) * Need
      /\ (Cardinality(Open(p)') + 1) * Need = Cardinality(Open(p)') * Need + Need
      /\ Cardinality(Open(p)') * Need \in Nat /\ Cardinality(Open(p)) * Need \in Nat
  BY <1>1, <1>4, Products, MostTyped
<1>6. tokens[p] + Need + Cardinality(Open(p)) * Need <= Most(p)
  BY DEF InBudget
<1>7. tokens'[p] + Need + Cardinality(Open(p)') * Need <= Most(p)'
  BY <1>5, <1>6, MostTyped
<1> QED
  BY <1>7 DEF InBudget

-----------------------------------------------------------------------------
(***************************************************************************)
(* The steps.                                                              *)
(***************************************************************************)
LEMMA ProviderTyped ==
  ASSUME NEW v \in Variations, NEW r
  PROVE  /\ Model(v, r) \in Models /\ ProviderOf[Model(v, r)] \in Providers
         /\ v \in AskedOf(ProviderOf[Model(v, r)])
         /\ <<Model(v, r), Approach[v]>> \in Keys
<1>1. /\ ProviderOf \in [Models -> Providers]
      /\ FirstModel[v] \in Models /\ FallbackModel[v] \in Models
  BY CompletionsAssumption
<1>2. Model(v, r) \in {FirstModel[v], FallbackModel[v]}
  BY DEF Model
<1> QED
  BY <1>1, <1>2 DEF AskedOf, Keys

LEMMA ChargedTyped ==
  ASSUME TypeOK, NEW p \in Providers
  PROVE  /\ Charged(p) \in Nat /\ tokens[p] \in Nat /\ Charged(p) <= tokens[p]
         /\ limit[p] \in Nat /\ limit[p] <= TokensPerMinute
BY MostTyped DEF TypeOK, Charged

(* A round is asked for: who is sent was admitted below the limit, and may now be
   charged for every attempt. *)
LEMMA AskStep ==
  ASSUME CompletionsInv, NEW vs, NEW r \in {"first", "fallback"}, Ask(vs, r)
  PROVE  CompletionsInv'
<1> DEFINE missed == Missed(vs, r)
           asked  == {ProviderOf[Model(v, r)] : v \in missed}
<1>1. /\ round' = r
      /\ stage' = [v \in Variations |->
                     IF v \in missed /\ Admitted(ProviderOf[Model(v, r)])
                     THEN "waiting" ELSE "failed"]
      /\ attempt' = [v \in Variations |-> 1]
      /\ tokens' = [p \in Providers |-> IF p \in asked THEN Charged(p) ELSE tokens[p]]
      /\ due' = [p \in Providers |-> due[p] /\ p \notin asked]
      /\ UNCHANGED <<configured, limit, history, cached>>
  BY DEF Ask
<1> HIDE DEF missed
<1>2. TypeOK /\ Attempting /\ \A p \in Providers : InBudget(p)
  BY DEF CompletionsInv
<1>3. TypeOK'
  <2>1. tokens' \in [Providers -> Nat]
    BY <1>1, <1>2, ChargedTyped
  <2>2. attempt' \in [Variations -> 0 .. RetryCount]
    <3>1. 1 \in 0 .. RetryCount
      BY CompletionsAssumption
    <3> QED
      BY <1>1, <3>1
  <2>3. stage' \in [Variations -> {"waiting", "sleeping", "failed"}]
    BY <1>1
  <2>4. due' \in [Providers -> BOOLEAN]
    BY <1>1
  <2> QED
    BY <1>1, <1>2, <2>1, <2>2, <2>3, <2>4 DEF TypeOK
<1>4. Attempting'
  BY <1>1 DEF Attempting
<1>5. IdleIsOver'
  BY <1>1 DEF IdleIsOver
<1>6. ASSUME NEW p \in Providers PROVE InBudget(p)'
  <2>1. /\ tokens'[p] \in Nat /\ tokens[p] \in Nat /\ tokens'[p] <= tokens[p]
        /\ Charged(p) \in Nat /\ limit[p] <= TokensPerMinute /\ limit[p] \in Nat
    BY <1>1, <1>2, ChargedTyped
  <2>2. CASE Open(p)' = {}
    BY <1>2, <2>1, <2>2, BudgetKept
  <2>3. ASSUME NEW x \in Open(p)' PROVE InBudget(p)'
    <3>1. x[1] \in Variations /\ stage'[x[1]] # "failed" /\ ProviderOf[Model(x[1], r)] = p
      BY <1>1, <2>3 DEF Open, Slots, AskedOf, Provider
    <3>2. x[1] \in missed /\ Admitted(p)
      BY <1>1, <3>1
    <3>3. tokens'[p] = Charged(p)
      BY <1>1, <3>1, <3>2
    <3>4. tokens'[p] + Need <= TokensPerMinute
      BY <2>1, <3>2, <3>3, MostTyped DEF Admitted
    <3>5. /\ Cardinality(Open(p)') \in Nat
          /\ Cardinality(Open(p)') <= Cardinality(AskedOf(p)) * RetryCount
          /\ Cardinality(AskedOf(p)) * RetryCount \in Nat
      BY OpenCount, SlotsCount, MostTyped
    <3>6. /\ Cardinality(Open(p)') * Need \in Nat
          /\ (Cardinality(AskedOf(p)) * RetryCount) * Need \in Nat
          /\ Cardinality(Open(p)') * Need <= (Cardinality(AskedOf(p)) * RetryCount) * Need
      BY <3>5, Products, MostTyped
    <3>7. tokens'[p] + Need + Cardinality(Open(p)') * Need <= Most(p)'
      BY <2>1, <3>4, <3>6, MostTyped
    <3> QED
      BY <3>7 DEF InBudget
  <2> QED
    BY <2>2, <2>3
<1> QED
  BY <1>3, <1>4, <1>5, <1>6 DEF CompletionsInv

(* An attempt is over: it leaves the attempts that may be charged. *)
LEMMA AttemptOver ==
  ASSUME TypeOK, Attempting, NEW v \in Variations, stage[v] = "waiting", AttemptFails(v),
         NEW p, p = Provider(v)
  PROVE  /\ stage' \in [Variations -> {"waiting", "sleeping", "failed"}]
         /\ Attempting' /\ (IdleIsOver => IdleIsOver')
         /\ \A q \in Providers : Open(q)' \subseteq Open(q)
         /\ <<v, attempt[v]>> \in Open(p) \ Open(p)'
<1>1. /\ stage' = [stage EXCEPT ![v] = IF attempt[v] = RetryCount THEN "failed" ELSE "sleeping"]
      /\ round' = round /\ attempt' = attempt
  BY DEF AttemptFails
<1>2. /\ attempt[v] \in Nat /\ attempt[v] >= 1 /\ attempt[v] <= RetryCount /\ RetryCount \in Nat
      /\ stage \in [Variations -> {"waiting", "sleeping", "failed"}]
      /\ attempt \in [Variations -> 0 .. RetryCount]
  BY CompletionsAssumption DEF TypeOK, Attempting
<1>3. stage' \in [Variations -> {"waiting", "sleeping", "failed"}]
  BY <1>1, <1>2
<1>4. Attempting'
  <2>1. ASSUME NEW w \in Variations
        PROVE  /\ stage'[w] # "failed" => attempt'[w] >= 1
               /\ stage'[w] = "sleeping" => attempt'[w] < RetryCount
    <3>1. CASE w = v
      BY <1>1, <1>2, <3>1
    <3>2. CASE w # v
      BY <1>1, <1>2, <3>2 DEF Attempting
    <3> QED
      BY <3>1, <3>2
  <2> QED
    BY <2>1 DEF Attempting
<1>5. IdleIsOver => IdleIsOver'
  BY <1>1, <1>2 DEF IdleIsOver, RoundOver
<1>6. ASSUME NEW q \in Providers, NEW x \in Open(q)' PROVE x \in Open(q)
  <2>1. /\ x \in Slots(q) /\ Provider(x[1]) = q /\ x[1] \in Variations /\ x[2] \in Nat
        /\ \/ stage'[x[1]] = "waiting" /\ attempt[x[1]] <= x[2]
           \/ stage'[x[1]] = "sleeping" /\ attempt[x[1]] < x[2]
    BY <1>1, <1>6 DEF Open, Slots, AskedOf, Provider
  <2>2. CASE x[1] = v
    <3>1. attempt[v] < x[2]
      BY <1>1, <1>2, <2>1, <2>2
    <3>2. attempt[v] <= x[2]
      BY <1>2, <2>1, <3>1
    <3> QED
      BY <2>1, <2>2, <3>2 DEF Open
  <2>3. CASE x[1] # v
    BY <1>1, <1>2, <2>1, <2>3 DEF Open
  <2> QED
    BY <2>2, <2>3
<1> DEFINE x == <<v, attempt[v]>>
<1>7. x[1] = v /\ x[2] = attempt[v] /\ x \in Slots(p)
  <2>1. attempt[v] \in 1 .. RetryCount /\ v \in AskedOf(Provider(v))
    <3>1. attempt[v] \in 1 .. RetryCount
      BY <1>2
    <3>2. v \in AskedOf(Provider(v))
      BY ProviderTyped DEF Provider
    <3> QED
      BY <3>1, <3>2
  <2> QED
    BY <2>1 DEF Slots
<1>8. x \in Open(p)
  BY <1>2, <1>7 DEF Open
<1>9. x \notin Open(p)'
  <2>1. ~(stage'[v] = "waiting") /\ ~(attempt'[v] < attempt[v])
    BY <1>1, <1>2
  <2> QED
    BY <1>7, <2>1 DEF Open
<1> QED
  BY <1>3, <1>4, <1>5, <1>6, <1>8, <1>9

LEMMA AnswerStep ==
  ASSUME CompletionsInv, NEW v \in Variations, ProviderAnswers(v)
  PROVE  CompletionsInv' /\ \A q \in Providers : limit'[q] <= limit[q]
<1>p. PICK p \in Providers : p = Provider(v)
  BY ProviderTyped DEF Provider
<1> DEFINE h == Recorded(Recorded(history[p], TRUE), FALSE)
<1>1. /\ stage[v] = "waiting" /\ AttemptFails(v)
      /\ due' = [due EXCEPT ![p] = FALSE]
      /\ history' = [history EXCEPT ![p] = h]
      /\ limit' = [limit EXCEPT ![p] = Adapted(@, h)]
      /\ cached' \in {cached, cached \cup {<<Model(v, round), Approach[v]>>}}
  BY <1>p DEF ProviderAnswers
<1>2. PICK used \in Used : tokens' = [tokens EXCEPT ![p] = Charged(p) + used]
  BY <1>p DEF ProviderAnswers
<1>3. TypeOK /\ Attempting /\ IdleIsOver /\ \A q \in Providers : InBudget(q)
  BY DEF CompletionsInv
<1>4. <<Model(v, round), Approach[v]>> \in Keys
  BY ProviderTyped
<1>5. h \in Seq(BOOLEAN) /\ Len(h) <= HistorySize
  <2>1. history[p] \in Seq(BOOLEAN) /\ Len(history[p]) <= HistorySize
    BY <1>3, <1>4 DEF TypeOK
  <2> QED
    BY <2>1, RecordedTyped
<1> HIDE DEF h
<1>6. /\ history' \in [Providers -> Seq(BOOLEAN)] /\ \A q \in Providers : Len(history'[q]) <= HistorySize
      /\ limit' \in [Providers -> 0 .. TokensPerMinute]
      /\ \A q \in Providers : limit'[q] <= limit[q]
  BY <1>1, <1>3, <1>4, <1>5, AttemptTyped
<1>7. /\ stage' \in [Variations -> {"waiting", "sleeping", "failed"}]
      /\ Attempting' /\ IdleIsOver'
      /\ \A q \in Providers : Open(q)' \subseteq Open(q)
      /\ <<v, attempt[v]>> \in Open(p) \ Open(p)'
  BY <1>p, <1>1, <1>3, AttemptOver
<1>8. /\ tokens' \in [Providers -> Nat] /\ tokens \in [Providers -> Nat]
      /\ \A q \in Providers \ {p} : tokens'[q] = tokens[q]
      /\ tokens'[p] <= tokens[p] + Need
  <2>1. /\ Charged(p) \in Nat /\ tokens[p] \in Nat /\ Charged(p) <= tokens[p]
        /\ used \in Nat /\ used <= Need /\ tokens \in [Providers -> Nat]
    BY <1>3, <1>4, ChargedTyped, MostTyped DEF Used, TypeOK
  <2> QED
    BY <1>2, <1>4, <2>1, MostTyped
<1>9. TypeOK'
  BY <1>1, <1>3, <1>4, <1>6, <1>7, <1>8 DEF TypeOK, AttemptFails
<1>10. ASSUME NEW q \in Providers PROVE InBudget(q)'
  <2>1. tokens[q] \in Nat /\ tokens'[q] \in Nat
    BY <1>8
  <2>2. CASE q = p
    <3>1. Open(p)' \subseteq Open(p) \ {<<v, attempt[v]>>}
      BY <1>4, <1>7
    <3>2. InBudget(p) /\ tokens[p] \in Nat /\ tokens'[p] \in Nat
      BY <1>3, <1>4, <1>8
    <3>3. InBudget(p)'
      BY <1>4, <1>7, <1>8, <3>1, <3>2, BudgetSpent
    <3> QED
      BY <2>2, <3>3
  <2>3. CASE q # p
    BY <1>3, <1>7, <1>8, <2>1, <2>3, BudgetKept
  <2> QED
    BY <2>2, <2>3
<1> QED
  BY <1>6, <1>7, <1>9, <1>10 DEF CompletionsInv

LEMMA FailureStep ==
  ASSUME CompletionsInv, NEW v \in Variations, ProviderFails(v)
  PROVE  CompletionsInv' /\ \A q \in Providers : limit'[q] <= limit[q]
<1>p. PICK p \in Providers : p = Provider(v)
  BY ProviderTyped DEF Provider
<1> DEFINE h == Recorded(history[p], FALSE)
<1>1. /\ stage[v] = "waiting" /\ AttemptFails(v)
      /\ history' = [history EXCEPT ![p] = h]
      /\ limit' = [limit EXCEPT ![p] = Adapted(@, h)]
      /\ UNCHANGED <<tokens, due, cached>>
  BY <1>p DEF ProviderFails
<1>2. TypeOK /\ Attempting /\ IdleIsOver /\ \A q \in Providers : InBudget(q)
  BY DEF CompletionsInv
<1>3. p \in Providers
  OBVIOUS
<1>4. h \in Seq(BOOLEAN) /\ Len(h) <= HistorySize
  <2>1. history[p] \in Seq(BOOLEAN) /\ Len(history[p]) <= HistorySize
    BY <1>2, <1>3 DEF TypeOK
  <2> QED
    BY <2>1, RecordedTyped
<1> HIDE DEF h
<1>5. /\ history' \in [Providers -> Seq(BOOLEAN)] /\ \A q \in Providers : Len(history'[q]) <= HistorySize
      /\ limit' \in [Providers -> 0 .. TokensPerMinute]
      /\ \A q \in Providers : limit'[q] <= limit[q]
  BY <1>1, <1>2, <1>3, <1>4, AttemptTyped
<1>6. /\ stage' \in [Variations -> {"waiting", "sleeping", "failed"}]
      /\ Attempting' /\ IdleIsOver'
      /\ \A q \in Providers : Open(q)' \subseteq Open(q)
  BY <1>p, <1>1, <1>2, AttemptOver
<1>7. TypeOK'
  BY <1>1, <1>2, <1>5, <1>6 DEF TypeOK, AttemptFails
<1>8. ASSUME NEW q \in Providers PROVE InBudget(q)'
  <2>1. tokens[q] \in Nat /\ tokens'[q] = tokens[q] /\ tokens'[q] <= tokens[q]
    BY <1>1, <1>2 DEF TypeOK
  <2> QED
    BY <1>2, <1>6, <2>1, BudgetKept
<1> QED
  BY <1>5, <1>6, <1>7, <1>8 DEF CompletionsInv

(* The next attempt was counted when the last one ended. *)
LEMMA RetryStep ==
  ASSUME CompletionsInv, NEW v \in Variations, Retry(v)
  PROVE  CompletionsInv'
<1>1. /\ stage[v] = "sleeping" /\ stage' = [stage EXCEPT ![v] = "waiting"]
      /\ attempt' = [attempt EXCEPT ![v] = attempt[v] + 1]
      /\ UNCHANGED <<configured, round, tokens, due, limit, history, cached>>
  BY DEF Retry, counters
<1>2. TypeOK /\ Attempting /\ IdleIsOver /\ \A q \in Providers : InBudget(q)
  BY DEF CompletionsInv
<1>3. /\ attempt[v] \in Nat /\ attempt[v] >= 1 /\ attempt[v] < RetryCount /\ RetryCount \in Nat
      /\ stage \in [Variations -> {"waiting", "sleeping", "failed"}]
      /\ attempt \in [Variations -> 0 .. RetryCount]
  BY <1>1, <1>2, CompletionsAssumption DEF TypeOK, Attempting
<1>4. /\ stage' \in [Variations -> {"waiting", "sleeping", "failed"}]
      /\ attempt' \in [Variations -> 0 .. RetryCount]
  BY <1>1, <1>3
<1>5. TypeOK'
  BY <1>1, <1>2, <1>4 DEF TypeOK
<1>6. Attempting'
  <2>1. ASSUME NEW w \in Variations
        PROVE  /\ stage'[w] # "failed" => attempt'[w] >= 1
               /\ stage'[w] = "sleeping" => attempt'[w] < RetryCount
    <3>1. CASE w = v
      BY <1>1, <1>3, <3>1
    <3>2. CASE w # v
      BY <1>1, <1>2, <1>3, <3>2 DEF Attempting
    <3> QED
      BY <3>1, <3>2
  <2> QED
    BY <2>1 DEF Attempting
<1>7. IdleIsOver'
  BY <1>1, <1>2 DEF IdleIsOver, RoundOver
<1>8. ASSUME NEW q \in Providers PROVE InBudget(q)'
  <2>1. ASSUME NEW x \in Open(q)' PROVE x \in Open(q)
    <3>1. /\ x \in Slots(q) /\ Provider(x[1]) = q /\ x[1] \in Variations /\ x[2] \in Nat
          /\ \/ stage'[x[1]] = "waiting" /\ attempt'[x[1]] <= x[2]
             \/ stage'[x[1]] = "sleeping" /\ attempt'[x[1]] < x[2]
      BY <1>1, <2>1 DEF Open, Slots, AskedOf, Provider
    <3>2. CASE x[1] = v
      <4>1. attempt[v] < x[2]
        BY <1>1, <1>3, <3>1, <3>2
      <4> QED
        BY <1>1, <3>1, <3>2, <4>1 DEF Open
    <3>3. CASE x[1] # v
      BY <1>1, <1>3, <3>1, <3>3 DEF Open
    <3> QED
      BY <3>2, <3>3
  <2>2. tokens[q] \in Nat /\ tokens'[q] = tokens[q] /\ tokens'[q] <= tokens[q]
    BY <1>1, <1>2 DEF TypeOK
  <2> QED
    BY <1>2, <2>1, <2>2, BudgetKept
<1> QED
  BY <1>5, <1>6, <1>7, <1>8 DEF CompletionsInv

(* The requests and the tokens are left alone. *)
LEMMA QuietStep ==
  ASSUME CompletionsInv, TypeOK', UNCHANGED <<round, stage, attempt, tokens>>
  PROVE  CompletionsInv'
<1>1. Attempting /\ IdleIsOver /\ \A q \in Providers : InBudget(q)
  BY DEF CompletionsInv
<1>2. Attempting' /\ IdleIsOver'
  BY <1>1 DEF Attempting, IdleIsOver, RoundOver
<1>3. ASSUME NEW q \in Providers PROVE InBudget(q)'
  <2>1. Open(q)' = Open(q)
    BY DEF Open, Slots, AskedOf, Provider
  <2> QED
    BY <1>1, <2>1, MostTyped DEF InBudget
<1> QED
  BY <1>2, <1>3 DEF CompletionsInv

LEMMA EndStep ==
  ASSUME CompletionsInv, EndTask
  PROVE  CompletionsInv'
<1>1. /\ RoundOver /\ round' = "idle"
      /\ UNCHANGED <<configured, stage, attempt, tokens, due, limit, history, cached>>
  BY DEF EndTask, requests, counters
<1>2. TypeOK /\ Attempting /\ \A q \in Providers : InBudget(q)
  BY DEF CompletionsInv
<1>3. TypeOK' /\ Attempting' /\ IdleIsOver'
  BY <1>1, <1>2 DEF TypeOK, Attempting, IdleIsOver, RoundOver
<1>4. ASSUME NEW q \in Providers PROVE InBudget(q)'
  <2>1. Open(q)' = {}
    BY <1>1 DEF RoundOver, Open, Slots, AskedOf
  <2>2. tokens[q] \in Nat /\ tokens'[q] = tokens[q] /\ tokens'[q] <= tokens[q]
    BY <1>1, <1>2 DEF TypeOK
  <2> QED
    BY <1>2, <2>1, <2>2, BudgetKept
<1> QED
  BY <1>3, <1>4 DEF CompletionsInv

LEMMA TimeStep ==
  ASSUME CompletionsInv,
         \/ \E p \in Providers : MinutePasses(p) \/ Expire(p)
         \/ \E k \in cached : Forget(k)
         \/ UNCHANGED vars
  PROVE  CompletionsInv' /\ UNCHANGED <<stage, round, limit>>
<1>1. TypeOK
  BY DEF CompletionsInv
<1>2. UNCHANGED <<configured, round, stage, attempt, tokens, limit>>
  BY DEF MinutePasses, Expire, Forget, vars, requests, counters
<1>3. due' \in [Providers -> BOOLEAN] /\ cached' \subseteq Keys
  BY <1>1 DEF MinutePasses, Expire, Forget, vars, requests, counters, TypeOK
<1>4. history' \in [Providers -> Seq(BOOLEAN)] /\ \A q \in Providers : Len(history'[q]) <= HistorySize
  <2>1. CASE history' = history
    BY <1>1, <2>1 DEF TypeOK
  <2>2. ASSUME NEW p \in Providers, Expire(p)
        PROVE  history' \in [Providers -> Seq(BOOLEAN)] /\ \A q \in Providers : Len(history'[q]) <= HistorySize
    <3>1. /\ history[p] # << >> /\ history' = [history EXCEPT ![p] = Tail(history[p])]
          /\ history[p] \in Seq(BOOLEAN) /\ Len(history[p]) <= HistorySize
          /\ HistorySize \in Nat
      BY <1>1, <2>2, CompletionsAssumption DEF Expire, TypeOK
    <3>2. /\ Tail(history[p]) \in Seq(BOOLEAN) /\ Len(history[p]) \in Nat
          /\ Len(Tail(history[p])) = Len(history[p]) - 1
      BY <3>1, TailTyped
    <3>3. Tail(history[p]) \in Seq(BOOLEAN) /\ Len(Tail(history[p])) <= HistorySize
      BY <3>1, <3>2
    <3> QED
      BY <1>1, <3>1, <3>3 DEF TypeOK
  <2> QED
    BY <2>1, <2>2 DEF MinutePasses, Forget, vars, counters
<1>5. TypeOK'
  BY <1>1, <1>2, <1>3, <1>4 DEF TypeOK
<1> QED
  BY <1>2, <1>5, QuietStep

LEMMA CompletionsInvariant == Spec => []CompletionsInv
<1>1. Init => CompletionsInv
  <2> SUFFICES ASSUME Init PROVE CompletionsInv
    OBVIOUS
  <2>1. TypeOK
    <3>1. /\ 0 \in 0 .. RetryCount /\ TokensPerMinute \in 0 .. TokensPerMinute
          /\ HistorySize \in Nat
      BY CompletionsAssumption
    <3>2. /\ attempt \in [Variations -> 0 .. RetryCount]
          /\ limit \in [Providers -> 0 .. TokensPerMinute]
          /\ tokens \in [Providers -> Nat] /\ due \in [Providers -> BOOLEAN]
          /\ stage \in [Variations -> {"waiting", "sleeping", "failed"}]
      BY <3>1 DEF Init
    <3>3. << >> \in Seq(BOOLEAN) /\ Len(<< >>) = 0
      OBVIOUS
    <3>4. history \in [Providers -> Seq(BOOLEAN)] /\ \A p \in Providers : Len(history[p]) <= HistorySize
      BY <3>1, <3>3 DEF Init
    <3> QED
      BY <3>2, <3>4 DEF Init, TypeOK
  <2>2. Attempting /\ IdleIsOver
    BY DEF Init, Attempting, IdleIsOver, RoundOver
  <2>3. ASSUME NEW p \in Providers PROVE InBudget(p)
    <3>1. tokens[p] = 0 /\ Open(p) = {}
      BY DEF Init, Open, Slots, AskedOf
    <3>2. Cardinality(Open(p)) = 0
      BY <3>1, FS_EmptySet
    <3>3. TokensPerMinute >= Need
      BY CompletionsAssumption
    <3>4. Most(p) >= TokensPerMinute
      <4>1. Cardinality(AskedOf(p)) * RetryCount \in Nat
        BY SlotsCount, MostTyped
      <4>2. (Cardinality(AskedOf(p)) * RetryCount) * Need \in Nat
        BY <4>1, MostTyped, Products
      <4> QED
        BY <4>2, MostTyped
    <3> QED
      BY <3>1, <3>2, <3>3, <3>4, MostTyped DEF InBudget
  <2> QED
    BY <2>1, <2>2, <2>3 DEF CompletionsInv
<1>2. CompletionsInv /\ [Next]_vars => CompletionsInv'
  <2> SUFFICES ASSUME CompletionsInv, [Next]_vars PROVE CompletionsInv'
    OBVIOUS
  <2>1. CASE StartTask \/ Fallback
    BY <2>1, AskStep DEF StartTask, Fallback
  <2>2. CASE EndTask
    BY <2>2, EndStep
  <2>3. ASSUME NEW v \in Variations, ProviderAnswers(v) \/ ProviderFails(v) \/ Retry(v)
        PROVE  CompletionsInv'
    BY <2>3, AnswerStep, FailureStep, RetryStep
  <2>4. CASE \/ \E p \in Providers : MinutePasses(p) \/ Expire(p)
             \/ \E k \in cached : Forget(k)
             \/ UNCHANGED vars
    BY <2>4, TimeStep
  <2> QED
    BY <2>1, <2>2, <2>3, <2>4 DEF Next
<1> QED
  BY <1>1, <1>2, PTL DEF Spec

-----------------------------------------------------------------------------
(***************************************************************************)
(* The properties.                                                         *)
(***************************************************************************)

(* Counters, limits, attempts and history keep their types: no request makes more
   attempts than retry_count, and no limit is above the configured one. *)
THEOREM CompletionsTypeCorrect == Spec => []TypeOK
<1>1. CompletionsInv => TypeOK
  BY DEF CompletionsInv
<1> QED
  BY <1>1, CompletionsInvariant, PTL

(* However many requests pass the check together, are answered, fail and are retried,
   and whenever a minute ends meanwhile, the tokens charged in a minute pass the
   configured limit by no more than every attempt of every request of one round. *)
THEOREM OvershootSafe == Spec => []Overshoot
<1>1. ASSUME CompletionsInv PROVE Overshoot
  <2>1. ASSUME NEW p \in Providers PROVE tokens[p] + Need <= Most(p)
    <3>1. /\ tokens[p] \in Nat /\ Cardinality(Open(p)) \in Nat
          /\ tokens[p] + Need + Cardinality(Open(p)) * Need <= Most(p)
      BY <1>1, <2>1, OpenCount DEF CompletionsInv, TypeOK, InBudget
    <3>2. Cardinality(Open(p)) * Need \in Nat
      BY <3>1, MostTyped, Products
    <3> QED
      BY <3>1, <3>2, MostTyped
  <2> QED
    BY <2>1 DEF Overshoot, Most
<1> QED
  BY <1>1, CompletionsInvariant, PTL

StarvedStep(p) ==
  limit[p] < Need =>
    /\ limit'[p] < Need
    /\ \A v \in Variations :
         stage'[v] = "waiting" /\ Provider(v)' = p => stage[v] # "failed" /\ Provider(v) = p

(* A provider whose limit fell below one request is sent nothing more but retries of
   the round that was under way. *)
THEOREM StarvedSafe == Spec => StarvedStays
<1>1. ASSUME CompletionsInv, [Next]_vars, NEW p \in Providers PROVE StarvedStep(p)
  <2>1. /\ limit[p] \in Nat /\ limit \in [Providers -> 0 .. TokensPerMinute] /\ TypeOK
        /\ stage \in [Variations -> {"waiting", "sleeping", "failed"}]
    BY <1>1, ChargedTyped DEF CompletionsInv, TypeOK
  <2>2. ASSUME NEW vs, NEW r \in {"first", "fallback"}, Ask(vs, r) PROVE StarvedStep(p)
    <3>1. limit' = limit
      BY <2>2 DEF Ask
    <3>2. ASSUME NEW v \in Variations, stage'[v] = "waiting", Provider(v)' = p, limit[p] < Need
          PROVE  FALSE
      <4>1. ProviderOf[Model(v, r)] = p
        BY <2>2, <3>2 DEF Ask, Provider
      <4>2. Admitted(p)
        BY <2>2, <3>2, <4>1 DEF Ask
      <4> QED
        BY <2>1, <3>2, <4>2, ChargedTyped, MostTyped DEF Admitted
    <3> QED
      BY <3>1, <3>2 DEF StarvedStep
  <2>3. ASSUME NEW v \in Variations, ProviderAnswers(v) \/ ProviderFails(v) PROVE StarvedStep(p)
    <3>1. CompletionsInv' /\ limit'[p] <= limit[p]
      BY <1>1, <2>3, AnswerStep, FailureStep
    <3>2. limit'[p] \in Nat
      BY <3>1, MostTyped DEF CompletionsInv, TypeOK
    <3>3. /\ round' = round
          /\ stage' = [stage EXCEPT ![v] = IF attempt[v] = RetryCount THEN "failed" ELSE "sleeping"]
      BY <2>3 DEF ProviderAnswers, ProviderFails, AttemptFails
    <3>4. \A w \in Variations : /\ stage'[w] = "waiting" => stage[w] # "failed"
                                /\ Provider(w)' = Provider(w)
      BY <2>1, <3>3 DEF Provider
    <3> QED
      BY <2>1, <3>1, <3>2, <3>4, MostTyped DEF StarvedStep
  <2>4. ASSUME NEW v \in Variations, Retry(v) PROVE StarvedStep(p)
    <3>1. /\ UNCHANGED <<round, limit>> /\ stage[v] = "sleeping"
          /\ stage' = [stage EXCEPT ![v] = "waiting"]
      BY <2>4 DEF Retry, counters
    <3>2. \A w \in Variations : /\ stage'[w] = "waiting" => stage[w] # "failed"
                                /\ Provider(w)' = Provider(w)
      BY <2>1, <3>1 DEF Provider
    <3> QED
      BY <3>1, <3>2 DEF StarvedStep
  <2>5. CASE EndTask
    BY <2>5 DEF EndTask, RoundOver, requests, counters, StarvedStep
  <2>6. CASE \/ \E q \in Providers : MinutePasses(q) \/ Expire(q)
             \/ \E k \in cached : Forget(k)
             \/ UNCHANGED vars
    <3>1. UNCHANGED <<stage, round, limit>>
      BY <1>1, <2>6, TimeStep
    <3>2. \A w \in Variations : Provider(w)' = Provider(w)
      BY <3>1 DEF Provider
    <3> QED
      BY <3>1, <3>2 DEF StarvedStep
  <2> QED
    BY <1>1, <2>2, <2>3, <2>4, <2>5, <2>6 DEF Next, StartTask, Fallback
<1>2. CompletionsInv /\ [Next]_vars =>
        [\A p \in Providers : limit[p] < Need =>
           /\ limit'[p] < Need
           /\ \A v \in Variations :
                stage'[v] = "waiting" /\ Provider(v)' = p
                  => stage[v] # "failed" /\ Provider(v) = p]_vars
  BY <1>1 DEF StarvedStep
<1> QED
  BY <1>2, CompletionsInvariant, PTL DEF Spec, StarvedStays
=============================================================================
