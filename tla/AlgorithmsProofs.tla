-------------------------- MODULE AlgorithmsProofs --------------------------
(***************************************************************************)
(* Theorems about the pure functions: what TLC computes for the inputs of  *)
(* a small instance holds for inputs of any size.                          *)
(*                                                                         *)
(* A specification that only computes needs no inductive invariant beyond  *)
(* Given: the work is in the theorem about the function itself, and the    *)
(* property follows from it in the one step that computes. The last part   *)
(* is about walks through a table that changes.                            *)
(***************************************************************************)
EXTENDS Algorithms, ListLemmas

(* The input stays what it was. *)
LEMMA GivenStays ==
    Spec => []Given
  <1>1. Init => Given
    BY DEF Init
  <1>2. Given /\ [Next]_vars => Given'
    <2> SUFFICES ASSUME Given, [Next]_vars PROVE input' = input
      BY Zenon DEF Given
    <2> QED BY DEF Next, vars, ComputeSplit, ComputeRank, ComputeAnswer, ComputeGate,
                   ComputeWalk, ComputeToken, Compute
  <1> QED BY <1>1, <1>2, PTL DEF Spec


-----------------------------------------------------------------------------
(* Seconds and half seconds. *)
LEMMA WholeSeconds ==
    ASSUME NEW moment \in Int
    PROVE  Whole(moment) \in Int /\ Whole(moment) <= moment /\ moment <= Whole(moment) + 1
  BY DEF Whole, Second

LEMMA WholeLater ==
    ASSUME NEW moment \in Int, NEW ttl \in Int
    PROVE  Whole(moment + ttl * Second) = Whole(moment) + 2 * ttl
  BY DEF Whole, Second

(* tid is what a token of the tenant is worth at an age, by the clock of   *)
(* who verifies it with the other secret, which may be the same.           *)
Lives(tid, tenant, secret, other, ttl, age) ==
    /\ tid \in {"401", tenant}
    /\ tid # "401" => /\ secret = other /\ tenant # "malformed"
                    /\ age \in -1..2 * ttl - 1
    /\ secret = other /\ tenant # "malformed" /\ age \in 0..2 * (ttl - 1) => tid = tenant

(* jwt.py: whatever the clocks of the two replicas, a token counts for its *)
(* own tenant only, under the secret it was signed with only, until at     *)
(* most its ttl has passed and, unless the verifying clock is behind, for  *)
(* all of it but a second.                                                 *)
THEOREM TokenLifetime ==
    ASSUME NEW tenant, NEW secret, NEW other,
           NEW ttl \in Nat, NEW clock \in Int, NEW now \in Int
    PROVE  Lives(Verify(Issue(tenant, secret, ttl, clock), other, now),
                 tenant, secret, other, ttl, now - clock)
  <1> DEFINE token == Issue(tenant, secret, ttl, clock)
  <1>1. /\ token.tid = tenant /\ token.secret = secret
        /\ token.iat = Whole(clock) /\ token.exp = Whole(clock) + 2 * ttl
    BY WholeLater DEF Issue
  <1>2. Whole(clock) \in Int /\ Whole(clock) <= clock /\ clock <= Whole(clock) + 1
    BY WholeSeconds
  <1> HIDE DEF token
  <1>3. Valid(token, other, now) =>
            secret = other /\ now - clock \in -1..2 * ttl - 1
    BY <1>1, <1>2 DEF Valid
  <1>4. secret = other /\ now - clock \in 0..2 * (ttl - 1) => Valid(token, other, now)
    BY <1>1, <1>2 DEF Valid
  <1>5. Verify(token, other, now) =
            IF Valid(token, other, now) /\ tenant # "malformed" THEN tenant ELSE "401"
    BY <1>1 DEF Verify
  <1> QED BY <1>3, <1>4, <1>5 DEF token, Lives

LEMMA IssuedIsToken ==
    ASSUME NEW ttl \in Int, NEW clock \in Int
    PROVE  /\ Issue("mine", "secret", ttl, clock) # NoToken
           /\ Issue("mine", "guess", ttl, clock) # NoToken
           /\ Issue("theirs", "secret", ttl, clock) # NoToken
           /\ Issue("malformed", "secret", ttl, clock) # NoToken
  <1> DEFINE Token == [tid : {"mine", "theirs", "malformed"}, secret : {"secret", "guess"},
                       iat : Int, exp : Int]
  <1>1. Whole(clock) \in Int /\ Whole(clock + ttl * Second) \in Int
    BY WholeSeconds, WholeLater
  <1>2. /\ Issue("mine", "secret", ttl, clock) \in Token
        /\ Issue("mine", "guess", ttl, clock) \in Token
        /\ Issue("theirs", "secret", ttl, clock) \in Token
        /\ Issue("malformed", "secret", ttl, clock) \in Token
    BY <1>1 DEF Issue
  <1> QED BY <1>2, AlgorithmsAssumption

(* What is asked for tells the inputs apart. *)
LEMMA GivenKinds ==
    ASSUME Given
    PROVE  /\ input.of = "split"  => input \in {i \in SplitInputs : i.overlap < i.size}
           /\ input.of = "rank"   => input \in RankInputs
           /\ input.of = "answer" => input \in AnswerInputs
           /\ input.of = "gate"   => input \in GateInputs
           /\ input.of = "walk"   => input \in WalkInputs
           /\ input.of = "token"  => input \in TokenInputs
  <1>1. input \in SplitInputs => input.of = "split"
    BY DEF SplitInputs
  <1>2. input \in RankInputs => input.of = "rank"
    <2>1. input \in PlainRankInputs => input.of = "rank"
      BY DEF PlainRankInputs
    <2>2. input \in WordyRankInputs => input.of = "rank"
      <3> DEFINE of(arms) == [of : {"rank"}, arms : {arms}, k : {60}, pool : {2}, words : 1..2,
                              covered : [ToSet(arms.vector) \cup ToSet(arms.keyword) -> 0..2],
                              phrase : [ToSet(arms.vector) \cup ToSet(arms.keyword) -> 0..1],
                              top_k : 1..2]
      <3>1. WordyRankInputs = UNION {of(arms) : arms \in Arms(2)}
        BY DEF WordyRankInputs
      <3>2. \A arms : input \in of(arms) => input.of = "rank"
        OBVIOUS
      <3> HIDE DEF of
      <3> QED BY <3>1, <3>2
    <2> QED BY <2>1, <2>2 DEF RankInputs
  <1>3. input \in AnswerInputs => input.of = "answer"
    <2> DEFINE Questions == [of : {"answer"}, corpus : Corpora, sims : Orders,
                             top_k : {1, MaxCorpus},
                             expected : {{}, {"wanted"}, {"wanted", "override"}}]
    <2>1. input \in AnswerInputs => input \in Questions
      BY DEF AnswerInputs
    <2> QED BY <2>1
  <1>4. input \in GateInputs => input.of = "gate"
    <2> DEFINE Reports    == BoundedSeq([recall : 0..2, faithfulness : 0..2], 2)
               Thresholds == {T \in SUBSET [metric : {"recall", "faithfulness", "typo"},
                                            minimum : 0..4] : Cardinality(T) <= 2}
    <2>1. GateInputs = [of : {"gate"}, report : Reports, thresholds : Thresholds]
      BY DEF GateInputs
    <2> HIDE DEF Reports, Thresholds
    <2> QED BY <2>1
  <1>5. input \in WalkInputs => input.of = "walk"
    <2>1. \A l, least, number, tied, permuted :
             input \in Walks(l, least, number, tied, permuted) => input.of = "walk"
      <3> TAKE l, least, number, tied, permuted
      <3> DEFINE Lists  == BoundedSeq({c \in Changes : Lands(Order(l.listing, l.sort), c)}, number)
                 Tables == {[r \in 1..n |-> r] : n \in least..MaxRows}
      <3>1. Walks(l, least, number, tied, permuted) =
               [of : {"walk"}, listing : {l.listing}, sort : {l.sort}, limit : 1..2,
                rows : Tables, changes : Lists, tied : tied, permuted : permuted]
        BY DEF Walks
      <3> HIDE DEF Lists, Tables
      <3> QED BY <3>1
    <2>2. input \in WalkInputs => \E l \in Listings :
             \/ input \in Walks(l, 0, 2, {<<>>}, {{}})
             \/ input \in Walks(l, 2, 1, Ties, SUBSET {1, 2})
      BY Zenon DEF WalkInputs
    <2> QED BY <2>1, <2>2, Zenon
  <1>6. input \in TokenInputs => input.of = "token"
    BY DEF TokenInputs
  <1> QED BY <1>1, <1>2, <1>3, <1>4, <1>5, <1>6 DEF Given

(* The answer of the token endpoint for this tenant, and the tenant of a   *)
(* request that is sent when it has the given age.                         *)
LEMMA TokenIsComputed ==
    ASSUME input \in TokenInputs, ComputeToken
    PROVE  TokenLivesItsTime'
  <1> DEFINE answer == IssueToken(input.enabled, "mine", "secret", input.ttl, input.issued)
             signed(tid, secret) == Issue(tid, secret, input.ttl, input.issued)
             held == [none |-> NoToken, mine |-> answer.token,
                      theirs |-> signed("theirs", "secret"), forged |-> signed("mine", "guess"),
                      malformed |-> signed("malformed", "secret")]
             current == IF input.rotated THEN "rotated" ELSE "secret"
             now     == input.issued + input.age
             tenant  == Identity(held[input.bearer], held[input.own], current, now)
             sent    == IF input.bearer = "none" \/ (input.bearer = "mine" /\ ~input.enabled)
                        THEN input.own ELSE input.bearer
             good    == /\ ~input.rotated
                        /\ sent = "theirs" \/ (sent = "mine" /\ input.enabled)
  <1>1. /\ input.ttl \in Nat /\ input.issued \in Int /\ input.age \in Int
        /\ input.bearer \in Sent /\ input.own \in Sent
        /\ input.enabled \in BOOLEAN /\ input.rotated \in BOOLEAN
    BY AlgorithmsAssumption DEF TokenInputs
  <1>2. input' = input /\ output' = [expires_in |-> answer.expires_in, tenant |-> tenant]
    BY DEF ComputeToken, Compute
  <1>3. /\ Issue("mine", "secret", input.ttl, input.issued) # NoToken
        /\ Issue("mine", "guess", input.ttl, input.issued) # NoToken
        /\ Issue("theirs", "secret", input.ttl, input.issued) # NoToken
        /\ Issue("malformed", "secret", input.ttl, input.issued) # NoToken
    BY <1>1, IssuedIsToken
  <1>4. /\ answer.expires_in = IF input.enabled THEN input.ttl ELSE 0
        /\ answer.token = IF input.enabled THEN Issue("mine", "secret", input.ttl, input.issued)
                          ELSE NoToken
    BY DEF IssueToken
  <1> HIDE DEF answer
  <1>5. /\ held["none"] = NoToken
        /\ held["mine"] = answer.token
        /\ held["forged"] = Issue("mine", "guess", input.ttl, input.issued)
        /\ held["theirs"] = Issue("theirs", "secret", input.ttl, input.issued)
        /\ held["malformed"] = Issue("malformed", "secret", input.ttl, input.issued)
    OBVIOUS
  <1> HIDE DEF held
  <1>6. tenant = IF held[sent] = NoToken THEN "401" ELSE Verify(held[sent], current, now)
    <2>1. held[input.bearer] = NoToken <=>
             input.bearer = "none" \/ (input.bearer = "mine" /\ ~input.enabled)
      BY <1>1, <1>3, <1>4, <1>5 DEF Sent
    <2> QED BY <2>1 DEF Identity
  <1>7. /\ sent \in Sent /\ "guess" # current
        /\ "secret" = current <=> ~input.rotated
        /\ now \in Int /\ now - input.issued = input.age
        /\ held[sent] = NoToken => tenant = "401"
    BY <1>1, <1>6
  <1> HIDE DEF held, tenant, current, now, sent, good
  <1>8. ASSUME NEW secret, NEW tid, held[sent] # NoToken,
               held[sent] = Issue(tid, secret, input.ttl, input.issued)
        PROVE  Lives(tenant, tid, secret, current, input.ttl, input.age)
    <2>1. tenant = Verify(Issue(tid, secret, input.ttl, input.issued), current, now)
      BY <1>6, <1>8
    <2>2. Lives(Verify(Issue(tid, secret, input.ttl, input.issued), current, now),
                tid, secret, current, input.ttl, now - input.issued)
      BY <1>1, <1>7, TokenLifetime
    <2> QED BY <1>7, <2>1, <2>2
  <1>9. /\ tenant \in {"401", sent}
        /\ tenant # "401" => good /\ input.age \in -1..2 * input.ttl - 1
        /\ good /\ input.age \in 0..2 * (input.ttl - 1) => tenant = sent
    <2>1. CASE sent = "none" \/ (sent = "mine" /\ ~input.enabled)
      <3>1. held[sent] = NoToken
        BY <1>4, <1>5, <2>1
      <3> QED BY <1>7, <2>1, <3>1 DEF good
    <2>2. CASE sent = "mine" /\ input.enabled
      <3>1. held[sent] = Issue("mine", "secret", input.ttl, input.issued)
        BY <1>4, <1>5, <2>2
      <3>2. held[sent] # NoToken
        BY <1>3, <3>1
      <3>3. Lives(tenant, "mine", "secret", current, input.ttl, input.age)
        BY <1>8, <3>1, <3>2
      <3> QED BY <1>7, <2>2, <3>3 DEF good, Lives
    <2>3. CASE sent = "theirs"
      <3>1. held[sent] = Issue("theirs", "secret", input.ttl, input.issued)
        BY <1>5, <2>3
      <3>2. held[sent] # NoToken
        BY <1>3, <3>1
      <3>3. Lives(tenant, "theirs", "secret", current, input.ttl, input.age)
        BY <1>8, <3>1, <3>2
      <3> QED BY <1>7, <2>3, <3>3 DEF good, Lives
    <2>4. CASE sent = "forged"
      <3>1. held[sent] = Issue("mine", "guess", input.ttl, input.issued)
        BY <1>5, <2>4
      <3>2. held[sent] # NoToken
        BY <1>3, <3>1
      <3>3. Lives(tenant, "mine", "guess", current, input.ttl, input.age)
        BY <1>8, <3>1, <3>2
      <3> QED BY <1>7, <2>4, <3>3 DEF good, Lives
    <2>5. CASE sent = "malformed"
      <3>1. held[sent] = Issue("malformed", "secret", input.ttl, input.issued)
        BY <1>5, <2>5
      <3>2. held[sent] # NoToken
        BY <1>3, <3>1
      <3>3. Lives(tenant, "malformed", "secret", current, input.ttl, input.age)
        BY <1>8, <3>1, <3>2
      <3> QED BY <1>7, <2>5, <3>3 DEF good, Lives
    <2> QED BY <1>7, <2>1, <2>2, <2>3, <2>4, <2>5 DEF Sent
  <1>10. input.enabled => answer.expires_in = input.ttl
    BY <1>4
  <1>11. input' = input /\ output'.tenant = tenant /\ output'.expires_in = answer.expires_in
    BY <1>2
  <1> QED BY <1>9, <1>10, <1>11 DEF TokenLivesItsTime, sent, good


(* A step computes what was asked for. *)
LEMMA StepComputes ==
    ASSUME Next
    PROVE  /\ input' = input
           /\ input.of = "split"  => ComputeSplit
           /\ input.of = "rank"   => ComputeRank
           /\ input.of = "answer" => ComputeAnswer
           /\ input.of = "gate"   => ComputeGate
           /\ input.of = "walk"   => ComputeWalk
           /\ input.of = "token"  => ComputeToken
  <1>1. ComputeSplit => input' = input /\ input.of = "split"
    BY DEF ComputeSplit, Compute
  <1>2. ComputeRank => input' = input /\ input.of = "rank"
    BY DEF ComputeRank, Compute
  <1>3. ComputeAnswer => input' = input /\ input.of = "answer"
    BY DEF ComputeAnswer, Compute
  <1>4. ComputeGate => input' = input /\ input.of = "gate"
    BY DEF ComputeGate, Compute
  <1>5. ComputeWalk => input' = input /\ input.of = "walk"
    BY DEF ComputeWalk, Compute
  <1>6. ComputeToken => input' = input /\ input.of = "token"
    BY DEF ComputeToken, Compute
  <1> QED BY <1>1, <1>2, <1>3, <1>4, <1>5, <1>6 DEF Next

(* The token of a request, whatever ttl and clocks: see TokenLivesItsTime. *)
THEOREM TokensLiveTheirTime ==
    Spec => []TokenLivesItsTime
  <1>1. Init => TokenLivesItsTime
    BY DEF Init, TokenLivesItsTime, Computed
  <1>2. Given /\ TokenLivesItsTime /\ [Next]_vars => TokenLivesItsTime'
    <2>1. CASE UNCHANGED vars
      BY <2>1 DEF vars, TokenLivesItsTime, Computed
    <2>2. ASSUME Given, Next, input.of = "token" PROVE TokenLivesItsTime'
      BY <2>2, GivenKinds, StepComputes, TokenIsComputed
    <2>3. ASSUME Next, input.of # "token" PROVE TokenLivesItsTime'
      <3>1. ~Computed("token")'
        BY <2>3, StepComputes DEF Computed
      <3> QED BY <3>1 DEF TokenLivesItsTime
    <2> QED BY <2>1, <2>2, <2>3
  <1> QED BY <1>1, <1>2, GivenStays, PTL DEF Spec


-----------------------------------------------------------------------------
(* EvalReport._mean: what a metric adds up to over a report, case by case. *)
LEMMA ScoresAddUp ==
    ASSUME NEW metric, NEW n \in Nat, NEW report, DOMAIN report = 1..n,
           \A i \in 1..n : report[i][metric] \in Int
    PROVE  \E t \in [0..n -> Int] :
              /\ t[0] = 0 /\ \A i \in 1..n : t[i] = t[i - 1] + report[i][metric]
              /\ t[n] = Total(report, metric)
  <1> DEFINE F    == [p \in Int \X (1..n) |-> p[1] + report[p[2]][metric]]
             C(h) == h = [s \in SUBSET (1..n) |->
                             IF s = {} THEN 0 ELSE h[s \ {Max(s)}] + report[Max(s)][metric]]
             it   == CHOOSE h : C(h)
             V    == Int
  <1>1. 0 \in V /\ F \in [V \X (1..n) -> V]
    OBVIOUS
  <1>2. \A v \in Int, i \in 1..n : F[<<v, i>>] = v + report[i][metric]
    OBVIOUS
  <1> HIDE DEF F
  <1>3. C(it)
    <2>1. PICK g \in [SUBSET (1..n) -> V] : IsFold(g, F, 0, n)
      <3> HIDE DEF V
      <3> QED BY <1>1, FoldExists
    <2>2. ASSUME NEW s \in SUBSET (1..n)
          PROVE  g[s] = IF s = {} THEN 0 ELSE g[s \ {Max(s)}] + report[Max(s)][metric]
      <3>1. g[s] = IF s = {} THEN 0 ELSE F[<<g[s \ {Max(s)}], Max(s)>>]
        BY <2>1 DEF IsFold
      <3>2. s # {} => Max(s) \in 1..n /\ g[s \ {Max(s)}] \in Int
        BY MaxOfSome
      <3> QED BY <1>2, <3>1, <3>2
    <2>3. C(g)
      BY <2>1, <2>2 DEF IsFold
    <2> HIDE DEF C
    <2> QED BY <2>3
  <1>4. Total(report, metric) = it[1..n]
    BY DEF Total, FoldLeft, MapThenFoldSet
  <1> HIDE DEF it
  <1>5. Advances(it, F, 0, n, V)
    <2>1. it[{}] = 0
      BY <1>3
    <2>2. ASSUME NEW i \in 1..n, it[1..(i - 1)] \in V
          PROVE  it[1..i] = F[<<it[1..(i - 1)], i>>]
      <3>1. 1..i \in SUBSET (1..n) /\ 1..i # {} /\ Max(1..i) = i /\ (1..i) \ {i} = 1..(i - 1)
        BY MaxOfFirst
      <3>2. it[1..i] = it[1..(i - 1)] + report[i][metric]
        BY <1>3, <3>1
      <3> QED BY <1>2, <2>2, <3>2
    <2> QED BY <1>1, <2>1, <2>2 DEF Advances
  <1>6. PICK t \in [0..n -> V] : Passes(t, F, 0, n) /\ t[n] = it[1..n]
    <2> HIDE DEF V
    <2> QED BY <1>5, FoldPasses
  <1>7. t[0] = 0 /\ \A i \in 1..n : t[i] = F[<<t[i - 1], i>>]
    BY <1>6 DEF Passes
  <1>8. ASSUME NEW i \in 1..n PROVE t[i] = t[i - 1] + report[i][metric]
    <2>1. i - 1 \in 0..n
      OBVIOUS
    <2> QED BY <1>2, <1>6, <1>7, <2>1
  <1> QED BY <1>4, <1>6, <1>7, <1>8


(* What rounding may take from a mean, or add to it. *)
Slack(report) == IF report = <<>> THEN 0 ELSE Rounding * (Len(report) - 1)

(* dataset.py: a mean, rounded as it is, is at least what every case has   *)
(* and more than rounding makes up for, and below what no case gets so     *)
(* near to. Without a case it is zero.                                     *)
LEMMA MeanIsBetween ==
    ASSUME NEW S, NEW report \in Seq(S), NEW metric, NEW minimum \in Int,
           \A i \in DOMAIN report : report[i][metric] \in Int,
           NEW mean \in Means(report, metric)
    PROVE  /\ mean \in Int /\ Slack(report) \in Nat
           /\ report = <<>> => mean = 0
           /\ report # <<>>
                /\ (\A i \in DOMAIN report : report[i][metric] >= minimum + Slack(report))
                => mean >= minimum
           /\ report # <<>>
                /\ (\A i \in DOMAIN report : report[i][metric] < minimum - Slack(report))
                => mean < minimum
  <1> DEFINE n   == Len(report)
             x   == [i \in 1..n |-> report[i][metric]]
             sum == Total(report, metric)
             off == Slack(report)
             mid == sum \div n
  <1>1. n \in Nat /\ DOMAIN report = 1..n /\ (report = <<>> <=> n = 0)
    OBVIOUS
  <1>2. x \in [1..n -> Int] /\ \A i \in 1..n : x[i] = report[i][metric]
    BY <1>1
  <1>3. off \in Nat
    <2>1. CASE report = <<>>
      BY <2>1 DEF Slack
    <2>2. CASE report # <<>>
      <3>1. n - 1 \in Nat /\ off = Rounding * (n - 1)
        BY <1>1, <2>2 DEF Slack
      <3> HIDE DEF n, off
      <3> QED BY <3>1, RoundingAssumption
    <2> QED BY <2>1, <2>2
  <1>4. report = <<>> => mean = 0
    BY DEF Means
  <1>5. PICK t \in [0..n -> Int] :
            t[0] = 0 /\ (\A i \in 1..n : t[i] = t[i - 1] + report[i][metric]) /\ t[n] = sum
    BY <1>1, ScoresAddUp
  <1>6. report # <<>> => mean \in Int /\ mean \in (mid - off)..(mid + off)
    BY DEF Means, Slack
  <1> HIDE DEF n, x, sum, off
  <1>7. \A i \in 1..n : t[i] = t[i - 1] + x[i]
    BY <1>2, <1>5
  <1>8. ASSUME NEW least \in Int, \A i \in 1..n : least <= x[i] PROVE least * n <= sum
    BY <1>1, <1>2, <1>5, <1>7, <1>8, SumBounds
  <1>9. ASSUME NEW most \in Int, \A i \in 1..n : x[i] <= most PROVE sum <= most * n
    BY <1>1, <1>2, <1>5, <1>7, <1>9, SumBounds
  <1>10. sum \in Int
    BY <1>1, <1>5
  <1>11. report # <<>> => n > 0 /\ mid \in Int /\ n * mid <= sum /\ sum < n * mid + n
    BY <1>1, <1>10
  <1> HIDE DEF mid
  <1>12. ASSUME NEW a \in Int, NEW c \in Int, a <= c PROVE a * n <= c * n /\ c * n \in Int
    BY <1>1, <1>12, TimesLeq
  <1>13. ASSUME report # <<>>, \A i \in DOMAIN report : report[i][metric] >= minimum + off
         PROVE  mean >= minimum
    <2> DEFINE least == minimum + off
    <2>1. least \in Int /\ \A i \in 1..n : least <= x[i]
      <3>1. ASSUME NEW i \in 1..n PROVE least <= x[i]
        <4>1. x[i] \in Int /\ x[i] >= least
          BY <1>1, <1>2, <1>13
        <4> QED BY <1>3, <4>1
      <3> QED BY <1>3, <3>1
    <2>2. mean >= least - off <=> mean >= minimum
      BY <1>3, <1>6, <1>13
    <2> HIDE DEF least
    <2>3. least * n <= sum /\ least * n \in Int
      BY <1>1, <1>8, <2>1
    <2>4. mid >= least
      <3> SUFFICES ASSUME mid + 1 <= least PROVE FALSE
        BY <1>11, <1>13, <2>1
      <3> DEFINE next == mid + 1
      <3>1. next \in Int /\ next <= least /\ next * n = n * mid + n
        <4>1. mid \in Int /\ n \in Int
          BY <1>1, <1>11, <1>13
        <4>2. next * n = n * mid + n
          BY <4>1, TimesNext
        <4> QED BY <4>1, <4>2
      <3> HIDE DEF next
      <3>2. next * n <= least * n
        BY <1>12, <2>1, <3>1
      <3>3. n * mid \in Int
        BY <1>1, <1>11, <1>13
      <3> QED BY <1>1, <1>10, <1>11, <1>13, <2>3, <3>1, <3>2, <3>3
    <2> QED BY <1>3, <1>6, <1>11, <1>13, <2>1, <2>2, <2>4
  <1>14. ASSUME report # <<>>, \A i \in DOMAIN report : report[i][metric] < minimum - off
         PROVE  mean < minimum
    <2> DEFINE most == minimum - off - 1
    <2>1. most \in Int /\ \A i \in 1..n : x[i] <= most
      <3>1. ASSUME NEW i \in 1..n PROVE x[i] <= most
        <4>1. x[i] \in Int /\ x[i] < minimum - off
          BY <1>1, <1>2, <1>14
        <4> QED BY <1>3, <4>1
      <3> QED BY <1>3, <3>1
    <2>2. mean <= most + off <=> mean < minimum
      BY <1>3, <1>6, <1>14
    <2> HIDE DEF most
    <2>3. sum <= most * n /\ most * n \in Int
      BY <1>1, <1>9, <2>1
    <2>4. mid <= most
      <3> SUFFICES ASSUME most + 1 <= mid PROVE FALSE
        BY <1>11, <1>14, <2>1
      <3> DEFINE next == most + 1
      <3>1. next \in Int /\ next <= mid /\ next * n = most * n + n /\ mid * n = n * mid
        <4>1. next * n = n * most + n /\ most * n = n * most
          BY <1>1, <2>1, TimesNext
        <4>2. mid * n = n * mid
          BY <1>1, <1>11, <1>14, TimesNext
        <4> QED BY <2>1, <4>1, <4>2
      <3> HIDE DEF next
      <3>2. next * n <= mid * n
        BY <1>11, <1>12, <1>14, <3>1
      <3>3. n * mid \in Int
        BY <1>1, <1>11, <1>14
      <3> QED BY <1>1, <1>10, <1>11, <1>14, <2>3, <3>1, <3>2, <3>3
    <2> QED BY <1>3, <1>6, <1>11, <1>14, <2>1, <2>2, <2>4
  <1>15. mean \in Int
    BY <1>4, <1>6
  <1> QED BY <1>3, <1>4, <1>13, <1>14, <1>15 DEF off


(* What GateAgreesWithCases asks of the failures and the exit code. *)
Agrees(report, thresholds, failures, exit) ==
    LET cases    == DOMAIN report
        known(t) == t.metric \in {"recall", "faithfulness"}
        met      == {t \in thresholds :
                       known(t) /\ cases # {} /\
                       \A i \in cases : report[i][t.metric] >= t.minimum + Slack(report)}
        missed   == {t \in thresholds :
                       known(t) => t.minimum > 0 /\
                                   \A i \in cases : report[i][t.metric] < t.minimum - Slack(report)}
    IN  /\ missed \subseteq failures /\ met \cap failures = {}
        /\ missed # {} => exit = 1
        /\ met = thresholds => exit = 0

(* gate.py: for any report and thresholds, whatever the scores and however *)
(* their means are rounded: a report in which each case reaches every      *)
(* threshold by more than that rounding passes, one in which no case       *)
(* comes so near to some threshold fails, and so does a threshold for a    *)
(* metric that does not exist.                                             *)
THEOREM GateIsFair ==
    ASSUME NEW S, NEW report \in Seq(S), NEW thresholds,
           \A t \in thresholds : t.minimum \in Int,
           \A i \in DOMAIN report :
               report[i]["recall"] \in Int /\ report[i]["faithfulness"] \in Int,
           NEW means \in Aggregates(report)
    PROVE  LET failures == GateFailures(means, thresholds)
           IN  Agrees(report, thresholds, failures, ExitCode(failures))
  <1> DEFINE cases    == DOMAIN report
             off      == Slack(report)
             known(t) == t.metric \in {"recall", "faithfulness"}
             met      == {t \in thresholds :
                            known(t) /\ cases # {} /\
                            \A i \in cases : report[i][t.metric] >= t.minimum + off}
             missed   == {t \in thresholds :
                            known(t) => t.minimum > 0 /\
                                        \A i \in cases : report[i][t.metric] < t.minimum - off}
             failures == GateFailures(means, thresholds)
  <1>1. cases = {} <=> report = <<>>
    OBVIOUS
  <1>2. /\ DOMAIN means = {"recall", "faithfulness"}
        /\ \A m \in {"recall", "faithfulness"} : means[m] \in Means(report, m)
    BY DEF Aggregates
  <1>3. ASSUME NEW t \in thresholds
        PROVE  t \in failures <=> ~known(t) \/ means[t.metric] < t.minimum
    BY <1>2 DEF GateFailures
  <1>4. ASSUME NEW t \in thresholds, known(t)
        PROVE  /\ means[t.metric] \in Int
               /\ report = <<>> => means[t.metric] = 0
               /\ report # <<>> /\ (\A i \in cases : report[i][t.metric] >= t.minimum + off)
                    => means[t.metric] >= t.minimum
               /\ report # <<>> /\ (\A i \in cases : report[i][t.metric] < t.minimum - off)
                    => means[t.metric] < t.minimum
    <2>1. means[t.metric] \in Means(report, t.metric)
      BY <1>2, <1>4
    <2>2. \A i \in DOMAIN report : report[i][t.metric] \in Int
      BY <1>4
    <2>3. t.minimum \in Int
      OBVIOUS
    <2> QED BY <2>1, <2>2, <2>3, MeanIsBetween
  <1>5. ASSUME NEW t \in missed PROVE t \in failures
    <2>1. CASE known(t)
      <3>1. t.minimum \in Int /\ t.minimum > 0
            /\ \A i \in cases : report[i][t.metric] < t.minimum - off
        BY <1>5, <2>1
      <3>2. means[t.metric] < t.minimum
        BY <1>4, <2>1, <3>1
      <3> QED BY <1>3, <3>2
    <2> QED BY <1>3, <2>1
  <1>6. ASSUME NEW t \in met PROVE t \notin failures
    <2>1. known(t) /\ report # <<>> /\ \A i \in cases : report[i][t.metric] >= t.minimum + off
      BY <1>1, <1>6
    <2>2. means[t.metric] \in Int /\ means[t.metric] >= t.minimum /\ t.minimum \in Int
      BY <1>4, <2>1
    <2> QED BY <1>3, <2>1, <2>2
  <1>7. ExitCode(failures) = IF failures = {} THEN 0 ELSE 1
    BY DEF ExitCode
  <1>8. failures \subseteq thresholds
    BY DEF GateFailures
  <1> HIDE DEF failures, missed, met
  <1>9. /\ missed \subseteq failures /\ met \cap failures = {}
        /\ missed # {} => ExitCode(failures) = 1
        /\ met = thresholds => ExitCode(failures) = 0
    BY <1>5, <1>6, <1>7, <1>8 DEF missed, met
  <1> QED BY <1>9 DEF Agrees, failures, missed, met

LEMMA GateIsComputed ==
    ASSUME input \in GateInputs, ComputeGate
    PROVE  GateAgreesWithCases'
  <1> DEFINE Scores  == [recall : 0..2, faithfulness : 0..2]
             Minima  == [metric : {"recall", "faithfulness", "typo"}, minimum : 0..4]
             Reports == BoundedSeq(Scores, 2)
  <1>1. input.report \in Reports /\ input.thresholds \subseteq Minima
    BY DEF GateInputs
  <1>2. input.report \in Seq(Scores)
    <2> HIDE DEF Scores
    <2>1. PICK m \in 0..2 : input.report \in [1..m -> Scores]
      BY <1>1 DEF BoundedSeq, SeqOf
    <2> QED BY <2>1
  <1>3. \A t \in input.thresholds : t.minimum \in Int
    BY <1>1
  <1>4. ASSUME NEW i \in DOMAIN input.report
        PROVE  input.report[i]["recall"] \in Int /\ input.report[i]["faithfulness"] \in Int
    <2>1. input.report[i] \in Scores
      <3>1. i \in DOMAIN input.report
        BY <1>4
      <3> HIDE DEF Scores
      <3> QED BY <1>2, <3>1
    <2> QED BY <2>1
  <1>5. PICK means \in Aggregates(input.report) :
            Compute("gate", [failures |-> GateFailures(means, input.thresholds),
                             exit |-> ExitCode(GateFailures(means, input.thresholds))])
    BY DEF ComputeGate
  <1> DEFINE failures == GateFailures(means, input.thresholds)
  <1>6. Agrees(input.report, input.thresholds, failures, ExitCode(failures))
    <2> HIDE DEF Scores
    <2> QED BY <1>2, <1>3, <1>4, GateIsFair
  <1>7. input' = input /\ output'.failures = failures /\ output'.exit = ExitCode(failures)
    BY <1>5 DEF Compute
  <1> HIDE DEF failures
  <1> QED BY <1>6, <1>7 DEF Agrees, GateAgreesWithCases, Slack

(* The evaluation gate agrees with the cases: see GateAgreesWithCases. *)
THEOREM GateAgrees ==
    Spec => []GateAgreesWithCases
  <1>1. Init => GateAgreesWithCases
    BY DEF Init, GateAgreesWithCases, Computed
  <1>2. Given /\ GateAgreesWithCases /\ [Next]_vars => GateAgreesWithCases'
    <2>1. CASE UNCHANGED vars
      BY <2>1 DEF vars, GateAgreesWithCases, Computed
    <2>2. ASSUME Given, Next, input.of = "gate" PROVE GateAgreesWithCases'
      BY <2>2, GivenKinds, StepComputes, GateIsComputed
    <2>3. ASSUME Next, input.of # "gate" PROVE GateAgreesWithCases'
      <3>1. ~Computed("gate")'
        BY <2>3, StepComputes DEF Computed
      <3> QED BY <3>1 DEF GateAgreesWithCases
    <2> QED BY <2>1, <2>2, <2>3
  <1> QED BY <1>1, <1>2, GivenStays, PTL DEF Spec

-----------------------------------------------------------------------------
(* sorted(): place says where an item of the list goes, order what goes to *)
(* a place.                                                                *)
Sorting(s, value, place, order) ==
    LET positions == DOMAIN s
    IN  /\ place \in [positions -> positions] /\ order \in [positions -> positions]
        /\ \A i \in positions : place[order[i]] = i /\ order[place[i]] = i
        /\ \A i, j \in positions :
              place[i] < place[j] <=> \/ value[s[i]] > value[s[j]]
                                      \/ value[s[i]] = value[s[j]] /\ i < j
        /\ \A j, m \in positions :
              j <= m /\ (\A i \in positions : place[i] < place[j] => i <= m) => place[j] <= m
        /\ SortedBy(s, value) = [p \in positions |-> s[order[p]]]

LEMMA SortedBySorts ==
    ASSUME NEW S, NEW s \in Seq(S), NEW value, \A i \in DOMAIN s : value[s[i]] \in Int
    PROVE  \E place, order : Sorting(s, value, place, order)
  <1> DEFINE n == Len(s)
             v == [i \in 1..n |-> value[s[i]]]
             before(j) == {i \in DOMAIN s : \/ value[s[i]] > value[s[j]]
                                            \/ value[s[i]] = value[s[j]] /\ i < j}
             picked(p) == CHOOSE j \in DOMAIN s : Cardinality(before(j)) = p - 1
  <1>1. n \in Nat /\ DOMAIN s = 1..n
    OBVIOUS
  <1>2. v \in [1..n -> Int] /\ \A i \in 1..n : v[i] = value[s[i]]
    BY <1>1
  <1> HIDE DEF n, v
  <1>3. \A i, j \in 1..n : Ahead(v, i, j) <=> \/ value[s[i]] > value[s[j]]
                                              \/ value[s[i]] = value[s[j]] /\ i < j
    BY <1>2 DEF Ahead
  <1>4. PICK place \in [1..n -> 1..n], order \in [1..n -> 1..n] :
            /\ \A j \in 1..n : place[j] = Cardinality(AheadOf(v, n, j)) + 1
            /\ \A i \in 1..n : place[order[i]] = i /\ order[place[i]] = i
            /\ \A i, j \in 1..n : place[i] < place[j] <=> Ahead(v, i, j)
            /\ \A j, m \in 1..n :
                  j <= m /\ (\A i \in 1..n : Ahead(v, i, j) => i <= m) => place[j] <= m
    BY <1>1, <1>2, EveryPlaceIsTaken
  <1>5. ASSUME NEW j \in 1..n PROVE before(j) = AheadOf(v, n, j)
    BY <1>1, <1>3 DEF AheadOf
  <1>6. ASSUME NEW p \in 1..n
        PROVE  picked(p) = order[p]
    <2>1. \A j \in 1..n : Cardinality(before(j)) = Cardinality(AheadOf(v, n, j))
      BY <1>5
    <2> HIDE DEF before
    <2>2. \A j \in 1..n : Cardinality(AheadOf(v, n, j)) \in 0..n - 1
      BY <1>1, <1>2, AheadOfGrows
    <2>3. ASSUME NEW j \in 1..n PROVE Cardinality(before(j)) = p - 1 <=> place[j] = p
      <3> DEFINE c == Cardinality(before(j))
      <3>1. place[j] = c + 1
        BY <1>4, <2>1
      <3>2. c \in Int
        BY <1>1, <2>1, <2>2
      <3>3. p \in Int
        BY <1>1
      <3> HIDE DEF c
      <3>4. c = p - 1 <=> place[j] = p
        BY <3>1, <3>2, <3>3
      <3> QED BY <3>4 DEF c
    <2>4. \A j \in 1..n : place[j] = p <=> j = order[p]
      BY <1>4
    <2> DEFINE fits(j) == Cardinality(before(j)) = p - 1
    <2>5. order[p] \in 1..n /\ \A j \in 1..n : fits(j) <=> j = order[p]
      BY <1>4, <2>3, <2>4
    <2>6. picked(p) = CHOOSE j \in 1..n : fits(j)
      BY <1>1
    <2> HIDE DEF fits, picked
    <2> QED BY <2>5, <2>6
  <1>7. SortedBy(s, value) = [p \in 1..n |-> s[order[p]]]
    <2>1. SortedBy(s, value) = [p \in DOMAIN s |-> s[picked(p)]]
      BY DEF SortedBy
    <2> HIDE DEF picked
    <2> QED BY <1>1, <1>6, <2>1
  <1>8. Sorting(s, value, place, order)
    BY <1>1, <1>3, <1>4, <1>7 DEF Sorting
  <1> QED BY <1>8

(* No item gets lost or comes twice, and who is worth more goes before.    *)
LEMMA SortedByKeeps ==
    ASSUME NEW S, NEW s \in Seq(S), NEW value, \A i \in DOMAIN s : value[s[i]] \in Int
    PROVE  /\ SortedBy(s, value) \in Seq(S) /\ Len(SortedBy(s, value)) = Len(s)
           /\ ToSet(SortedBy(s, value)) = ToSet(s)
           /\ IsInjective(s) => IsInjective(SortedBy(s, value))
           /\ \A x, y \in ToSet(s) :
                 value[x] > value[y] => Before(x, y, SortedBy(s, value))
  <1> DEFINE t == SortedBy(s, value)
             n == Len(s)
  <1>1. n \in Nat /\ DOMAIN s = 1..n /\ s \in [1..n -> S]
    OBVIOUS
  <1>2. PICK place, order : Sorting(s, value, place, order)
    BY SortedBySorts
  <1>3. /\ place \in [1..n -> 1..n] /\ order \in [1..n -> 1..n]
        /\ \A i \in 1..n : place[order[i]] = i /\ order[place[i]] = i
        /\ \A i, j \in 1..n : value[s[i]] > value[s[j]] => place[i] < place[j]
        /\ t = [p \in 1..n |-> s[order[p]]]
    BY <1>1, <1>2 DEF Sorting
  <1> HIDE DEF t, n
  <1>4. t \in [1..n -> S] /\ DOMAIN t = 1..n
    BY <1>1, <1>3
  <1>5. t \in Seq(S) /\ Len(t) = n
    BY <1>1, <1>4
  <1>6. \A i \in 1..n : place[i] \in 1..n /\ t[place[i]] = s[i]
    BY <1>3
  <1>7. \A p \in 1..n : order[p] \in 1..n /\ t[p] = s[order[p]]
    BY <1>3
  <1>8. ToSet(t) = ToSet(s)
    BY <1>1, <1>4, <1>6, <1>7 DEF ToSet
  <1>9. ASSUME IsInjective(s) PROVE IsInjective(t)
    <2> SUFFICES ASSUME NEW p \in 1..n, NEW q \in 1..n, t[p] = t[q] PROVE p = q
      BY <1>4 DEF IsInjective
    <2>1. order[p] = order[q]
      BY <1>1, <1>7, <1>9 DEF IsInjective
    <2> QED BY <1>3, <2>1
  <1>10. ASSUME NEW x \in ToSet(s), NEW y \in ToSet(s), value[x] > value[y]
         PROVE  Before(x, y, t)
    <2>1. PICK i \in 1..n, j \in 1..n : s[i] = x /\ s[j] = y
      BY <1>1 DEF ToSet
    <2>2. place[i] < place[j]
      BY <1>3, <1>10, <2>1
    <2> QED BY <1>4, <1>6, <2>1, <2>2 DEF Before
  <1> QED BY <1>5, <1>8, <1>9, <1>10 DEF t, n

(* The first of a list. *)
LEMMA FirstOfKeeps ==
    ASSUME NEW S, NEW s \in Seq(S), NEW n \in Nat
    PROVE  /\ FirstOf(s, n) \in Seq(S)
           /\ Len(FirstOf(s, n)) <= n
           /\ n >= Len(s) => FirstOf(s, n) = s
           /\ DOMAIN FirstOf(s, n) = 1..(IF n < Len(s) THEN n ELSE Len(s))
           /\ \A i \in DOMAIN FirstOf(s, n) : i \in DOMAIN s /\ FirstOf(s, n)[i] = s[i]
           /\ ToSet(FirstOf(s, n)) \subseteq ToSet(s)
           /\ IsInjective(s) => /\ IsInjective(FirstOf(s, n))
                                /\ \A x, y : Before(x, y, s) /\ y \in ToSet(FirstOf(s, n))
                                      => Before(x, y, FirstOf(s, n))
  <1> DEFINE l == IF n < Len(s) THEN n ELSE Len(s)
             t == FirstOf(s, n)
  <1>1. Len(s) \in Nat /\ l \in Nat /\ l <= n /\ l <= Len(s) /\ s \in [1..Len(s) -> S]
    OBVIOUS
  <1>2. Min({n, Len(s)}) = l
    BY <1>1, MinOfTwo
  <1>3. t = SubSeq(s, 1, l)
    BY <1>2 DEF FirstOf
  <1> HIDE DEF t
  <1>4. t \in Seq(S) /\ Len(t) = l /\ DOMAIN t = 1..l /\ \A i \in 1..l : t[i] = s[i]
    BY <1>1, <1>3
  <1>5. n >= Len(s) => t = s
    BY <1>1, <1>4
  <1>6. \A i \in DOMAIN t : i \in DOMAIN s /\ t[i] = s[i]
    BY <1>1, <1>4
  <1>7. ToSet(t) \subseteq ToSet(s)
    BY <1>6 DEF ToSet
  <1>8. ASSUME IsInjective(s)
        PROVE  /\ IsInjective(t)
               /\ \A x, y : Before(x, y, s) /\ y \in ToSet(t) => Before(x, y, t)
    <2>1. IsInjective(t)
      BY <1>6, <1>8 DEF IsInjective
    <2>2. ASSUME NEW x, NEW y, Before(x, y, s), y \in ToSet(t) PROVE Before(x, y, t)
      <3>1. PICK i \in DOMAIN s, j \in DOMAIN s : i < j /\ s[i] = x /\ s[j] = y
        BY <2>2 DEF Before
      <3>2. PICK m \in DOMAIN t : t[m] = y
        BY <2>2 DEF ToSet
      <3>3. j = m
        BY <1>6, <1>8, <3>1, <3>2 DEF IsInjective
      <3>4. i \in 1..l /\ m \in 1..l
        BY <1>1, <1>4, <3>1, <3>2, <3>3
      <3> QED BY <1>4, <3>1, <3>2, <3>3, <3>4 DEF Before
    <2> QED BY <2>1, <2>2
  <1> QED BY <1>1, <1>4, <1>5, <1>6, <1>7, <1>8 DEF t

-----------------------------------------------------------------------------
(* The keys of a dictionary while it is filled. *)
Fills(t, keys, ranking, n) ==
    /\ t[0] = keys /\ t[n] = Filled(keys, ranking)
    /\ \A i \in 1..n : t[i] = IF ranking[i] \in ToSet(t[i - 1]) THEN t[i - 1]
                              ELSE Append(t[i - 1], ranking[i])

LEMMA FilledPasses ==
    ASSUME NEW S, NEW keys \in Seq(S), NEW ranking \in Seq(S), NEW n \in Nat, n = Len(ranking)
    PROVE  \E t \in [0..n -> Seq(S)] : Fills(t, keys, ranking, n)
  <1> DEFINE V    == Seq(S)
             F    == [p \in V \X (1..n) |-> IF ranking[p[2]] \in ToSet(p[1]) THEN p[1]
                                            ELSE Append(p[1], ranking[p[2]])]
             C(h) == h = [s \in SUBSET (1..n) |->
                             IF s = {} THEN keys
                             ELSE IF ranking[Max(s)] \in ToSet(h[s \ {Max(s)}]) THEN h[s \ {Max(s)}]
                                  ELSE Append(h[s \ {Max(s)}], ranking[Max(s)])]
             it   == CHOOSE h : C(h)
  <1>1. DOMAIN ranking = 1..n /\ \A i \in 1..n : ranking[i] \in S
    OBVIOUS
  <1>2. keys \in V /\ F \in [V \X (1..n) -> V]
    BY <1>1
  <1>3. \A v \in V, i \in 1..n : F[<<v, i>>] = IF ranking[i] \in ToSet(v) THEN v
                                               ELSE Append(v, ranking[i])
    OBVIOUS
  <1>4. Filled(keys, ranking) = it[1..n]
    BY <1>1 DEF Filled, FoldLeft, MapThenFoldSet
  <1> HIDE DEF F, V
  <1>5. C(it)
    <2>1. PICK g \in [SUBSET (1..n) -> V] : IsFold(g, F, keys, n)
      BY <1>2, FoldExists
    <2>2. ASSUME NEW s \in SUBSET (1..n), s # {}
          PROVE  g[s] = IF ranking[Max(s)] \in ToSet(g[s \ {Max(s)}]) THEN g[s \ {Max(s)}]
                        ELSE Append(g[s \ {Max(s)}], ranking[Max(s)])
      <3>1. g[s] = F[<<g[s \ {Max(s)}], Max(s)>>]
        BY <2>1, <2>2 DEF IsFold
      <3>2. Max(s) \in 1..n /\ g[s \ {Max(s)}] \in V
        BY <2>2, MaxOfSome
      <3> QED BY <1>3, <3>1, <3>2
    <2>3. g[{}] = keys /\ g = [s \in SUBSET (1..n) |-> g[s]]
      BY <2>1 DEF IsFold
    <2>4. C(g)
      BY <2>2, <2>3
    <2> HIDE DEF C
    <2> QED BY <2>4
  <1> HIDE DEF it
  <1>6. Advances(it, F, keys, n, V)
    <2>1. it[{}] = keys
      BY <1>5
    <2>2. ASSUME NEW i \in 1..n, it[1..(i - 1)] \in V
          PROVE  it[1..i] = F[<<it[1..(i - 1)], i>>]
      <3>1. 1..i \in SUBSET (1..n) /\ 1..i # {} /\ Max(1..i) = i /\ (1..i) \ {i} = 1..(i - 1)
        BY MaxOfFirst
      <3>2. it[1..i] = IF ranking[i] \in ToSet(it[1..(i - 1)]) THEN it[1..(i - 1)]
                       ELSE Append(it[1..(i - 1)], ranking[i])
        BY <1>5, <3>1
      <3> QED BY <1>3, <2>2, <3>2
    <2> QED BY <1>2, <2>1, <2>2 DEF Advances
  <1>7. PICK t \in [0..n -> V] : Passes(t, F, keys, n) /\ t[n] = it[1..n]
    BY <1>6, FoldPasses
  <1>8. t[0] = keys /\ \A i \in 1..n : t[i] = F[<<t[i - 1], i>>]
    BY <1>7 DEF Passes
  <1>9. ASSUME NEW i \in 1..n
        PROVE  t[i] = IF ranking[i] \in ToSet(t[i - 1]) THEN t[i - 1]
                      ELSE Append(t[i - 1], ranking[i])
    <2>1. i - 1 \in 0..n
      OBVIOUS
    <2> QED BY <1>3, <1>7, <1>8, <2>1
  <1> QED BY <1>4, <1>7, <1>8, <1>9 DEF V, Fills

LEMMA AppendKeeps ==
    ASSUME NEW S, NEW s \in Seq(S), NEW x \in S
    PROVE  /\ Append(s, x) \in Seq(S) /\ Len(Append(s, x)) = Len(s) + 1
           /\ \A i \in 1..Len(s) : Append(s, x)[i] = s[i]
           /\ ToSet(Append(s, x)) = ToSet(s) \cup {x}
           /\ IsInjective(s) /\ x \notin ToSet(s) => IsInjective(Append(s, x))
  <1> DEFINE t == Append(s, x)
             n == Len(s)
  <1>1. n \in Nat /\ DOMAIN s = 1..n
    OBVIOUS
  <1>2. /\ t \in Seq(S) /\ Len(t) = n + 1 /\ DOMAIN t = 1..n + 1 /\ t[n + 1] = x
        /\ \A i \in 1..n : t[i] = s[i]
    OBVIOUS
  <1> HIDE DEF t, n
  <1>3. \A i \in 1..n + 1 : i \in 1..n \/ i = n + 1
    BY <1>1
  <1>4. n + 1 \in 1..n + 1 /\ \A i \in 1..n : i \in 1..n + 1
    BY <1>1
  <1>5. ToSet(t) = ToSet(s) \cup {x}
    BY <1>1, <1>2, <1>3, <1>4 DEF ToSet
  <1>6. IsInjective(s) /\ x \notin ToSet(s) => IsInjective(t)
    BY <1>1, <1>2, <1>3 DEF IsInjective, ToSet
  <1> QED BY <1>2, <1>5, <1>6 DEF t, n

LEMMA FoundHasAll ==
    ASSUME NEW S, NEW vector \in Seq(S), NEW keyword \in Seq(S), IsInjective(vector)
    PROVE  /\ Found(vector, keyword) \in Seq(S) /\ IsInjective(Found(vector, keyword))
           /\ ToSet(Found(vector, keyword)) = ToSet(vector) \cup ToSet(keyword)
           /\ Len(vector) <= Len(Found(vector, keyword))
           /\ \A i \in 1..Len(vector) : Found(vector, keyword)[i] = vector[i]
  <1> DEFINE n == Len(keyword)
             l == Len(vector)
  <1>1. n \in Nat /\ l \in Nat /\ DOMAIN keyword = 1..n /\ \A i \in 1..n : keyword[i] \in S
    OBVIOUS
  <1>2. PICK t \in [0..n -> Seq(S)] : Fills(t, vector, keyword, n)
    BY <1>1, FilledPasses
  <1> DEFINE Good(i) == /\ IsInjective(t[i])
                        /\ ToSet(t[i]) = ToSet(vector) \cup {keyword[j] : j \in 1..i}
                        /\ l <= Len(t[i]) /\ \A j \in 1..l : t[i][j] = vector[j]
             G       == {i \in 0..n : Good(i)}
  <1> HIDE DEF n, l
  <1>3. 0 \in G
    <2>1. {keyword[j] : j \in 1..0} = {} /\ 0 \in 0..n
      BY <1>1
    <2> QED BY <1>1, <1>2, <2>1 DEF l, Fills
  <1>4. ASSUME NEW i \in 0..n, i \in G, i < n PROVE i + 1 \in G
    <2> DEFINE x == keyword[i + 1]
    <2>1. i + 1 \in 1..n /\ i + 1 \in 0..n /\ (i + 1) - 1 = i /\ x \in S /\ t[i] \in Seq(S)
      BY <1>1, <1>4
    <2>2. t[i + 1] = IF x \in ToSet(t[i]) THEN t[i] ELSE Append(t[i], x)
      BY <1>2, <2>1 DEF Fills
    <2>3. {keyword[j] : j \in 1..i + 1} = {keyword[j] : j \in 1..i} \cup {x}
      <3>1. 1..i + 1 = (1..i) \cup {i + 1}
        BY <1>1
      <3> QED BY <3>1
    <2>4. Good(i)
      BY <1>4
    <2> HIDE DEF x
    <2>5. CASE x \in ToSet(t[i])
      BY <2>1, <2>2, <2>3, <2>4, <2>5
    <2>6. CASE x \notin ToSet(t[i])
      <3>1. /\ Len(Append(t[i], x)) = Len(t[i]) + 1
            /\ \A j \in 1..Len(t[i]) : Append(t[i], x)[j] = t[i][j]
            /\ ToSet(Append(t[i], x)) = ToSet(t[i]) \cup {x}
            /\ IsInjective(Append(t[i], x))
        BY <2>1, <2>4, <2>6, AppendKeeps
      <3>2. Len(t[i]) \in Nat
        BY <2>1
      <3>3. \A j \in 1..l : j \in 1..Len(t[i])
        BY <1>1, <2>4, <3>2
      <3>4. l <= Len(t[i + 1]) /\ IsInjective(t[i + 1])
        BY <1>1, <2>2, <2>4, <2>6, <3>1, <3>2
      <3>5. ToSet(t[i + 1]) = ToSet(vector) \cup {keyword[j] : j \in 1..i + 1}
        BY <2>2, <2>3, <2>4, <2>6, <3>1
      <3>6. \A j \in 1..l : t[i + 1][j] = vector[j]
        BY <2>2, <2>4, <2>6, <3>1, <3>3
      <3>7. Good(i + 1)
        BY <3>4, <3>5, <3>6
      <3> HIDE DEF Good
      <3> QED BY <2>1, <3>7
    <2> QED BY <2>5, <2>6
  <1>5. Good(n)
    <2> HIDE DEF G
    <2>1. \A i \in 0..n : i \in G /\ i < n => i + 1 \in G
      BY <1>4
    <2>2. \A i \in 0..n : i \in G
      BY <1>1, <1>3, <2>1, InductionUpTo
    <2> QED BY <1>1, <2>2 DEF G
  <1>6. {keyword[j] : j \in 1..n} = ToSet(keyword)
    BY <1>1 DEF ToSet
  <1>7. Found(vector, keyword) = t[n] /\ t[n] \in Seq(S)
    BY <1>1, <1>2 DEF Found, Fills
  <1> QED BY <1>5, <1>6, <1>7 DEF l

-----------------------------------------------------------------------------
(* Unit is the product of the k + rank. *)
LEMMA UnitMultiplies ==
    ASSUME NEW k \in Nat, NEW pool \in Nat
    PROVE  \E t \in [0..pool -> Nat \ {0}] :
              t[0] = 1 /\ t[pool] = Unit(k, pool) /\ \A i \in 1..pool : t[i] = t[i - 1] * (k + i)
  <1> DEFINE V    == Nat \ {0}
             F    == [p \in V \X (1..pool) |-> p[1] * (k + p[2])]
             C(h) == h = [s \in SUBSET (1..pool) |->
                             IF s = {} THEN 1 ELSE h[s \ {Max(s)}] * (k + Max(s))]
             it   == CHOOSE h : C(h)
  <1>1. \A v \in V, i \in 1..pool : v * (k + i) \in V
    BY Products
  <1>2. 1 \in V /\ F \in [V \X (1..pool) -> V]
    BY <1>1
  <1>3. \A v \in V, i \in 1..pool : F[<<v, i>>] = v * (k + i)
    OBVIOUS
  <1>4. Unit(k, pool) = it[1..pool]
    <2> DEFINE ranks == [r \in 1..pool |-> r]
    <2>1. DOMAIN ranks = 1..pool
      OBVIOUS
    <2>2. it = CHOOSE h : h = [s \in SUBSET (1..pool) |->
                                  IF s = {} THEN 1 ELSE h[s \ {Max(s)}] * (k + ranks[Max(s)])]
      <3>1. \A s \in SUBSET (1..pool) : s # {} => Max(s) \in 1..pool
        BY MaxOfSome
      <3>2. \A s \in SUBSET (1..pool) : s # {} => ranks[Max(s)] = Max(s)
        BY <3>1
      <3> DEFINE D(h) == h = [s \in SUBSET (1..pool) |->
                                 IF s = {} THEN 1 ELSE h[s \ {Max(s)}] * (k + ranks[Max(s)])]
      <3>3. \A h : C(h) <=> D(h)
        <4> HIDE DEF ranks
        <4> QED BY <3>2
      <3> HIDE DEF C, D
      <3>4. (CHOOSE h : C(h)) = (CHOOSE h : D(h))
        BY <3>3
      <3> QED BY <3>4 DEF D
    <2> QED BY <2>1, <2>2 DEF Unit, FoldLeft, MapThenFoldSet
  <1> HIDE DEF F, V
  <1>5. C(it)
    <2>1. PICK g \in [SUBSET (1..pool) -> V] : IsFold(g, F, 1, pool)
      BY <1>2, FoldExists
    <2>2. ASSUME NEW s \in SUBSET (1..pool), s # {}
          PROVE  g[s] = g[s \ {Max(s)}] * (k + Max(s))
      <3>1. g[s] = F[<<g[s \ {Max(s)}], Max(s)>>]
        BY <2>1, <2>2 DEF IsFold
      <3>2. Max(s) \in 1..pool /\ g[s \ {Max(s)}] \in V
        BY <2>2, MaxOfSome
      <3> QED BY <1>3, <3>1, <3>2
    <2>3. g[{}] = 1 /\ g = [s \in SUBSET (1..pool) |-> g[s]]
      BY <2>1 DEF IsFold
    <2>4. C(g)
      BY <2>2, <2>3
    <2> HIDE DEF C
    <2> QED BY <2>4
  <1> HIDE DEF it
  <1>6. Advances(it, F, 1, pool, V)
    <2>1. it[{}] = 1
      BY <1>5
    <2>2. ASSUME NEW i \in 1..pool, it[1..(i - 1)] \in V
          PROVE  it[1..i] = F[<<it[1..(i - 1)], i>>]
      <3>1. 1..i \in SUBSET (1..pool) /\ 1..i # {} /\ Max(1..i) = i /\ (1..i) \ {i} = 1..(i - 1)
        BY MaxOfFirst
      <3>2. it[1..i] = it[1..(i - 1)] * (k + i)
        BY <1>5, <3>1
      <3> QED BY <1>3, <2>2, <3>2
    <2> QED BY <1>2, <2>1, <2>2 DEF Advances
  <1>7. PICK t \in [0..pool -> V] : Passes(t, F, 1, pool) /\ t[pool] = it[1..pool]
    <2> DEFINE base == 1
    <2>1. Advances(it, F, base, pool, V)
      BY <1>6
    <2> HIDE DEF base
    <2>2. \E t \in [0..pool -> V] : Passes(t, F, base, pool) /\ t[pool] = it[1..pool]
      BY <2>1, FoldPasses
    <2> QED BY <2>2 DEF base
  <1>8. t[0] = 1 /\ \A i \in 1..pool : t[i] = F[<<t[i - 1], i>>]
    BY <1>7 DEF Passes
  <1>9. ASSUME NEW i \in 1..pool PROVE t[i] = t[i - 1] * (k + i)
    <2>1. i - 1 \in 0..pool
      OBVIOUS
    <2> QED BY <1>3, <1>7, <1>8, <2>1
  <1> QED BY <1>4, <1>7, <1>8, <1>9 DEF V

(* What a place in an arm is worth, in whole units. *)
WorthOf(r, k, pool) == Unit(k, pool) \div (k + r)

LEMMA WorthIsWhole ==
    ASSUME NEW k \in Nat, NEW pool \in Nat, NEW r \in 1..pool
    PROVE  /\ WorthOf(r, k, pool) \in Nat \ {0} /\ Unit(k, pool) \in Nat \ {0}
           /\ WorthOf(r, k, pool) * (k + r) = Unit(k, pool)
  <1>1. PICK t \in [0..pool -> Nat \ {0}] :
            t[0] = 1 /\ t[pool] = Unit(k, pool) /\ \A i \in 1..pool : t[i] = t[i - 1] * (k + i)
    BY UnitMultiplies
  <1> DEFINE Good(i) == r <= i => \E q \in Nat \ {0} : t[i] = q * (k + r)
             G       == {i \in 0..pool : Good(i)}
  <1>2. 0 \in G
    OBVIOUS
  <1>3. ASSUME NEW i \in 0..pool, i \in G, i < pool PROVE i + 1 \in G
    <2>1. i + 1 \in 1..pool /\ i + 1 \in 0..pool /\ (i + 1) - 1 = i /\ t[i] \in Nat \ {0}
      BY <1>3
    <2>2. t[i + 1] = t[i] * (k + (i + 1))
      BY <1>1, <2>1
    <2>3. CASE r = i + 1
      BY <2>1, <2>2, <2>3
    <2>4. CASE r <= i
      <3>1. PICK q \in Nat \ {0} : t[i] = q * (k + r)
        BY <1>3, <2>4
      <3>2. k + r \in Nat \ {0} /\ k + (i + 1) \in Nat \ {0}
        BY <2>1
      <3> DEFINE a == k + r
                 b == k + (i + 1)
      <3>3. t[i + 1] = (q * a) * b
        BY <2>2, <3>1
      <3>4. a \in Nat \ {0} /\ b \in Nat \ {0}
        BY <3>2
      <3> HIDE DEF a, b
      <3>5. (q * a) * b = (q * b) * a /\ q * b \in Nat \ {0}
        BY <3>4, Products
      <3>6. \E c \in Nat \ {0} : t[i + 1] = c * a
        BY <3>3, <3>5
      <3> QED BY <2>1, <3>6 DEF a
    <2>5. CASE r > i + 1
      BY <2>1, <2>5
    <2> QED BY <2>1, <2>3, <2>4, <2>5
  <1>4. Good(pool)
    <2> HIDE DEF G
    <2>1. \A i \in 0..pool : i \in G /\ i < pool => i + 1 \in G
      BY <1>3
    <2>2. \A i \in 0..pool : i \in G
      BY <1>2, <2>1, InductionUpTo
    <2>3. pool \in 0..pool
      OBVIOUS
    <2> HIDE DEF Good
    <2> QED BY <2>2, <2>3 DEF G
  <1>5. PICK q \in Nat \ {0} : Unit(k, pool) = q * (k + r)
    BY <1>1, <1>4
  <1>6. k + r \in Nat \ {0}
    OBVIOUS
  <1>7. WorthOf(r, k, pool) = q
    BY <1>5, <1>6, Division DEF WorthOf
  <1>8. Unit(k, pool) \in Nat \ {0}
    BY <1>1
  <1> QED BY <1>5, <1>7, <1>8

(* A higher place is worth more, and two places, if the pool is no larger  *)
(* than k + 1, are worth more than any single one.                         *)
LEMMA WorthFalls ==
    ASSUME NEW k \in Nat, NEW pool \in Nat, NEW r \in 1..pool, NEW s \in 1..pool
    PROVE  /\ r < s => WorthOf(s, k, pool) < WorthOf(r, k, pool)
           /\ pool <= k + 1 => \A u \in 1..pool :
                 WorthOf(u, k, pool) < WorthOf(r, k, pool) + WorthOf(s, k, pool)
  <1> DEFINE w(x) == WorthOf(x, k, pool)
             unit == Unit(k, pool)
  <1>1. \A x \in 1..pool : w(x) \in Nat \ {0} /\ w(x) * (k + x) = unit /\ unit \in Nat \ {0}
    BY WorthIsWhole
  <1>2. ASSUME NEW x \in 1..pool, NEW y \in 1..pool, x < y PROVE w(y) < w(x)
    <2> DEFINE a == w(x)
               b == w(y)
               c == k + x
               d == k + y
    <2>1. a * c = b * d /\ a \in Nat \ {0} /\ b \in Nat \ {0}
      BY <1>1
    <2>2. c \in Nat \ {0} /\ d \in Nat \ {0} /\ c < d
      BY <1>2
    <2> HIDE DEF a, b, c, d, w
    <2>3. b * c < b * d
      <3>1. c * b < d * b
        BY <2>1, <2>2, ProductsGrow
      <3> QED BY <2>1, <2>2, <3>1
    <2>4. b < a
      BY <2>1, <2>2, <2>3, ProductsGrow
    <2> QED BY <2>4 DEF a, b
  <1>3. ASSUME pool <= k + 1, NEW u \in 1..pool PROVE w(u) < w(r) + w(s)
    <2> DEFINE a == w(pool)
               b == w(1)
               c == k + pool
               d == k + 1
    <2>1. 1 \in 1..pool /\ pool \in 1..pool
      OBVIOUS
    <2>2. w(u) <= b /\ a <= w(r) /\ a <= w(s)
      <3>1. \A x \in 1..pool : x = 1 \/ 1 < x
        OBVIOUS
      <3>2. \A x \in 1..pool : x = pool \/ x < pool
        OBVIOUS
      <3> HIDE DEF w
      <3>3. \A x \in 1..pool : w(x) \in Int
        BY <1>1
      <3>4. w(u) = b \/ w(u) < b
        BY <1>2, <2>1, <3>1
      <3>5. (a = w(r) \/ a < w(r)) /\ (a = w(s) \/ a < w(s))
        BY <1>2, <2>1, <3>2
      <3> QED BY <2>1, <3>3, <3>4, <3>5
    <2>3. a * c = b * d /\ a \in Nat \ {0} /\ b \in Nat \ {0}
      BY <1>1, <2>1
    <2>4. c \in Nat \ {0} /\ d \in Nat \ {0} /\ c < 2 * d
      BY <1>3
    <2>5. \A x \in 1..pool : w(x) \in Int
      BY <1>1
    <2> HIDE DEF a, b, c, d, w
    <2>6. b < 2 * a
      <3>1. c * a < (2 * d) * a
        BY <2>3, <2>4, ProductsGrow
      <3>2. c * a = a * c /\ (2 * d) * a = (2 * a) * d
        BY <2>3, <2>4
      <3>3. b * d < (2 * a) * d
        BY <2>3, <3>1, <3>2
      <3>4. 2 * a \in Int /\ b \in Int
        BY <2>3
      <3> QED BY <2>4, <3>3, <3>4, ProductsGrow
    <2> QED BY <2>2, <2>3, <2>5, <2>6
  <1> QED BY <1>2, <1>3

-----------------------------------------------------------------------------
(* What an arm gives to a chunk. *)
FromArm(x, arm, k, pool) == IF x \in ToSet(arm) THEN WorthOf(Rank(x, arm), k, pool) ELSE 0

(* The results of two arms, each at most as long as the pool. *)
TwoArms(vector, keyword, k, pool, S) ==
    /\ k \in Nat /\ pool \in Nat
    /\ vector \in Seq(S) /\ keyword \in Seq(S)
    /\ Len(vector) <= pool /\ Len(keyword) <= pool
    /\ IsInjective(vector) /\ IsInjective(keyword)

LEMMA RankIsPlace ==
    ASSUME NEW S, NEW arm \in Seq(S), NEW x \in ToSet(arm)
    PROVE  Rank(x, arm) \in DOMAIN arm /\ Rank(x, arm) \in 1..Len(arm) /\ arm[Rank(x, arm)] = x
  <1>1. \E i \in DOMAIN arm : arm[i] = x
    BY DEF ToSet
  <1> QED BY <1>1 DEF Rank

LEMMA FromArmIsWhole ==
    ASSUME NEW S, NEW arm \in Seq(S), NEW k \in Nat, NEW pool \in Nat, Len(arm) <= pool, NEW x
    PROVE  FromArm(x, arm, k, pool) \in Nat
  <1>1. ASSUME x \in ToSet(arm) PROVE WorthOf(Rank(x, arm), k, pool) \in Nat \ {0}
    <2>1. Rank(x, arm) \in 1..pool
      BY <1>1, RankIsPlace
    <2> QED BY <2>1, WorthIsWhole
  <1> QED BY <1>1 DEF FromArm

LEMMA FusedAdds ==
    ASSUME NEW S, NEW vector, NEW keyword, NEW k, NEW pool, TwoArms(vector, keyword, k, pool, S),
           NEW x \in ToSet(vector) \cup ToSet(keyword)
    PROVE  Fused(<<vector, keyword>>, k, pool)[x] =
               FromArm(x, vector, k, pool) + FromArm(x, keyword, k, pool)
  <1> DEFINE arms == <<vector, keyword>>
             give(i) == FromArm(x, arms[i], k, pool)
             V    == Int
             F    == [p \in V \X (1..2) |-> p[1] + give(p[2])]
             C(h) == h = [s \in SUBSET (1..2) |->
                             IF s = {} THEN 0
                             ELSE IF x \in ToSet(arms[Max(s)])
                                  THEN h[s \ {Max(s)}] + Unit(k, pool) \div (k + Rank(x, arms[Max(s)]))
                                  ELSE h[s \ {Max(s)}]]
             it   == CHOOSE h : C(h)
  <1>0. /\ k \in Nat /\ pool \in Nat /\ vector \in Seq(S) /\ keyword \in Seq(S)
        /\ Len(vector) <= pool /\ Len(keyword) <= pool
    BY DEF TwoArms
  <1>1. /\ DOMAIN arms = 1..2 /\ arms[1] = vector /\ arms[2] = keyword
        /\ \A i \in 1..2 : i = 1 \/ i = 2
    OBVIOUS
  <1>2. ASSUME NEW i \in 1..2 PROVE give(i) \in Int
    <2>1. arms[i] \in Seq(S) /\ Len(arms[i]) <= pool
      BY <1>0, <1>1
    <2> HIDE DEF arms
    <2> QED BY <1>0, <2>1, FromArmIsWhole
  <1>3. Fused(arms, k, pool)[x] = it[1..2]
    <2>1. x \in UNION {ToSet(r) : r \in ToSet(arms)}
      <3>1. vector \in ToSet(arms) /\ keyword \in ToSet(arms)
        BY <1>1 DEF ToSet
      <3> HIDE DEF arms
      <3> QED BY <3>1
    <2>2. Fused(arms, k, pool)[x] =
              FoldLeft(LAMBDA score, r : IF x \in ToSet(r)
                                         THEN score + Unit(k, pool) \div (k + Rank(x, r))
                                         ELSE score, 0, arms)
      <3> HIDE DEF arms
      <3> QED BY <2>1 DEF Fused
    <2> QED BY <1>1, <2>2 DEF FoldLeft, MapThenFoldSet
  <1> HIDE DEF arms
  <1>4. \A i \in 1..2 : give(i) = (IF x \in ToSet(arms[i])
                                      THEN Unit(k, pool) \div (k + Rank(x, arms[i])) ELSE 0)
    BY DEF FromArm, WorthOf
  <1> HIDE DEF give
  <1>5. F \in [V \X (1..2) -> V] /\ \A v \in V, i \in 1..2 : F[<<v, i>>] = v + give(i)
    BY <1>2
  <1> HIDE DEF F
  <1>6. \A v \in Int, i \in 1..2 :
            v + give(i) = IF x \in ToSet(arms[i])
                          THEN v + Unit(k, pool) \div (k + Rank(x, arms[i])) ELSE v
    BY <1>4
  <1>7. C(it)
    <2>1. PICK g \in [SUBSET (1..2) -> V] : IsFold(g, F, 0, 2)
      <3> DEFINE base == 0
                 n == 2
      <3>1. base \in V /\ n \in Nat /\ F \in [V \X (1..n) -> V]
        BY <1>5
      <3> HIDE DEF V, base, n
      <3>2. \E g \in [SUBSET (1..n) -> V] : IsFold(g, F, base, n)
        BY <3>1, FoldExists
      <3> QED BY <3>2 DEF base, n
    <2>2. ASSUME NEW s \in SUBSET (1..2), s # {}
          PROVE  g[s] = IF x \in ToSet(arms[Max(s)])
                        THEN g[s \ {Max(s)}] + Unit(k, pool) \div (k + Rank(x, arms[Max(s)]))
                        ELSE g[s \ {Max(s)}]
      <3>1. g[s] = F[<<g[s \ {Max(s)}], Max(s)>>]
        BY <2>1, <2>2 DEF IsFold
      <3>2. Max(s) \in 1..2 /\ g[s \ {Max(s)}] \in Int
        BY <2>1, <2>2, MaxOfSome
      <3>3. g[s] = g[s \ {Max(s)}] + give(Max(s))
        BY <1>5, <3>1, <3>2
      <3> QED BY <1>6, <3>2, <3>3
    <2>3. g[{}] = 0 /\ g = [s \in SUBSET (1..2) |-> g[s]]
      BY <2>1 DEF IsFold
    <2>4. C(g)
      BY <2>2, <2>3
    <2> HIDE DEF C
    <2> QED BY <2>4
  <1> HIDE DEF it
  <1>8. ASSUME NEW i \in 1..2, it[1..(i - 1)] \in Int
        PROVE  it[1..i] = it[1..(i - 1)] + give(i)
    <2>1. 1..i \in SUBSET (1..2) /\ 1..i # {} /\ Max(1..i) = i /\ (1..i) \ {i} = 1..(i - 1)
      BY MaxOfFirst
    <2>2. it[1..i] = IF x \in ToSet(arms[i])
                     THEN it[1..(i - 1)] + Unit(k, pool) \div (k + Rank(x, arms[i]))
                     ELSE it[1..(i - 1)]
      BY <1>7, <2>1
    <2> QED BY <1>6, <1>8, <2>2
  <1>9. it[1..0] = 0
    <2>1. 1..0 = {}
      OBVIOUS
    <2> QED BY <1>7, <2>1
  <1>10. it[1..1] = give(1)
    <2>1. it[1..1] = it[1..(1 - 1)] + give(1)
      BY <1>8, <1>9
    <2> QED BY <1>2, <1>9, <2>1
  <1>11. it[1..2] = give(1) + give(2)
    <2>1. it[1..2] = it[1..(2 - 1)] + give(2)
      BY <1>2, <1>8, <1>10
    <2> QED BY <1>10, <2>1
  <1> QED BY <1>1, <1>3, <1>11 DEF give, arms


AheadInEach(x, y, arms) == \A arm \in arms : y \in ToSet(arm) => Before(x, y, arm)

(* fusion.py: who is ahead in both arms is worth more; who is in both, if  *)
(* the pool is no larger than k + 1, is worth more than who is in one; and *)
(* who is in one is worth no more than who is first in the other.          *)
LEMMA FusedCompares ==
    ASSUME NEW S, NEW vector, NEW keyword, NEW k, NEW pool, TwoArms(vector, keyword, k, pool, S),
           NEW x \in ToSet(vector) \cup ToSet(keyword),
           NEW y \in ToSet(vector) \cup ToSet(keyword), NEW score,
           score = Fused(<<vector, keyword>>, k, pool)
    PROVE  /\ score[x] \in Nat \ {0} /\ score[y] \in Nat \ {0}
           /\ AheadInEach(x, y, {vector, keyword}) => score[x] > score[y]
           /\ x \in ToSet(vector) \cap ToSet(keyword) /\ y \notin ToSet(vector) \cap ToSet(keyword)
              /\ pool <= k + 1
                => score[x] > score[y]
           /\ y \notin ToSet(vector) \cap ToSet(keyword) /\ vector # <<>> /\ x = vector[1]
                => score[y] <= score[x]
  <1> DEFINE w(r)       == WorthOf(r, k, pool)
             of(z, arm) == FromArm(z, arm, k, pool)
             Arms2      == {vector, keyword}
  <1>1. /\ k \in Nat /\ pool \in Nat
        /\ \A arm \in Arms2 : arm \in Seq(S) /\ Len(arm) <= pool /\ IsInjective(arm)
    BY DEF TwoArms
  <1>2. \A r, s \in 1..pool :
            /\ w(r) \in Nat \ {0} /\ (r < s => w(s) < w(r))
            /\ pool <= k + 1 => \A u \in 1..pool : w(u) < w(r) + w(s)
    <2> TAKE r \in 1..pool, s \in 1..pool
    <2>1. w(r) \in Nat \ {0}
      BY <1>1, WorthIsWhole
    <2>2. r < s => w(s) < w(r)
      BY <1>1, WorthFalls
    <2>3. pool <= k + 1 => \A u \in 1..pool : w(u) < w(r) + w(s)
      BY <1>1, WorthFalls
    <2> QED BY <2>1, <2>2, <2>3
  <1>3. ASSUME NEW arm \in Arms2, NEW z
        PROVE  /\ of(z, arm) \in Nat
               /\ z \in ToSet(arm) => /\ Rank(z, arm) \in 1..pool /\ Rank(z, arm) \in DOMAIN arm
                                      /\ arm[Rank(z, arm)] = z /\ of(z, arm) = w(Rank(z, arm))
                                      /\ of(z, arm) > 0
               /\ z \notin ToSet(arm) => of(z, arm) = 0
    <2>1. of(z, arm) \in Nat
      BY <1>1, FromArmIsWhole
    <2>2. ASSUME z \in ToSet(arm)
          PROVE  Rank(z, arm) \in 1..pool /\ Rank(z, arm) \in DOMAIN arm /\ arm[Rank(z, arm)] = z
      <3>1. Rank(z, arm) \in DOMAIN arm /\ Rank(z, arm) \in 1..Len(arm) /\ arm[Rank(z, arm)] = z
        BY <1>1, <2>2, RankIsPlace
      <3> QED BY <1>1, <3>1
    <2>3. z \in ToSet(arm) => of(z, arm) = w(Rank(z, arm))
      BY DEF FromArm
    <2>4. z \notin ToSet(arm) => of(z, arm) = 0
      BY DEF FromArm
    <2> HIDE DEF w, of
    <2>5. z \in ToSet(arm) => of(z, arm) > 0
      BY <1>2, <2>2, <2>3
    <2> QED BY <2>1, <2>2, <2>3, <2>4, <2>5
  <1>4. ASSUME NEW z \in ToSet(vector) \cup ToSet(keyword)
        PROVE  score[z] = of(z, vector) + of(z, keyword)
    BY FusedAdds
  <1> HIDE DEF w, of
  <1>5. /\ vector \in Arms2 /\ keyword \in Arms2
        /\ of(x, vector) \in Nat /\ of(x, keyword) \in Nat
        /\ of(y, vector) \in Nat /\ of(y, keyword) \in Nat
    BY <1>3
  <1>6. score[x] \in Nat \ {0} /\ score[y] \in Nat \ {0}
    <2>1. of(x, vector) > 0 \/ of(x, keyword) > 0
      BY <1>3, <1>5
    <2>2. of(y, vector) > 0 \/ of(y, keyword) > 0
      BY <1>3, <1>5
    <2>3. score[x] = of(x, vector) + of(x, keyword) /\ score[y] = of(y, vector) + of(y, keyword)
      BY <1>4
    <2> QED BY <1>5, <2>1, <2>2, <2>3
  <1>7. ASSUME AheadInEach(x, y, {vector, keyword})
        PROVE  score[x] > score[y]
    <2>1. ASSUME NEW arm \in Arms2, y \in ToSet(arm) PROVE of(y, arm) < of(x, arm)
      <3>1. PICK i \in DOMAIN arm, j \in DOMAIN arm : i < j /\ arm[i] = x /\ arm[j] = y
        BY <1>7, <2>1 DEF Before, AheadInEach
      <3>2. x \in ToSet(arm)
        BY <3>1 DEF ToSet
      <3>3. Rank(x, arm) = i /\ Rank(y, arm) = j
        BY <1>1, <1>3, <2>1, <3>1, <3>2 DEF IsInjective
      <3> QED BY <1>2, <1>3, <2>1, <3>1, <3>2, <3>3
    <2>2. \A arm \in Arms2 : of(y, arm) <= of(x, arm)
      <3> TAKE arm \in Arms2
      <3>1. of(x, arm) \in Nat /\ of(y, arm) \in Nat /\ (y \notin ToSet(arm) => of(y, arm) = 0)
        BY <1>3
      <3> QED BY <2>1, <3>1
    <2>3. of(y, vector) < of(x, vector) \/ of(y, keyword) < of(x, keyword)
      BY <1>5, <2>1
    <2>4. of(y, vector) <= of(x, vector) /\ of(y, keyword) <= of(x, keyword)
      BY <1>5, <2>2
    <2>5. score[x] = of(x, vector) + of(x, keyword) /\ score[y] = of(y, vector) + of(y, keyword)
      BY <1>4
    <2> QED BY <1>5, <2>3, <2>4, <2>5
  <1>8. ASSUME NEW z \in ToSet(vector) \cup ToSet(keyword),
               z \notin ToSet(vector) \cap ToSet(keyword)
        PROVE  \E u \in 1..pool : score[z] = w(u)
    <2>1. score[z] = of(z, vector) + of(z, keyword)
      BY <1>4
    <2>2. CASE z \in ToSet(vector) /\ z \notin ToSet(keyword)
      <3>1. /\ of(z, vector) = w(Rank(z, vector)) /\ of(z, vector) \in Nat
            /\ Rank(z, vector) \in 1..pool /\ of(z, keyword) = 0
        BY <1>3, <1>5, <2>2
      <3> QED BY <2>1, <3>1
    <2>3. CASE z \in ToSet(keyword) /\ z \notin ToSet(vector)
      <3>1. /\ of(z, keyword) = w(Rank(z, keyword)) /\ of(z, keyword) \in Nat
            /\ Rank(z, keyword) \in 1..pool /\ of(z, vector) = 0
        BY <1>3, <1>5, <2>3
      <3> QED BY <2>1, <3>1
    <2> QED BY <1>8, <2>2, <2>3
  <1>9. ASSUME x \in ToSet(vector) \cap ToSet(keyword),
               y \notin ToSet(vector) \cap ToSet(keyword), pool <= k + 1
        PROVE  score[x] > score[y]
    <2>1. PICK u \in 1..pool : score[y] = w(u)
      BY <1>8, <1>9
    <2>2. /\ score[x] = w(Rank(x, vector)) + w(Rank(x, keyword))
          /\ Rank(x, vector) \in 1..pool /\ Rank(x, keyword) \in 1..pool
      BY <1>3, <1>4, <1>5, <1>9
    <2>3. w(u) < w(Rank(x, vector)) + w(Rank(x, keyword))
      BY <1>2, <1>9, <2>2
    <2> QED BY <1>6, <2>1, <2>2, <2>3
  <1>10. ASSUME y \notin ToSet(vector) \cap ToSet(keyword), vector # <<>>, x = vector[1]
         PROVE  score[y] <= score[x]
    <2>1. PICK u \in 1..pool : score[y] = w(u)
      BY <1>8, <1>10
    <2>2. vector \in Seq(S) /\ Len(vector) <= pool /\ IsInjective(vector)
      BY <1>1
    <2>3. 1 \in DOMAIN vector /\ 1 \in 1..pool
      BY <1>1, <1>10, <2>2
    <2>4. x \in ToSet(vector)
      BY <1>10, <2>3 DEF ToSet
    <2>5. Rank(x, vector) = 1
      BY <1>3, <1>5, <1>10, <2>2, <2>3, <2>4 DEF IsInjective
    <2>6. score[x] = w(1) + of(x, keyword)
      BY <1>3, <1>4, <1>5, <2>4, <2>5
    <2>7. u = 1 \/ w(u) < w(1)
      BY <1>2, <2>3
    <2>8. w(1) \in Nat /\ w(u) \in Nat
      BY <1>2, <2>3
    <2> QED BY <1>5, <2>1, <2>6, <2>7, <2>8
  <1> QED BY <1>6, <1>7, <1>9, <1>10

-----------------------------------------------------------------------------
(* The cut takes the chunks with the highest scores. *)
TakesBest(cut, score, vector, keyword, k, pool, S) ==
    /\ cut \in Seq(S) /\ IsInjective(cut) /\ Len(cut) <= pool
    /\ ToSet(cut) \subseteq ToSet(vector) \cup ToSet(keyword)
    /\ \A x \in ToSet(vector) \cup ToSet(keyword), y \in ToSet(cut) :
          score[x] > score[y] => Before(x, y, cut)
    /\ vector # <<>> /\ pool <= k + 1 => vector[1] \in ToSet(cut)

LEMMA RetrievedIsBest ==
    ASSUME NEW S, NEW vector, NEW keyword, NEW k, NEW pool, TwoArms(vector, keyword, k, pool, S)
    PROVE  TakesBest(Retrieved(vector, keyword, k, pool), Fused(<<vector, keyword>>, k, pool),
                     vector, keyword, k, pool, S)
  <1> DEFINE cut    == Retrieved(vector, keyword, k, pool)
             score  == Fused(<<vector, keyword>>, k, pool)
             found  == Found(vector, keyword)
             sorted == SortedBy(found, score)
             union  == ToSet(vector) \cup ToSet(keyword)
  <1>1. /\ k \in Nat /\ pool \in Nat /\ vector \in Seq(S) /\ keyword \in Seq(S)
        /\ Len(vector) <= pool /\ IsInjective(vector)
    BY DEF TwoArms
  <1>2. /\ found \in Seq(S) /\ IsInjective(found) /\ ToSet(found) = union
        /\ Len(vector) <= Len(found) /\ \A i \in 1..Len(vector) : found[i] = vector[i]
    BY <1>1, FoundHasAll
  <1>3. cut = FirstOf(sorted, pool) /\ score = Fused(<<vector, keyword>>, k, pool)
    BY DEF Retrieved
  <1> HIDE DEF found, cut, score
  <1>4. \A x \in union : score[x] \in Nat
    BY <1>3, FusedCompares
  <1>5. \A i \in DOMAIN found : found[i] \in union /\ score[found[i]] \in Int
    <2>1. \A i \in DOMAIN found : found[i] \in ToSet(found)
      BY DEF ToSet
    <2> QED BY <1>2, <1>4, <2>1
  <1>6. /\ sorted \in Seq(S) /\ Len(sorted) = Len(found) /\ ToSet(sorted) = union
        /\ IsInjective(sorted)
        /\ \A x, y \in union : score[x] > score[y] => Before(x, y, sorted)
    BY <1>2, <1>5, SortedByKeeps
  <1> HIDE DEF sorted
  <1>7. /\ cut \in Seq(S) /\ Len(cut) <= pool /\ ToSet(cut) \subseteq union
        /\ IsInjective(cut)
        /\ \A x, y : Before(x, y, sorted) /\ y \in ToSet(cut) => Before(x, y, cut)
    BY <1>1, <1>3, <1>6, FirstOfKeeps
  <1>8. ASSUME NEW x \in union, NEW y \in ToSet(cut), score[x] > score[y]
        PROVE  Before(x, y, cut)
    BY <1>6, <1>7, <1>8
  <1>9. ASSUME vector # <<>>, pool <= k + 1 PROVE vector[1] \in ToSet(cut)
    <2> DEFINE l == Len(vector)
               n == Len(found)
    <2>1. n \in Nat /\ l \in 1..n /\ DOMAIN found = 1..n /\ 1 \in 1..n /\ found[1] = vector[1]
      BY <1>1, <1>2, <1>9
    <2>2. PICK place, order : Sorting(found, score, place, order)
      BY <1>2, <1>5, SortedBySorts
    <2>3. /\ place \in [1..n -> 1..n] /\ order \in [1..n -> 1..n]
          /\ \A i \in 1..n : order[place[i]] = i
          /\ \A i, j \in 1..n :
                place[i] < place[j] <=> \/ score[found[i]] > score[found[j]]
                                        \/ score[found[i]] = score[found[j]] /\ i < j
          /\ \A j, m \in 1..n :
                j <= m /\ (\A i \in 1..n : place[i] < place[j] => i <= m) => place[j] <= m
          /\ sorted = [p \in 1..n |-> found[order[p]]]
      BY <2>1, <2>2 DEF Sorting, sorted
    <2>4. ASSUME NEW i \in 1..n, place[i] < place[1] PROVE i <= l
      <3>1. score[found[i]] > score[found[1]]
        <4> DEFINE head == 1
        <4>1. place[i] < place[head] /\ head \in 1..n /\ ~(i < head)
          BY <2>1, <2>4
        <4> HIDE DEF head, n
        <4>2. score[found[i]] > score[found[head]]
          BY <2>3, <4>1
        <4> QED BY <4>2 DEF head
      <3>2. found[i] \in union /\ found[1] \in union
        BY <1>5, <2>1
      <3>3. found[i] \in ToSet(vector)
        <4>1. score[found[i]] \in Int /\ score[found[1]] \in Int
          BY <1>5, <2>1
        <4>2. ~(score[found[i]] <= score[found[1]])
          BY <3>1, <4>1
        <4> QED BY <1>3, <1>9, <2>1, <3>2, <4>2, FusedCompares
      <3>4. PICK j \in DOMAIN vector : vector[j] = found[i]
        BY <3>3 DEF ToSet
      <3>5. j \in 1..l /\ j \in 1..n
        BY <1>1, <2>1, <3>4
      <3>6. found[j] = found[i]
        BY <1>2, <3>4, <3>5
      <3> QED BY <1>2, <2>1, <3>5, <3>6 DEF IsInjective
    <2>5. place[1] <= l
      BY <2>1, <2>3, <2>4
    <2>6. place[1] \in 1..n /\ place[1] <= pool /\ sorted[place[1]] = vector[1]
      <3>1. place[1] \in 1..n /\ order[place[1]] = 1
        BY <2>1, <2>3
      <3>2. sorted[place[1]] = found[order[place[1]]]
        BY <2>3, <3>1
      <3>3. place[1] <= pool
        BY <1>1, <2>1, <2>5, <3>1
      <3> QED BY <2>1, <3>1, <3>2, <3>3
    <2> HIDE DEF l, n
    <2>7. DOMAIN cut = 1..(IF pool < n THEN pool ELSE n)
      BY <1>1, <1>3, <1>6, FirstOfKeeps DEF n
    <2>8. place[1] \in DOMAIN cut
      BY <1>1, <2>1, <2>6, <2>7
    <2>9. cut[place[1]] = sorted[place[1]]
      BY <1>1, <1>3, <1>6, <2>8, FirstOfKeeps
    <2> QED BY <2>6, <2>8, <2>9 DEF ToSet
  <1> QED BY <1>7, <1>8, <1>9 DEF TakesBest, cut, score

(* pgvector_retriever.py: for arms of any length up to a pool of at most   *)
(* k + 1 (the defaults are 50 and 60), the cut keeps the chunks found by   *)
(* both arms before those found by one, and the nearest of all.            *)
THEOREM CutIsFair ==
    ASSUME NEW S, NEW vector, NEW keyword, NEW k, NEW pool, TwoArms(vector, keyword, k, pool, S),
           pool <= k + 1
    PROVE  LET cut  == Retrieved(vector, keyword, k, pool)
               both == ToSet(vector) \cap ToSet(keyword)
           IN  /\ \A y \in ToSet(cut) \ both, x \in both : Before(x, y, cut)
               /\ vector # <<>> => Head(vector) \in ToSet(cut)
  <1> DEFINE cut   == Retrieved(vector, keyword, k, pool)
             score == Fused(<<vector, keyword>>, k, pool)
             both  == ToSet(vector) \cap ToSet(keyword)
  <1>1. /\ ToSet(cut) \subseteq ToSet(vector) \cup ToSet(keyword)
        /\ \A x \in ToSet(vector) \cup ToSet(keyword), y \in ToSet(cut) :
              score[x] > score[y] => Before(x, y, cut)
        /\ vector # <<>> => vector[1] \in ToSet(cut)
    <2>1. TakesBest(cut, score, vector, keyword, k, pool, S)
      BY RetrievedIsBest
    <2> HIDE DEF cut, score
    <2> QED BY <2>1 DEF TakesBest
  <1>2. ASSUME NEW y \in ToSet(cut) \ both, NEW x \in both PROVE Before(x, y, cut)
    <2> HIDE DEF cut
    <2>1. score[x] > score[y]
      BY <1>1, <1>2, FusedCompares
    <2> QED BY <1>1, <2>1
  <1>3. vector \in Seq(S)
    BY DEF TwoArms
  <1>4. vector # <<>> => Head(vector) = vector[1]
    BY <1>3
  <1> HIDE DEF cut
  <1> QED BY <1>1, <1>2, <1>4 DEF cut

-----------------------------------------------------------------------------
(* reranker.py: the weights. *)
LEMMA FinalFavours ==
    ASSUME NEW s \in Nat \ {0}, NEW w \in Nat \ {0}, NEW b \in 0..s, NEW d \in 0..s,
           NEW c \in 0..w, NEW e \in 0..w, NEW p \in 0..1, NEW q \in 0..1
    PROVE  /\ Final(b, s, c, w, p) \in Int
           /\ b > d /\ c >= e /\ p >= q => Final(b, s, c, w, p) > Final(d, s, e, w, q)
           /\ c = w /\ e = 0 => Final(b, s, c, w, p) > Final(d, s, e, w, q)
  <1>1. /\ Final(b, s, c, w, p) = 3 * (b * w) + s * (6 * c + w * p)
        /\ Final(d, s, e, w, q) = 3 * (d * w) + s * (6 * e + w * q)
    BY DEF Final
  <1>2. b * w \in Int /\ d * w \in Int /\ w * p \in Int /\ w * q \in Int
    OBVIOUS
  <1>3. s * (6 * c + w * p) \in Int /\ s * (6 * e + w * q) \in Int
    BY <1>2
  <1>4. ASSUME b > d, c >= e, p >= q
        PROVE  3 * (b * w) + s * (6 * c + w * p) > 3 * (d * w) + s * (6 * e + w * q)
    <2>1. d * w < b * w
      BY <1>4, ProductsGrow
    <2>2. w * q <= w * p
      <3>1. (p = q) \/ (p = 1 /\ q = 0)
        BY <1>4
      <3> QED BY <3>1
    <2> DEFINE g == 6 * c + w * p
               h == 6 * e + w * q
    <2>3. g \in Int /\ h \in Int /\ h <= g
      BY <1>2, <1>4, <2>2
    <2> HIDE DEF g, h
    <2>4. h * s <= g * s /\ h * s = s * h /\ g * s = s * g
      <3>1. h < g => h * s < g * s
        BY <2>3, ProductsGrow
      <3>2. h * s \in Int /\ g * s \in Int
        BY <2>3, ProductsGrow
      <3> QED BY <2>3, <3>1, <3>2
    <2>5. s * h <= s * g /\ s * h \in Int /\ s * g \in Int
      BY <2>3, <2>4
    <2>6. 3 * (b * w) + s * g > 3 * (d * w) + s * h
      BY <1>2, <2>1, <2>5
    <2> QED BY <2>6 DEF g, h
  <1>5. ASSUME c = w, e = 0
        PROVE  3 * (b * w) + s * (6 * c + w * p) > 3 * (d * w) + s * (6 * e + w * q)
    <2> DEFINE m == s * w
    <2>1. m \in Nat \ {0} /\ 0 <= b * w /\ d * w <= m
      <3>1. m \in Nat \ {0}
        BY Products
      <3>2. 0 <= b * w
        OBVIOUS
      <3>3. d = s \/ d * w < s * w
        BY ProductsGrow
      <3> QED BY <1>2, <3>1, <3>2, <3>3
    <2>2. s * (6 * c + w * p) = 6 * m + m * p
      BY <1>5
    <2>3. s * (6 * e + w * q) = m * q
      BY <1>5
    <2> HIDE DEF m
    <2>4. m * q <= m /\ 0 <= m * p /\ m * q \in Int /\ m * p \in Int
      <3>1. (p = 0 \/ p = 1) /\ (q = 0 \/ q = 1)
        OBVIOUS
      <3> QED BY <2>1, <3>1
    <2> QED BY <1>2, <2>1, <2>2, <2>3, <2>4
  <1>6. Final(b, s, c, w, p) \in Int
    BY <1>1, <1>2, <1>3
  <1> QED BY <1>1, <1>4, <1>5, <1>6

LEMMA LowAndHigh ==
    ASSUME NEW S, NEW s \in Seq(S), NEW score, \A x \in ToSet(s) : score[x] \in Int, s # <<>>
    PROVE  \E low, high \in ToSet(s) :
              /\ low = CHOOSE x \in ToSet(s) : \A y \in ToSet(s) : score[x] <= score[y]
              /\ high = CHOOSE x \in ToSet(s) : \A y \in ToSet(s) : score[x] >= score[y]
              /\ \A y \in ToSet(s) : score[low] <= score[y] /\ score[y] <= score[high]
  <1> DEFINE n == Len(s)
             f == [i \in 1..n |-> score[s[i]]]
  <1>1. n \in Nat \ {0} /\ DOMAIN s = 1..n
    OBVIOUS
  <1>2. \A i \in 1..n : s[i] \in ToSet(s)
    BY <1>1 DEF ToSet
  <1>3. f \in [1..n -> Int] /\ \A i \in 1..n : f[i] = score[s[i]]
    BY <1>2
  <1> HIDE DEF n, f
  <1>4. PICK i \in 1..n : \A j \in 1..n : f[i] <= f[j]
    BY <1>1, <1>3, SmallestOf
  <1>5. PICK h \in 1..n : \A j \in 1..n : f[j] <= f[h]
    BY <1>1, <1>3, LargestOf
  <1>6. \A y \in ToSet(s) : \E j \in 1..n : s[j] = y
    BY <1>1 DEF ToSet
  <1>7. \E x \in ToSet(s) : \A y \in ToSet(s) : score[x] <= score[y]
    <2>1. ASSUME NEW y \in ToSet(s) PROVE score[s[i]] <= score[y]
      <3>1. PICK j \in 1..n : s[j] = y
        BY <1>6
      <3> QED BY <1>3, <1>4, <3>1
    <2> QED BY <1>2, <2>1
  <1>8. \E x \in ToSet(s) : \A y \in ToSet(s) : score[x] >= score[y]
    <2>1. ASSUME NEW y \in ToSet(s) PROVE score[s[h]] >= score[y]
      <3>1. PICK j \in 1..n : s[j] = y
        BY <1>6
      <3>2. f[j] <= f[h] /\ f[j] \in Int /\ f[h] \in Int
        BY <1>3, <1>5
      <3> QED BY <1>3, <3>1, <3>2
    <2> QED BY <1>2, <2>1
  <1> DEFINE low  == CHOOSE x \in ToSet(s) : \A y \in ToSet(s) : score[x] <= score[y]
             high == CHOOSE x \in ToSet(s) : \A y \in ToSet(s) : score[x] >= score[y]
  <1>9. low \in ToSet(s) /\ \A y \in ToSet(s) : score[low] <= score[y]
    BY <1>7
  <1>10. high \in ToSet(s) /\ \A y \in ToSet(s) : score[high] >= score[y]
    BY <1>8
  <1> HIDE DEF low, high
  <1>11. \A y \in ToSet(s) : score[y] <= score[high]
    BY <1>10
  <1> QED BY <1>9, <1>10, <1>11 DEF low, high



(* What the reranker is given. *)
Rated(cut, score, words, covered, phrase, S) ==
    /\ cut \in Seq(S) /\ IsInjective(cut) /\ words \in Nat
    /\ \A x \in ToSet(cut) :
          score[x] \in Int /\ covered[x] \in 0..words /\ phrase[x] \in 0..1

(* What it promises. *)
RanksFairly(ranked, cut, score, words, covered, phrase, S) ==
    /\ ranked \in Seq(S) /\ IsInjective(ranked) /\ ToSet(ranked) \subseteq ToSet(cut)
    /\ \A x \in ToSet(cut), y \in ToSet(ranked) :
          \/ score[x] > score[y] /\ covered[x] >= covered[y] /\ phrase[x] >= phrase[y]
          \/ words > 0 /\ covered[x] = words /\ covered[y] = 0
          => Before(x, y, ranked)

(* reranker.py: for any candidates and any scores, the weights let neither *)
(* retrieval nor the phrase outweigh full coverage of the query, and who   *)
(* is retrieved with a higher score and has no less of the query stays     *)
(* ahead.                                                                  *)
THEOREM RerankIsFair ==
    ASSUME NEW S, NEW cut, NEW score, NEW words, NEW covered, NEW phrase, NEW top_k \in Nat,
           Rated(cut, score, words, covered, phrase, S)
    PROVE  RanksFairly(Rerank(cut, score, words, covered, phrase, top_k),
                       cut, score, words, covered, phrase, S)
  <1> DEFINE low   == CHOOSE x \in ToSet(cut) : \A y \in ToSet(cut) : score[x] <= score[y]
             high  == CHOOSE x \in ToSet(cut) : \A y \in ToSet(cut) : score[x] >= score[y]
             s     == IF score[high] - score[low] = 0 THEN 1 ELSE score[high] - score[low]
             w     == IF words = 0 THEN 1 ELSE words
             final == [x \in ToSet(cut) |-> Final(score[x] - score[low], s, covered[x], w, phrase[x])]
             ranked == FirstOf(SortedBy(cut, final), top_k)
  <1>1. Rerank(cut, score, words, covered, phrase, top_k) = ranked
    BY DEF Rerank
  <1>2. /\ cut \in Seq(S) /\ IsInjective(cut) /\ words \in Nat
        /\ \A x \in ToSet(cut) :
              score[x] \in Int /\ covered[x] \in 0..words /\ phrase[x] \in 0..1
    BY DEF Rated
  <1>3. \A x \in ToSet(cut) :
            final[x] = Final(score[x] - score[low], s, covered[x], w, phrase[x])
    OBVIOUS
  <1> HIDE DEF ranked, final
  <1>4. ASSUME cut # <<>>
        PROVE  s \in Nat \ {0} /\ \A x \in ToSet(cut) : score[x] - score[low] \in 0..s
    <2>1. /\ low \in ToSet(cut) /\ high \in ToSet(cut)
          /\ \A y \in ToSet(cut) : score[low] <= score[y] /\ score[y] <= score[high]
      BY <1>2, <1>4, LowAndHigh
    <2> HIDE DEF low, high
    <2>2. score[low] \in Int /\ score[high] \in Int /\ score[low] <= score[high]
      BY <1>2, <2>1
    <2>3. s \in Nat \ {0} /\ score[high] - score[low] <= s
      BY <2>2
    <2>4. ASSUME NEW x \in ToSet(cut) PROVE score[x] - score[low] \in 0..s
      <3>1. score[x] \in Int /\ score[low] <= score[x] /\ score[x] <= score[high]
        BY <1>2, <2>1
      <3> HIDE DEF s
      <3> QED BY <2>2, <2>3, <3>1
    <2> QED BY <2>3, <2>4
  <1>5. w \in Nat \ {0} /\ words <= w /\ (words > 0 => w = words)
    BY <1>2
  <1>6. \A x \in ToSet(cut) : covered[x] \in 0..w
    BY <1>2, <1>5
  <1>7. cut = <<>> => ToSet(cut) = {}
    BY DEF ToSet
  <1> HIDE DEF low, high, s, w
  <1>8. ASSUME NEW x \in ToSet(cut), NEW y \in ToSet(cut)
        PROVE  /\ final[x] \in Int
               /\ \/ score[x] > score[y] /\ covered[x] >= covered[y] /\ phrase[x] >= phrase[y]
                  \/ words > 0 /\ covered[x] = words /\ covered[y] = 0
                  => final[x] > final[y]
    <2> DEFINE b == score[x] - score[low]
               d == score[y] - score[low]
    <2>1. /\ s \in Nat \ {0} /\ b \in 0..s /\ d \in 0..s
          /\ score[x] > score[y] => b > d
      <3>1. s \in Nat \ {0} /\ b \in 0..s /\ d \in 0..s
        BY <1>4, <1>7
      <3>2. score[low] \in Int
        <4>1. low \in ToSet(cut)
          BY <1>2, <1>7, LowAndHigh DEF low
        <4> QED BY <1>2, <4>1
      <3> QED BY <1>2, <3>1, <3>2
    <2>2. final[x] = Final(b, s, covered[x], w, phrase[x])
      BY <1>3
    <2>3. final[y] = Final(d, s, covered[y], w, phrase[y])
      BY <1>3
    <2> HIDE DEF b, d
    <2>4. /\ covered[x] \in 0..w /\ covered[y] \in 0..w
          /\ phrase[x] \in 0..1 /\ phrase[y] \in 0..1
      BY <1>2, <1>6
    <2>5. /\ final[x] \in Int
          /\ b > d /\ covered[x] >= covered[y] /\ phrase[x] >= phrase[y] => final[x] > final[y]
          /\ covered[x] = w /\ covered[y] = 0 => final[x] > final[y]
      <3> DEFINE c == covered[x]
                 e == covered[y]
                 p == phrase[x]
                 q == phrase[y]
      <3>1. c \in 0..w /\ e \in 0..w /\ p \in 0..1 /\ q \in 0..1
        BY <2>4
      <3>2. final[x] = Final(b, s, c, w, p) /\ final[y] = Final(d, s, e, w, q)
        BY <2>2, <2>3
      <3> HIDE DEF c, e, p, q
      <3>3. /\ Final(b, s, c, w, p) \in Int
            /\ b > d /\ c >= e /\ p >= q => Final(b, s, c, w, p) > Final(d, s, e, w, q)
            /\ c = w /\ e = 0 => Final(b, s, c, w, p) > Final(d, s, e, w, q)
        BY <1>5, <2>1, <3>1, FinalFavours
      <3> QED BY <3>2, <3>3 DEF c, e, p, q
    <2> QED BY <1>5, <2>1, <2>5
  <1>9. \A i \in DOMAIN cut : final[cut[i]] \in Int
    <2>1. \A i \in DOMAIN cut : cut[i] \in ToSet(cut)
      BY DEF ToSet
    <2> QED BY <1>8, <2>1
  <1> DEFINE sorted == SortedBy(cut, final)
  <1>10. /\ sorted \in Seq(S) /\ ToSet(sorted) = ToSet(cut) /\ IsInjective(sorted)
         /\ \A x, y \in ToSet(cut) : final[x] > final[y] => Before(x, y, sorted)
    BY <1>2, <1>9, SortedByKeeps
  <1>11. ranked = FirstOf(sorted, top_k)
    BY DEF ranked
  <1> HIDE DEF sorted
  <1>12. /\ ranked \in Seq(S) /\ ToSet(ranked) \subseteq ToSet(sorted) /\ IsInjective(ranked)
         /\ \A x, y : Before(x, y, sorted) /\ y \in ToSet(ranked) => Before(x, y, ranked)
    BY <1>10, <1>11, FirstOfKeeps
  <1>13. ASSUME NEW x \in ToSet(cut), NEW y \in ToSet(ranked),
                \/ score[x] > score[y] /\ covered[x] >= covered[y] /\ phrase[x] >= phrase[y]
                \/ words > 0 /\ covered[x] = words /\ covered[y] = 0
         PROVE  Before(x, y, ranked)
    <2>1. y \in ToSet(cut)
      BY <1>10, <1>12
    <2>2. final[x] > final[y]
      BY <1>8, <1>13, <2>1
    <2> QED BY <1>10, <1>12, <2>1, <2>2
  <1>14. ToSet(ranked) \subseteq ToSet(cut)
    BY <1>10, <1>12
  <1> QED BY <1>1, <1>12, <1>13, <1>14 DEF RanksFairly



(* The arms TLC is given are such arms. *)
LEMMA ArmsAreTwo ==
    ASSUME NEW pool \in Nat, NEW k \in Nat, NEW arms \in Arms(pool)
    PROVE  /\ TwoArms(arms.vector, arms.keyword, k, pool, 1..2 * pool)
           /\ ToSet(arms.vector) \cup ToSet(arms.keyword) \subseteq 1..2 * pool
  <1> DEFINE S    == 1..2 * pool
             Kept == {s \in BoundedSeq(S, pool) : IsInjective(s)}
             Near == {[i \in 1..m |-> i] : m \in 0..pool}
  <1>1. arms \in [vector : Near, keyword : Kept]
    <2> DEFINE All == [vector : Near, keyword : Kept]
    <2>1. Arms(pool) \subseteq All
      <3> HIDE DEF All
      <3>1. Arms(pool) = {a \in All :
                LET new == SelectSeq(a.keyword, LAMBDA x : x > Len(a.vector))
                IN  new = [i \in DOMAIN new |-> Len(a.vector) + i]}
        BY DEF Arms, All
      <3> QED BY <3>1, Zenon
    <2>2. arms \in All
      <3> HIDE DEF All
      <3> QED BY <2>1, Zenon
    <2> QED BY <2>2
  <1> HIDE DEF Kept, Near
  <1>2. arms.vector \in Near /\ arms.keyword \in Kept
    BY <1>1
  <1>3. PICK m \in 0..pool : arms.vector = [i \in 1..m |-> i]
    BY <1>2 DEF Near
  <1>4. arms.vector \in Seq(S) /\ Len(arms.vector) <= pool /\ IsInjective(arms.vector)
    BY <1>3 DEF IsInjective
  <1>5. arms.keyword \in BoundedSeq(S, pool) /\ IsInjective(arms.keyword)
    BY <1>2 DEF Kept
  <1> HIDE DEF S
  <1>6. PICK n \in 0..pool : arms.keyword \in [1..n -> S]
    BY <1>5 DEF BoundedSeq, SeqOf
  <1>7. arms.keyword \in Seq(S) /\ Len(arms.keyword) <= pool
    BY <1>6
  <1>8. ToSet(arms.vector) \cup ToSet(arms.keyword) \subseteq S
    BY <1>4, <1>7 DEF ToSet
  <1> QED BY <1>4, <1>5, <1>7, <1>8 DEF TwoArms, S

(* A question of words, and what a chunk has of it. *)
Asked(words, covered, phrase, top_k, X) ==
    /\ words \in Nat /\ top_k \in Nat
    /\ \A x \in X : covered[x] \in 0..words /\ phrase[x] \in 0..1

LEMMA RankInputIsReady ==
    ASSUME input \in RankInputs
    PROVE  /\ TwoArms(input.arms.vector, input.arms.keyword, input.k, input.pool,
                      1..2 * input.pool)
           /\ input.pool <= input.k + 1
           /\ Asked(input.words, input.covered, input.phrase, input.top_k,
                    ToSet(input.arms.vector) \cup ToSet(input.arms.keyword))
  <1> DEFINE found(arms) == ToSet(arms.vector) \cup ToSet(arms.keyword)
  <1>0. MaxPool \in Nat /\ MaxPool - 1 \in Nat /\ MaxPool <= 61
    BY AlgorithmsAssumption
  <1>1. /\ input \in PlainRankInputs \cup WordyRankInputs
        /\ \A x \in DOMAIN input.covered : input.covered[x] <= input.words
    BY DEF RankInputs
  <1>2. CASE input \in PlainRankInputs
    <2> DEFINE none == [x \in 1..2 * MaxPool |-> 0]
    <2>1. /\ input.arms \in Arms(MaxPool) /\ input.k \in {MaxPool - 1, 60}
          /\ input.pool = MaxPool /\ input.words = 0 /\ input.top_k = MaxPool
          /\ input.covered = none /\ input.phrase = none
      BY <1>2 DEF PlainRankInputs
    <2>2. input.k \in Nat /\ input.pool <= input.k + 1
      BY <1>0, <2>1
    <2>3. /\ TwoArms(input.arms.vector, input.arms.keyword, input.k, MaxPool, 1..2 * MaxPool)
          /\ found(input.arms) \subseteq 1..2 * MaxPool
      <3> DEFINE arms == input.arms
                 k    == input.k
      <3>1. arms \in Arms(MaxPool) /\ k \in Nat
        BY <2>1, <2>2
      <3> HIDE DEF arms, k
      <3>2. /\ TwoArms(arms.vector, arms.keyword, k, MaxPool, 1..2 * MaxPool)
            /\ ToSet(arms.vector) \cup ToSet(arms.keyword) \subseteq 1..2 * MaxPool
        BY <1>0, <3>1, ArmsAreTwo
      <3> QED BY <3>2 DEF arms, k
    <2> HIDE DEF found
    <2>4. \A x \in found(input.arms) : none[x] = 0
      BY <2>3
    <2> HIDE DEF none
    <2>5. Asked(input.words, input.covered, input.phrase, input.top_k, found(input.arms))
      BY <1>0, <2>1, <2>4 DEF Asked
    <2> QED BY <2>1, <2>2, <2>3, <2>5 DEF found
  <1>3. CASE input \in WordyRankInputs
    <2> DEFINE of(arms) == [of : {"rank"}, arms : {arms}, k : {60}, pool : {2}, words : 1..2,
                            covered : [found(arms) -> 0..2],
                            phrase : [found(arms) -> 0..1], top_k : 1..2]
    <2>1. WordyRankInputs = UNION {of(arms) : arms \in Arms(2)}
      BY DEF WordyRankInputs
    <2>2. PICK arms \in Arms(2) : input \in of(arms)
      <3> HIDE DEF of
      <3> QED BY <1>3, <2>1
    <2> HIDE DEF found
    <2>3. /\ input.arms = arms /\ input.k = 60 /\ input.pool = 2
          /\ input.words \in 1..2 /\ input.top_k \in 1..2
          /\ input.covered \in [found(arms) -> 0..2] /\ input.phrase \in [found(arms) -> 0..1]
      BY <2>2
    <2> HIDE DEF of
    <2>4. TwoArms(arms.vector, arms.keyword, input.k, input.pool, 1..2 * input.pool)
      <3> DEFINE pool == 2
                 k    == 60
      <3>1. pool \in Nat /\ k \in Nat /\ arms \in Arms(pool)
        BY <2>2
      <3>2. input.pool = pool /\ input.k = k
        BY <2>3
      <3> HIDE DEF pool, k
      <3>3. TwoArms(arms.vector, arms.keyword, k, pool, 1..2 * pool)
        BY <3>1, ArmsAreTwo
      <3> QED BY <3>2, <3>3
    <2>5. \A x \in found(arms) : input.covered[x] \in 0..input.words /\ input.phrase[x] \in 0..1
      BY <1>1, <2>3
    <2>6. Asked(input.words, input.covered, input.phrase, input.top_k, found(arms))
      BY <2>3, <2>5 DEF Asked
    <2> QED BY <2>3, <2>4, <2>6 DEF found
  <1> QED BY <1>1, <1>2, <1>3

(* What a search ranks. *)
LEMMA RankIsComputed ==
    ASSUME input \in RankInputs, ComputeRank
    PROVE  CutKeepsTheBest' /\ BetterStaysAhead' /\ CoverageWins'
  <1> DEFINE vector  == input.arms.vector
             keyword == input.arms.keyword
             score   == Fused(<<vector, keyword>>, input.k, input.pool)
             cut     == Retrieved(vector, keyword, input.k, input.pool)
             ranked  == Rerank(cut, score, input.words, input.covered, input.phrase, input.top_k)
             S       == 1..2 * input.pool
             union   == ToSet(vector) \cup ToSet(keyword)
             both    == ToSet(vector) \cap ToSet(keyword)
  <1>1. /\ TwoArms(vector, keyword, input.k, input.pool, S) /\ input.pool <= input.k + 1
        /\ Asked(input.words, input.covered, input.phrase, input.top_k, union)
    BY RankInputIsReady
  <1>2. input' = input /\ output'.candidates = cut /\ output'.ranked = ranked
    BY DEF ComputeRank, Compute
  <1>3. TakesBest(cut, score, vector, keyword, input.k, input.pool, S)
    <2> HIDE DEF S
    <2> QED BY <1>1, RetrievedIsBest
  <1>4. /\ cut \in Seq(S) /\ IsInjective(cut) /\ ToSet(cut) \subseteq union
        /\ \A x \in union, y \in ToSet(cut) : score[x] > score[y] => Before(x, y, cut)
    BY <1>3 DEF TakesBest
  <1>5. \A x \in union, y \in union :
            /\ score[x] \in Nat
            /\ AheadInEach(x, y, {vector, keyword}) => score[x] > score[y]
    <2> DEFINE k    == input.k
               pool == input.pool
    <2>1. /\ TwoArms(vector, keyword, k, pool, S)
          /\ score = Fused(<<vector, keyword>>, k, pool)
      BY <1>1
    <2> HIDE DEF S, score, vector, keyword, k, pool
    <2>2. ASSUME NEW x \in union, NEW y \in union
          PROVE  /\ score[x] \in Nat
                 /\ AheadInEach(x, y, {vector, keyword}) => score[x] > score[y]
      BY <2>1, FusedCompares
    <2> QED BY <2>2
  <1>6. /\ \A y \in ToSet(cut) \ both, x \in both : Before(x, y, cut)
        /\ vector # <<>> => Head(vector) \in ToSet(cut)
    <2> HIDE DEF S
    <2> QED BY <1>1, CutIsFair
  <1> HIDE DEF score, cut
  <1>7. Rated(cut, score, input.words, input.covered, input.phrase, S)
    BY <1>1, <1>4, <1>5 DEF Rated, Asked
  <1>8. RanksFairly(ranked, cut, score, input.words, input.covered, input.phrase, S)
    <2>1. input.top_k \in Nat
      BY <1>1 DEF Asked
    <2> HIDE DEF S
    <2> QED BY <1>7, <2>1, RerankIsFair
  <1> HIDE DEF ranked, S
  <1>9. CutKeepsTheBest'
    BY <1>2, <1>6 DEF CutKeepsTheBest
  <1>10. BetterStaysAhead'
    <2> SUFFICES ASSUME NEW y \in ToSet(ranked), NEW x, x # y,
                        AheadInEach(x, y, {vector, keyword}),
                        input.covered[x] >= input.covered[y], input.phrase[x] >= input.phrase[y]
                 PROVE  Before(x, y, ranked)
      BY <1>2 DEF BetterStaysAhead, AheadInBothArms, AheadInEach
    <2>1. y \in ToSet(cut) /\ y \in union
      BY <1>4, <1>8 DEF RanksFairly
    <2>2. x \in union
      <3>1. PICK arm \in {vector, keyword} : y \in ToSet(arm)
        BY <2>1
      <3>2. Before(x, y, arm)
        BY <3>1 DEF AheadInEach
      <3>3. x \in ToSet(arm)
        BY <3>2 DEF Before, ToSet
      <3> QED BY <3>3
    <2>3. score[x] > score[y]
      BY <1>5, <2>1, <2>2
    <2>4. Before(x, y, cut)
      BY <1>4, <2>1, <2>2, <2>3
    <2>5. x \in ToSet(cut)
      BY <2>4 DEF Before, ToSet
    <2> QED BY <1>8, <2>3, <2>5 DEF RanksFairly
  <1>11. CoverageWins'
    BY <1>2, <1>8 DEF CoverageWins, RanksFairly
  <1> QED BY <1>9, <1>10, <1>11

(* What the retriever keeps: see CutKeepsTheBest. *)
THEOREM TheCutKeepsTheBest ==
    Spec => []CutKeepsTheBest
  <1>1. Init => CutKeepsTheBest
    BY DEF Init, CutKeepsTheBest, Computed
  <1>2. Given /\ CutKeepsTheBest /\ [Next]_vars => CutKeepsTheBest'
    <2>1. CASE UNCHANGED vars
      BY <2>1 DEF vars, CutKeepsTheBest, Computed
    <2>2. ASSUME Given, Next, input.of = "rank" PROVE CutKeepsTheBest'
      BY <2>2, GivenKinds, StepComputes, RankIsComputed
    <2>3. ASSUME Next, input.of # "rank" PROVE CutKeepsTheBest'
      <3>1. ~Computed("rank")'
        BY <2>3, StepComputes DEF Computed
      <3> QED BY <3>1 DEF CutKeepsTheBest
    <2> QED BY <2>1, <2>2, <2>3
  <1> QED BY <1>1, <1>2, GivenStays, PTL DEF Spec

(* Fusion, cut and rerank agree: see BetterStaysAhead. *)
THEOREM TheBetterStaysAhead ==
    Spec => []BetterStaysAhead
  <1>1. Init => BetterStaysAhead
    BY DEF Init, BetterStaysAhead, Computed
  <1>2. Given /\ BetterStaysAhead /\ [Next]_vars => BetterStaysAhead'
    <2>1. CASE UNCHANGED vars
      BY <2>1 DEF vars, BetterStaysAhead, AheadInBothArms, Computed
    <2>2. ASSUME Given, Next, input.of = "rank" PROVE BetterStaysAhead'
      BY <2>2, GivenKinds, StepComputes, RankIsComputed
    <2>3. ASSUME Next, input.of # "rank" PROVE BetterStaysAhead'
      <3>1. ~Computed("rank")'
        BY <2>3, StepComputes DEF Computed
      <3> QED BY <3>1 DEF BetterStaysAhead
    <2> QED BY <2>1, <2>2, <2>3
  <1> QED BY <1>1, <1>2, GivenStays, PTL DEF Spec

(* Coverage weighs most: see CoverageWins. *)
THEOREM CoverageWeighsMost ==
    Spec => []CoverageWins
  <1>1. Init => CoverageWins
    BY DEF Init, CoverageWins, Computed
  <1>2. Given /\ CoverageWins /\ [Next]_vars => CoverageWins'
    <2>1. CASE UNCHANGED vars
      BY <2>1 DEF vars, CoverageWins, Computed
    <2>2. ASSUME Given, Next, input.of = "rank" PROVE CoverageWins'
      BY <2>2, GivenKinds, StepComputes, RankIsComputed
    <2>3. ASSUME Next, input.of # "rank" PROVE CoverageWins'
      <3>1. ~Computed("rank")'
        BY <2>3, StepComputes DEF Computed
      <3> QED BY <3>1 DEF CoverageWins
    <2> QED BY <2>1, <2>2, <2>3
  <1> QED BY <1>1, <1>2, GivenStays, PTL DEF Spec

-----------------------------------------------------------------------------
(* What a search in memory finds are documents of the corpus. *)
FoundIn(found, corpus) ==
    \E ranked \in Seq(DOMAIN corpus) :
        found = [i \in DOMAIN ranked |-> [chunk |-> ranked[i], text |-> corpus[ranked[i]]]]

LEMMA SearchFinds ==
    ASSUME NEW T, NEW corpus \in Seq(T), NEW sims, NEW question, NEW top_k \in Nat,
           sims \in Seq(1..Len(corpus)), Len(sims) <= Len(corpus), IsInjective(sims),
           IsFiniteSet(question)
    PROVE  FoundIn(SearchInMemory(corpus, sims, question, top_k), corpus)
  <1> DEFINE n       == Len(corpus)
             S       == 1..n
             docs    == [i \in DOMAIN corpus |-> i]
             overlap == [i \in DOMAIN corpus |->
                            Cardinality(Content(WordsOf(corpus[i])) \cap question)]
             hits    == Cardinality({i \in DOMAIN corpus : overlap[i] > 0})
             sorted  == SortedBy(docs, overlap)
             keyword == FirstOf(sorted, hits)
             score   == Fused(<<sims, keyword>>, 60, Len(docs))
             cut     == Retrieved(sims, keyword, 60, Len(docs))
             phrase  == [i \in DOMAIN docs |-> IF overlap[i] = Cardinality(question) THEN 1 ELSE 0]
             words   == Cardinality(question)
             ranked  == Rerank(cut, score, words, overlap, phrase, top_k)
  <1>1. n \in Nat /\ DOMAIN corpus = S /\ docs \in Seq(S) /\ Len(docs) = n /\ DOMAIN docs = S
    OBVIOUS
  <1>2. words \in Nat
    BY FS_CardinalityType
  <1>3. ASSUME NEW i \in S PROVE overlap[i] \in 0..words
    <2>1. /\ IsFiniteSet(Content(WordsOf(corpus[i])) \cap question)
          /\ Cardinality(Content(WordsOf(corpus[i])) \cap question) <= Cardinality(question)
      BY FS_Intersection
    <2>2. Cardinality(Content(WordsOf(corpus[i])) \cap question) \in Nat
      BY <2>1, FS_CardinalityType
    <2>3. overlap[i] = Cardinality(Content(WordsOf(corpus[i])) \cap question)
      BY <1>1
    <2> QED BY <1>2, <2>1, <2>2, <2>3
  <1>4. \A i \in S : phrase[i] \in 0..1 /\ docs[i] = i
    BY <1>1
  <1> HIDE DEF overlap, phrase, words
  <1>5. hits \in Nat
    <2>1. IsFiniteSet(S)
      BY <1>1, FS_Interval
    <2>2. IsFiniteSet({i \in DOMAIN corpus : overlap[i] > 0})
      BY <1>1, <2>1, FS_Subset
    <2> QED BY <2>2, FS_CardinalityType
  <1> HIDE DEF hits
  <1>6. IsInjective(docs)
    BY DEF IsInjective
  <1>7. sorted \in Seq(S) /\ Len(sorted) = n /\ IsInjective(sorted)
    <2>1. \A i \in DOMAIN docs : overlap[docs[i]] \in Int
      BY <1>1, <1>2, <1>3, <1>4
    <2> HIDE DEF docs, S
    <2> QED BY <1>1, <1>6, <2>1, SortedByKeeps
  <1> HIDE DEF sorted
  <1>8. keyword \in Seq(S) /\ Len(keyword) <= n /\ IsInjective(keyword)
    <2>1. keyword \in Seq(S) /\ IsInjective(keyword)
      BY <1>5, <1>7, FirstOfKeeps
    <2>2. DOMAIN keyword = 1..(IF hits < n THEN hits ELSE n)
      BY <1>5, <1>7, FirstOfKeeps
    <2> HIDE DEF keyword
    <2> QED BY <1>1, <1>5, <2>1, <2>2
  <1> HIDE DEF keyword, docs
  <1>9. TwoArms(sims, keyword, 60, Len(docs), S)
    BY <1>1, <1>8 DEF TwoArms
  <1>10. TakesBest(cut, score, sims, keyword, 60, Len(docs), S)
    <2> DEFINE k == 60
    <2>1. TwoArms(sims, keyword, k, Len(docs), S)
      BY <1>9
    <2>2. cut = Retrieved(sims, keyword, k, Len(docs))
          /\ score = Fused(<<sims, keyword>>, k, Len(docs))
      OBVIOUS
    <2> HIDE DEF k, S, cut, score
    <2>3. TakesBest(Retrieved(sims, keyword, k, Len(docs)), Fused(<<sims, keyword>>, k, Len(docs)),
                    sims, keyword, k, Len(docs), S)
      BY <2>1, RetrievedIsBest
    <2>4. TakesBest(cut, score, sims, keyword, k, Len(docs), S)
      BY <2>2, <2>3
    <2> QED BY <2>4 DEF k
  <1>11. \A x \in ToSet(sims) \cup ToSet(keyword) : score[x] \in Nat
    <2> DEFINE k == 60
    <2>1. TwoArms(sims, keyword, k, Len(docs), S)
          /\ score = Fused(<<sims, keyword>>, k, Len(docs))
      BY <1>9
    <2> HIDE DEF k, S, score
    <2> QED BY <2>1, FusedCompares
  <1> HIDE DEF cut, score
  <1>12. cut \in Seq(S) /\ IsInjective(cut) /\ ToSet(cut) \subseteq ToSet(sims) \cup ToSet(keyword)
    BY <1>10 DEF TakesBest
  <1>13. ToSet(cut) \subseteq S
    BY <1>12 DEF ToSet
  <1>14. Rated(cut, score, words, overlap, phrase, S)
    BY <1>2, <1>3, <1>4, <1>11, <1>12, <1>13 DEF Rated
  <1>15. RanksFairly(ranked, cut, score, words, overlap, phrase, S)
    <2> HIDE DEF S
    <2> QED BY <1>14, RerankIsFair
  <1>16. ranked \in Seq(DOMAIN corpus)
    BY <1>1, <1>15 DEF RanksFairly
  <1>17. SearchInMemory(corpus, sims, question, top_k) =
            [i \in DOMAIN ranked |-> [chunk |-> ranked[i], text |-> corpus[ranked[i]]]]
    BY Zenon DEF SearchInMemory, ranked, cut, score, words, overlap, phrase, keyword, sorted, hits, docs
  <1> HIDE DEF ranked
  <1> QED BY <1>16, <1>17 DEF FoundIn

(* What is ordered by similarity, in either direction. *)
LEMMA OrdersAreArms ==
    ASSUME NEW corpus \in Corpora, NEW sims \in Orders, Len(sims) = Len(corpus)
    PROVE  /\ corpus \in Seq(Texts)
           /\ sims \in Seq(1..Len(corpus)) /\ Len(sims) <= Len(corpus) /\ IsInjective(sims)
  <1>1. PICK m \in 0..MaxCorpus : corpus \in [1..m -> Texts]
    BY DEF Corpora, BoundedSeq, SeqOf
  <1>2. corpus \in Seq(Texts) /\ Len(corpus) = m /\ m \in Nat
    BY <1>1
  <1>3. PICK n \in 0..MaxCorpus : sims = [i \in 1..n |-> i] \/ sims = [i \in 1..n |-> n + 1 - i]
    BY DEF Orders
  <1>4. sims \in [1..n -> 1..n] /\ n \in Nat /\ IsInjective(sims)
    BY <1>3 DEF IsInjective
  <1>5. n = m
    BY <1>2, <1>4
  <1> QED BY <1>2, <1>4, <1>5

-----------------------------------------------------------------------------
(* A text: a sequence of finite sets. *)
IsText(text) ==
    /\ Len(text) \in Nat /\ text = [i \in 1..Len(text) |-> text[i]]
    /\ \A i \in 1..Len(text) : IsFiniteSet(text[i])

Markers == {"1", "2", "3"}

LEMMA ThreeOf ==
    ASSUME NEW a, NEW b, NEW c
    PROVE  IsFiniteSet({a, b, c}) /\ Cardinality({a, b, c}) <= 3
  <1>1. IsFiniteSet({a}) /\ Cardinality({a}) = 1
    BY FS_Singleton
  <1>2. IsFiniteSet({a} \cup {b}) /\ Cardinality({a} \cup {b}) <= 2
    BY <1>1, FS_AddElement
  <1>3. Cardinality({a} \cup {b}) \in Nat
    BY <1>2, FS_CardinalityType
  <1>4. /\ IsFiniteSet(({a} \cup {b}) \cup {c})
        /\ Cardinality(({a} \cup {b}) \cup {c}) <= 3
    <2> DEFINE ab == {a} \cup {b}
    <2> HIDE DEF ab
    <2>1. IsFiniteSet(ab) /\ Cardinality(ab) \in Nat /\ Cardinality(ab) <= 2
      BY <1>2, <1>3 DEF ab
    <2>2. /\ IsFiniteSet(ab \cup {c})
          /\ \/ Cardinality(ab \cup {c}) = Cardinality(ab)
             \/ Cardinality(ab \cup {c}) = Cardinality(ab) + 1
      BY <2>1, FS_AddElement
    <2>3. Cardinality(ab \cup {c}) <= 3
      BY <2>1, <2>2
    <2> QED BY <2>2, <2>3 DEF ab
  <1>5. {a, b, c} = ({a} \cup {b}) \cup {c}
    OBVIOUS
  <1> QED BY <1>4, <1>5

(* What is left of the words of a text: digits for markers, and no more.   *)
LEMMA ContentIs ==
    /\ ToSet(MarkerWord) = {"[1]", "[2]", "[3]"} /\ DOMAIN MarkerWord = {1, 2, 3}
    /\ \A words, w : w \in Content(words) <=>
         \/ w \in words \ {"[1]", "[2]", "[3]"}
         \/ w = "1" /\ "[1]" \in words
         \/ w = "2" /\ "[2]" \in words
         \/ w = "3" /\ "[3]" \in words
  <1>1. DOMAIN MarkerWord = {1, 2, 3} /\ MarkerWord[1] = "[1]" /\ MarkerWord[2] = "[2]"
        /\ MarkerWord[3] = "[3]"
    BY DEF MarkerWord
  <1>2. Digit[1] = "1" /\ Digit[2] = "2" /\ Digit[3] = "3"
    BY DEF Digit
  <1>3. ToSet(MarkerWord) = {"[1]", "[2]", "[3]"}
    BY <1>1 DEF ToSet
  <1>4. ASSUME NEW words, NEW w
        PROVE  w \in Content(words) <=>
                 \/ w \in words \ {"[1]", "[2]", "[3]"}
                 \/ w = "1" /\ "[1]" \in words
                 \/ w = "2" /\ "[2]" \in words
                 \/ w = "3" /\ "[3]" \in words
    <2>1. w \in Content(words) <=>
            \/ w \in words \ ToSet(MarkerWord)
            \/ \E m \in DOMAIN MarkerWord : MarkerWord[m] \in words /\ w = Digit[m]
      BY DEF Content
    <2> QED BY <1>1, <1>2, <1>3, <2>1
  <1> QED BY <1>1, <1>3, <1>4

LEMMA ContentKeeps ==
    ASSUME NEW words
    PROVE  /\ IsFiniteSet(words) => IsFiniteSet(Content(words))
           /\ \A more : words \subseteq more => Content(words) \subseteq Content(more)
           /\ Content(words) \subseteq words \cup Markers
  <1>1. Content(words) \subseteq words \cup Markers
    BY ContentIs DEF Markers
  <1>2. ASSUME IsFiniteSet(words) PROVE IsFiniteSet(Content(words))
    <2>1. IsFiniteSet(words \cup Markers)
      BY <1>2, ThreeOf, FS_Union DEF Markers
    <2>2. Content(words) \in SUBSET (words \cup Markers)
      BY <1>1
    <2> QED BY <2>1, <2>2, FS_Subset
  <1>3. \A more : words \subseteq more => Content(words) \subseteq Content(more)
    BY ContentIs
  <1> QED BY <1>1, <1>2, <1>3

(* A scan keeps the sentences in their places; what it redacts, it found;  *)
(* and it finds no markers that were not there.                            *)
LEMMA ScanKeeps ==
    ASSUME NEW text, IsText(text)
    PROVE  /\ IsText(Scan(text)) /\ (HasMarkers(Scan(text)) => HasMarkers(text))
           /\ "redacted" \in WordsOf(Scan(text)) /\ "redacted" \notin WordsOf(text)
                => "override" \in WordsOf(text)
  <1> DEFINE n == Len(text)
             Redacted(s) == IF "override" \in s THEN (s \ {"override"}) \cup {"redacted"} ELSE s
             scan == [i \in 1..n |-> Redacted(text[i])]
  <1>1. n \in Nat /\ DOMAIN text = 1..n /\ \A i \in 1..n : IsFiniteSet(text[i])
    BY DEF IsText
  <1>2. Scan(text) = scan
    BY <1>1 DEF Scan
  <1>3. ASSUME NEW s, IsFiniteSet(s) PROVE IsFiniteSet(Redacted(s))
    <2>1. IsFiniteSet(s \ {"override"})
      BY <1>3, FS_RemoveElement
    <2>2. IsFiniteSet((s \ {"override"}) \cup {"redacted"})
      BY <2>1, FS_AddElement
    <2> QED BY <1>3, <2>2
  <1>4. ASSUME "redacted" \in WordsOf(Scan(text)), "redacted" \notin WordsOf(text)
        PROVE  "override" \in WordsOf(text)
    <2>1. PICK i \in 1..n : "redacted" \in Redacted(text[i])
      <3> HIDE DEF Redacted
      <3> QED BY <1>2, <1>4 DEF WordsOf, ToSet
    <2>2. text[i] \subseteq WordsOf(text)
      BY <1>1 DEF WordsOf, ToSet
    <2> QED BY <1>4, <2>1, <2>2
  <1>9. ASSUME HasMarkers(Scan(text)) PROVE HasMarkers(text)
    <2>1. PICK m \in DOMAIN MarkerWord, i \in 1..n : MarkerWord[m] \in Redacted(text[i])
      <3> HIDE DEF Redacted
      <3> QED BY <1>2, <1>9 DEF HasMarkers, WordsOf, ToSet
    <2>2. MarkerWord[m] # "redacted"
      <3>1. MarkerWord[m] \in ToSet(MarkerWord)
        BY DEF ToSet
      <3> QED BY <3>1, ContentIs
    <2>3. MarkerWord[m] \in text[i]
      BY <2>1, <2>2
    <2>4. text[i] \subseteq WordsOf(text)
      BY <1>1 DEF WordsOf, ToSet
    <2> QED BY <2>3, <2>4 DEF HasMarkers
  <1> HIDE DEF Redacted
  <1>5. Len(scan) = n /\ \A i \in 1..n : scan[i] = Redacted(text[i])
    BY <1>1
  <1>6. scan = [i \in 1..Len(scan) |-> scan[i]]
    BY <1>5
  <1>7. \A i \in 1..Len(scan) : IsFiniteSet(scan[i])
    BY <1>1, <1>3, <1>5
  <1>8. IsText(scan)
    <2> HIDE DEF scan
    <2> QED BY <1>1, <1>5, <1>6, <1>7 DEF IsText
  <1> QED BY <1>2, <1>4, <1>8, <1>9

(* _best_sentence gives one of the sentences, if there is any. *)
LEMMA BestIsSentence ==
    ASSUME NEW text, IsText(text), NEW question
    PROVE  /\ BestSentence(text, question) \subseteq WordsOf(text)
           /\ IsFiniteSet(BestSentence(text, question))
  <1> DEFINE n       == Len(text)
             v       == [i \in 1..n |-> Cardinality(Content(text[i]) \cap question)]
             best(i) == \A j \in 1..n : v[j] < v[i] \/ (v[j] = v[i] /\ i <= j)
  <1>1. n \in Nat /\ DOMAIN text = 1..n /\ \A i \in 1..n : IsFiniteSet(text[i])
    BY DEF IsText
  <1>2. CASE text = <<>>
    BY <1>2, FS_EmptySet DEF BestSentence
  <1>3. CASE text # <<>>
    <2>1. v \in [1..n -> Int]
      <3> SUFFICES ASSUME NEW i \in 1..n PROVE Cardinality(Content(text[i]) \cap question) \in Int
        OBVIOUS
      <3>1. IsFiniteSet(Content(text[i]) \cap question)
        BY <1>1, ContentKeeps, FS_Intersection
      <3> QED BY <3>1, FS_CardinalityType
    <2>2. BestSentence(text, question) = text[CHOOSE i \in 1..n : best(i)]
      BY <1>1, <1>3 DEF BestSentence
    <2> HIDE DEF v
    <2>3. PICK place \in [1..n -> 1..n], order \in [1..n -> 1..n] :
              /\ \A i \in 1..n : place[order[i]] = i
              /\ \A i, j \in 1..n : place[i] < place[j] <=> Ahead(v, i, j)
      BY <1>1, <2>1, EveryPlaceIsTaken
    <2>4. 1 \in 1..n
      BY <1>1, <1>3
    <2>5. best(order[1])
      <3> SUFFICES ASSUME NEW j \in 1..n
                   PROVE  v[j] < v[order[1]] \/ (v[j] = v[order[1]] /\ order[1] <= j)
        OBVIOUS
      <3>1. order[1] \in 1..n /\ place[order[1]] = 1 /\ place[j] \in 1..n
        BY <2>3, <2>4
      <3>2. ~(place[j] < place[order[1]])
        BY <3>1
      <3>3. ~Ahead(v, j, order[1])
        BY <2>3, <3>1, <3>2
      <3>4. v[j] \in Int /\ v[order[1]] \in Int /\ order[1] \in Int /\ j \in Int
        BY <1>1, <2>1, <3>1
      <3> QED BY <3>3, <3>4 DEF Ahead
    <2> HIDE DEF best
    <2>6. \E i \in 1..n : best(i)
      <3>1. order[1] \in 1..n
        BY <2>3, <2>4
      <3> QED BY <2>5, <3>1
    <2>7. PICK i \in 1..n : BestSentence(text, question) = text[i]
      BY <2>2, <2>6
    <2>8. IsFiniteSet(text[i])
      BY <1>1, <2>7
    <2>9. text[i] \in ToSet(text)
      BY <1>1 DEF ToSet
    <2> QED BY <2>7, <2>8, <2>9 DEF WordsOf
  <1> QED BY <1>2, <1>3

LEMMA BetweenTwo ==
    ASSUME NEW a, NEW d, NEW l \in Nat, NEW f, f = [i \in 1..l |-> f[i]]
    PROVE  LET e == <<a>> \o f \o <<d>>
           IN  Len(e) = l + 2 /\ e[1] = a /\ \A i \in 1..l : e[i + 1] = f[i]
  <1> DEFINE S == {a, d} \cup {f[i] : i \in 1..l}
  <1>1. f \in Seq(S) /\ Len(f) = l
    OBVIOUS
  <1>2. <<a>> \in Seq(S) /\ <<d>> \in Seq(S)
    OBVIOUS
  <1> HIDE DEF S
  <1>3. /\ (<<a>> \o f) \in Seq(S) /\ Len(<<a>> \o f) = l + 1
        /\ (<<a>> \o f)[1] = a /\ \A i \in 1..l : (<<a>> \o f)[i + 1] = f[i]
    BY <1>1, <1>2
  <1> DEFINE g == <<a>> \o f
  <1> HIDE DEF g
  <1>4. g \in Seq(S) /\ Len(g) = l + 1 /\ g[1] = a /\ \A i \in 1..l : g[i + 1] = f[i]
    BY <1>3 DEF g
  <1>5. Len(g \o <<d>>) = l + 2 /\ \A i \in 1..l + 1 : (g \o <<d>>)[i] = g[i]
    BY <1>2, <1>4
  <1>6. \A i \in 1..l : i + 1 \in 1..l + 1 /\ 1 \in 1..l + 1
    OBVIOUS
  <1>7. 1 \in 1..l + 1
    OBVIOUS
  <1> QED BY <1>4, <1>5, <1>6, <1>7 DEF g

(* A piece of an answer is of the fixed wording, if it is the first, or it *)
(* quotes one of the first passages and cites that.                        *)
Wording(n) == IF n = 0 THEN NotFound ELSE LeadIn

Quotes(tokens, n, texts, question) ==
    /\ Len(tokens) \in Nat \ {0} /\ DOMAIN tokens = 1..Len(tokens)
    /\ tokens[1] = Wording(n)
    /\ \A i \in 2..Len(tokens) :
         \E k \in 1..n : /\ k <= MaxPassagesInAnswer
                         /\ tokens[i] = BestSentence(texts[k], question) \cup {MarkerWord[k]}

LEMMA PiecesQuote ==
    ASSUME NEW n \in Nat, NEW prompt, NEW texts, NEW question,
           prompt = [i \in 1..n |-> prompt[i]],
           \A i \in 1..n : prompt[i].marker = i /\ prompt[i].text = texts[i]
    PROVE  Quotes(Compose(prompt, question), n, texts, question)
  <1> DEFINE S    == {prompt[i] : i \in 1..n}
             head == FirstOf(prompt, MaxPassagesInAnswer)
             body == [i \in DOMAIN head |->
                        BestSentence(prompt[i].text, question) \cup {MarkerWord[prompt[i].marker]}]
  <1>1. prompt \in Seq(S) /\ Len(prompt) = n
    OBVIOUS
  <1>2. CASE prompt = <<>>
    <2> DEFINE tokens == <<NotFound>>
    <2>1. Compose(prompt, question) = tokens
      BY <1>2 DEF Compose
    <2>2. n = 0
      BY <1>2
    <2>3. Len(tokens) = 1 /\ DOMAIN tokens = 1..1 /\ tokens[1] = NotFound
      OBVIOUS
    <2> HIDE DEF tokens
    <2>4. Quotes(tokens, n, texts, question)
      BY <2>2, <2>3 DEF Quotes, Wording
    <2> QED BY <2>1, <2>4
  <1>3. CASE prompt # <<>>
    <2>1. Compose(prompt, question) = <<LeadIn>> \o body
      BY <1>3 DEF Compose
    <2>2. PICK h \in Nat : h <= n /\ h <= MaxPassagesInAnswer /\ DOMAIN head = 1..h
      <3>1. MaxPassagesInAnswer \in Nat
        BY DEF MaxPassagesInAnswer
      <3> HIDE DEF S
      <3>2. DOMAIN head = 1..(IF MaxPassagesInAnswer < n THEN MaxPassagesInAnswer ELSE n)
        BY <1>1, <3>1, FirstOfKeeps
      <3> DEFINE l == IF MaxPassagesInAnswer < n THEN MaxPassagesInAnswer ELSE n
      <3>3. l \in Nat /\ l <= n /\ l <= MaxPassagesInAnswer
        BY <3>1
      <3> HIDE DEF head
      <3> QED BY <3>2, <3>3
    <2>3. body = [i \in 1..h |-> body[i]]
      BY <2>2
    <2>4. \A i \in 1..h : body[i] = BestSentence(texts[i], question) \cup {MarkerWord[i]}
      <3> SUFFICES ASSUME NEW i \in 1..h
                   PROVE  body[i] = BestSentence(texts[i], question) \cup {MarkerWord[i]}
        OBVIOUS
      <3>1. i \in 1..n /\ i \in DOMAIN head
        BY <2>2
      <3>2. prompt[i].marker = i /\ prompt[i].text = texts[i]
        BY <3>1
      <3> HIDE DEF head
      <3> QED BY <3>1, <3>2
    <2> HIDE DEF head, body, S
    <2> DEFINE V == {LeadIn} \cup {body[i] : i \in 1..h}
    <2>5. <<LeadIn>> \in Seq(V) /\ body \in Seq(V) /\ Len(body) = h
      BY <2>3
    <2> HIDE DEF V
    <2> DEFINE tokens == <<LeadIn>> \o body
    <2>6. /\ tokens \in Seq(V) /\ Len(tokens) = h + 1
          /\ tokens[1] = LeadIn /\ \A i \in 1..h : tokens[i + 1] = body[i]
      BY <2>5
    <2>7. tokens = Compose(prompt, question)
      BY <2>1
    <2> HIDE DEF tokens
    <2>8. tokens[1] = Wording(n)
      <3>1. n # 0
        BY <1>1, <1>3
      <3> QED BY <2>6, <3>1 DEF Wording
    <2>9. ASSUME NEW i \in 2..Len(tokens)
          PROVE  \E k \in 1..n :
                    /\ k <= MaxPassagesInAnswer
                    /\ tokens[i] = BestSentence(texts[k], question) \cup {MarkerWord[k]}
      <3> DEFINE k == i - 1
      <3>1. k \in 1..h /\ i = k + 1
        BY <2>6
      <3> HIDE DEF k
      <3>2. tokens[i] = BestSentence(texts[k], question) \cup {MarkerWord[k]}
        BY <2>4, <2>6, <3>1
      <3>3. k \in 1..n /\ k <= MaxPassagesInAnswer
        BY <2>2, <3>1 DEF MaxPassagesInAnswer
      <3> QED BY <3>2, <3>3
    <2>10. Len(tokens) \in Nat \ {0} /\ DOMAIN tokens = 1..Len(tokens)
      BY <2>6
    <2>11. Quotes(tokens, n, texts, question)
      BY <2>8, <2>9, <2>10 DEF Quotes
    <2> QED BY <2>7, <2>11
  <1> QED BY <1>2, <1>3

(* The marker that ends a piece resolves, whatever the passages say, and   *)
(* it is the only one if none of them says "[n]" itself. A passage as it   *)
(* is quoted has a redacted word only if the guard put it there, and then  *)
(* the stream says so in its first event.                                  *)
THEOREM StreamCites ==
    ASSUME NEW corpus, NEW question, NEW found, FoundIn(found, corpus),
           \A c \in DOMAIN corpus : IsText(corpus[c]) /\ "redacted" \notin WordsOf(corpus[c])
    PROVE  Cites(Stream(found, question), found, corpus)
  <1>1. PICK ranked \in Seq(DOMAIN corpus) :
            found = [i \in DOMAIN ranked |-> [chunk |-> ranked[i], text |-> corpus[ranked[i]]]]
    BY DEF FoundIn
  <1> DEFINE n       == Len(ranked)
             texts   == [i \in 1..n |-> Scan(corpus[ranked[i]])]
             prompt  == Prompt(Sanitized(found))
             tokens  == Compose(prompt, question)
             flagged == Flagged([i \in DOMAIN found |-> found[i].text])
             first   == [type |-> "sources", citations |-> Citations(prompt), flagged |-> flagged]
             sent    == [i \in DOMAIN tokens |-> [type |-> "token", text |-> tokens[i]]]
             events  == Stream(found, question)
  <1>2. n \in Nat /\ DOMAIN ranked = 1..n /\ \A i \in 1..n : ranked[i] \in DOMAIN corpus
    OBVIOUS
  <1>3. /\ DOMAIN found = 1..n
        /\ \A i \in 1..n : found[i] = [chunk |-> ranked[i], text |-> corpus[ranked[i]]]
    BY <1>1, <1>2
  <1>4. Sanitized(found) = [i \in 1..n |-> [chunk |-> ranked[i], text |-> texts[i]]]
    BY <1>3 DEF Sanitized
  <1>5. prompt = [i \in 1..n |-> [marker |-> i, chunk |-> ranked[i], text |-> texts[i]]]
    <2> HIDE DEF texts
    <2> QED BY <1>4 DEF Prompt
  <1>6. Citations(prompt) = [i \in 1..n |-> [marker |-> i, chunk |-> ranked[i]]]
    <2> HIDE DEF texts, prompt
    <2> QED BY <1>5 DEF Citations
  <1>7. Quotes(tokens, n, texts, question)
    <2> HIDE DEF texts, prompt
    <2>1. /\ prompt = [i \in 1..n |-> prompt[i]]
          /\ \A i \in 1..n : prompt[i].marker = i /\ prompt[i].text = texts[i]
      BY <1>5
    <2> QED BY <1>2, <2>1, PiecesQuote
  <1>8. events = <<first>> \o sent \o << [type |-> "done"] >>
    BY DEF Stream
  <1> DEFINE l == Len(tokens)
  <1> HIDE DEF prompt, tokens, flagged, events
  <1>9. /\ l \in Nat \ {0} /\ DOMAIN tokens = 1..l /\ tokens[1] = Wording(n)
        /\ \A j \in 2..l :
             \E k \in 1..n : /\ k <= MaxPassagesInAnswer
                             /\ tokens[j] = BestSentence(texts[k], question) \cup {MarkerWord[k]}
    BY <1>7 DEF Quotes
  <1>10. /\ Len(events) = l + 2 /\ events[1] = first
         /\ \A i \in 1..l : events[i + 1].text = tokens[i]
    <2>1. l \in Nat /\ sent = [i \in 1..l |-> sent[i]] /\ \A i \in 1..l : sent[i].text = tokens[i]
      BY <1>9
    <2> HIDE DEF l, sent, first
    <2>2. /\ Len(events) = l + 2 /\ events[1] = first
          /\ \A i \in 1..l : events[i + 1] = sent[i]
      BY <1>8, <2>1, BetweenTwo
    <2> QED BY <2>1, <2>2
  <1> HIDE DEF l, sent
  <1>11. ASSUME NEW k \in 1..n
         PROVE  /\ BestSentence(texts[k], question) \subseteq WordsOf(Scan(corpus[ranked[k]]))
                /\ "redacted" \in BestSentence(texts[k], question) => flagged
                /\ (\A p \in DOMAIN found : ~HasMarkers(found[p].text)) =>
                     \A m \in DOMAIN MarkerWord :
                         MarkerWord[m] \notin BestSentence(texts[k], question)
    <2> DEFINE text == corpus[ranked[k]]
               best == BestSentence(Scan(text), question)
    <2>1. IsText(text) /\ "redacted" \notin WordsOf(text)
      BY <1>2
    <2>2. texts[k] = Scan(text)
      OBVIOUS
    <2>3. found[k].text = text /\ k \in DOMAIN found
      BY <1>3
    <2> HIDE DEF text, texts
    <2>4. /\ IsText(Scan(text)) /\ (HasMarkers(Scan(text)) => HasMarkers(text))
          /\ "redacted" \in WordsOf(Scan(text)) => "override" \in WordsOf(text)
      BY <2>1, ScanKeeps
    <2>5. best \subseteq WordsOf(Scan(text))
      BY <2>4, BestIsSentence
    <2>6. "override" \in WordsOf(text) => flagged
      BY <2>3 DEF flagged, Flagged
    <2> HIDE DEF best
    <2>7. ASSUME \A p \in DOMAIN found : ~HasMarkers(found[p].text)
          PROVE  \A m \in DOMAIN MarkerWord : MarkerWord[m] \notin best
      <3>1. ~HasMarkers(Scan(text))
        BY <2>3, <2>4, <2>7
      <3> QED BY <2>5, <3>1 DEF HasMarkers
    <2> QED BY <2>2, <2>4, <2>5, <2>6, <2>7 DEF text, best
  <1> DEFINE plain == \A p \in DOMAIN found : ~HasMarkers(found[p].text)
             pieces == 2..Len(events) - 1
             resolves(i, m) == /\ MarkerWord[m] \in events[i].text
                               /\ Resolves(events[i].text, m, events[1], corpus)
  <1>12. ASSUME NEW j \in 2..l
         PROVE  \E k \in DOMAIN MarkerWord :
                    /\ resolves(j + 1, k)
                    /\ plain => \A m \in DOMAIN MarkerWord :
                                   MarkerWord[m] \in events[j + 1].text => m = k
    <2>1. PICK k \in 1..n :
              /\ k <= MaxPassagesInAnswer
              /\ tokens[j] = BestSentence(texts[k], question) \cup {MarkerWord[k]}
      BY <1>9
    <2>2. k \in DOMAIN MarkerWord
      <3>1. k = 1 \/ k = 2 \/ k = 3
        BY <1>2, <2>1 DEF MaxPassagesInAnswer
      <3> QED BY <3>1, ContentIs
    <2>3. events[j + 1].text = tokens[j]
      <3>1. j \in 1..l
        BY <1>9
      <3> QED BY <1>10, <3>1
    <2> DEFINE c == [marker |-> k, chunk |-> ranked[k]]
               best == BestSentence(texts[k], question)
    <2>4. events[1].citations = Citations(prompt) /\ events[1].flagged = flagged
      BY <1>10
    <2>5. c \in ToSet(events[1].citations)
      BY <1>6, <2>4 DEF ToSet
    <2>6. c.marker = k /\ c.chunk = ranked[k]
      OBVIOUS
    <2>7. /\ best \subseteq WordsOf(Scan(corpus[ranked[k]]))
          /\ "redacted" \in best => flagged
          /\ plain => \A m \in DOMAIN MarkerWord : MarkerWord[m] \notin best
      BY <1>11
    <2> HIDE DEF c, best, texts, first, plain
    <2>8. events[j + 1].text = best \cup {MarkerWord[k]}
      BY <2>1, <2>3 DEF best
    <2>9. MarkerWord[k] # "redacted"
      <3>1. MarkerWord[k] \in ToSet(MarkerWord)
        BY <2>2 DEF ToSet
      <3> QED BY <3>1, ContentIs
    <2>10. Resolves(events[j + 1].text, k, events[1], corpus)
      <3>1. events[j + 1].text \ {MarkerWord[k]} \subseteq WordsOf(Scan(corpus[c.chunk]))
        BY <2>6, <2>7, <2>8
      <3>2. "redacted" \in events[j + 1].text => events[1].flagged
        BY <2>4, <2>7, <2>8, <2>9
      <3> QED BY <2>5, <2>6, <3>1, <3>2 DEF Resolves
    <2>11. resolves(j + 1, k)
      BY <2>8, <2>10
    <2>12. ASSUME plain, NEW m \in DOMAIN MarkerWord, MarkerWord[m] \in events[j + 1].text
           PROVE  m = k
      <3>1. MarkerWord[m] = MarkerWord[k]
        BY <2>7, <2>8, <2>12
      <3> QED BY <2>2, <3>1 DEF MarkerWord
    <2> QED BY <2>2, <2>11, <2>12
  <1>13. ASSUME NEW m \in DOMAIN MarkerWord PROVE MarkerWord[m] \notin events[2].text
    <2>1. events[2].text = Wording(n)
      <3>1. 1 \in 1..l /\ 1 + 1 = 2
        BY <1>9
      <3> QED BY <1>9, <1>10, <3>1
    <2>2. MarkerWord[m] \in {"[1]", "[2]", "[3]"}
      BY ContentIs DEF ToSet
    <2> QED BY <2>1, <2>2 DEF Wording, LeadIn, NotFound
  <1>14. ASSUME NEW i \in pieces, i # 2 PROVE i - 1 \in 2..l /\ (i - 1) + 1 = i
    BY <1>9, <1>10, <1>14
  <1>15. ASSUME NEW i \in pieces \ {2} PROVE \E m \in DOMAIN MarkerWord : resolves(i, m)
    <2> DEFINE j == i - 1
    <2>1. j \in 2..l /\ j + 1 = i
      BY <1>14
    <2> HIDE DEF j, resolves, plain
    <2> QED BY <1>12, <2>1
  <1>16. ASSUME plain, NEW i \in pieces, NEW m \in DOMAIN MarkerWord,
                MarkerWord[m] \in events[i].text
         PROVE  resolves(i, m)
    <2>1. i # 2
      BY <1>13, <1>16
    <2> DEFINE j == i - 1
    <2>2. j \in 2..l /\ j + 1 = i
      BY <1>14, <2>1
    <2> HIDE DEF j, resolves, plain
    <2> QED BY <1>12, <1>16, <2>2
  <1>17. Cites(events, found, corpus)
    <2> HIDE DEF first, texts
    <2> QED BY <1>15, <1>16 DEF Cites
  <1> QED BY <1>17 DEF events

(* What is found for the question of a case. *)
LEMMA CorpusIsSearched ==
    ASSUME input \in AnswerInputs
    PROVE  /\ FoundIn(SearchInMemory(input.corpus, input.sims, Question, input.top_k),
                      input.corpus)
           /\ \A c \in DOMAIN input.corpus :
                  IsText(input.corpus[c]) /\ "redacted" \notin WordsOf(input.corpus[c])
  <1> DEFINE corpus == input.corpus
             sims   == input.sims
             top_k  == input.top_k
             found  == SearchInMemory(corpus, sims, Question, top_k)
  <1>1. /\ corpus \in Corpora /\ sims \in Orders /\ Len(sims) = Len(corpus)
        /\ top_k \in {1, MaxCorpus}
    BY DEF AnswerInputs
  <1>2. top_k \in Nat
    BY <1>1, AlgorithmsAssumption
  <1>3. IsFiniteSet(Question)
    BY FS_Singleton DEF Question
  <1> HIDE DEF corpus, sims, top_k
  <1>4. /\ corpus \in Seq(Texts)
        /\ sims \in Seq(1..Len(corpus)) /\ Len(sims) <= Len(corpus) /\ IsInjective(sims)
    BY <1>1, OrdersAreArms
  <1>5. FoundIn(found, corpus)
    BY <1>2, <1>3, <1>4, SearchFinds
  <1>6. ASSUME NEW c \in DOMAIN corpus
        PROVE  IsText(corpus[c]) /\ "redacted" \notin WordsOf(corpus[c])
    <2>1. corpus[c] \in Texts
      BY <1>4
    <2>2. corpus[c] \in Seq(Sentences) /\ "redacted" \notin WordsOf(corpus[c])
      BY <2>1, TextsAssumption
    <2>3. \A text \in Seq(Sentences) : IsText(text)
      BY DEF IsText, Sentences
    <2> QED BY <2>2, <2>3
  <1> HIDE DEF found
  <1> QED BY <1>5, <1>6 DEF corpus, sims, top_k, found

(* What the answer to a question cites. *)
LEMMA AnswerIsComputed ==
    ASSUME input \in AnswerInputs, ComputeAnswer
    PROVE  AnswersCiteTheirSources'
  <1> DEFINE corpus == input.corpus
             found  == SearchInMemory(corpus, input.sims, Question, input.top_k)
             events == Stream(found, Question)
  <1>1. input'.corpus = corpus /\ output'.events = events /\ output'.found = found
    BY DEF ComputeAnswer, Compute
  <1>2. /\ FoundIn(found, corpus)
        /\ \A c \in DOMAIN corpus : IsText(corpus[c]) /\ "redacted" \notin WordsOf(corpus[c])
    BY CorpusIsSearched
  <1> HIDE DEF corpus, found
  <1>3. Cites(events, found, corpus)
    BY <1>2, StreamCites
  <1> HIDE DEF events
  <1> QED BY <1>1, <1>3 DEF AnswersCiteTheirSources

(* GENERATION.md: see AnswersCiteTheirSources. *)
THEOREM AnswersAreCited ==
    Spec => []AnswersCiteTheirSources
  <1>1. Init => AnswersCiteTheirSources
    BY DEF Init, AnswersCiteTheirSources, Computed
  <1>2. Given /\ AnswersCiteTheirSources /\ [Next]_vars => AnswersCiteTheirSources'
    <2>1. CASE UNCHANGED vars
      BY <2>1 DEF vars, AnswersCiteTheirSources, Computed
    <2>2. ASSUME Given, Next, input.of = "answer" PROVE AnswersCiteTheirSources'
      BY <2>2, GivenKinds, StepComputes, AnswerIsComputed
    <2>3. ASSUME Next, input.of # "answer" PROVE AnswersCiteTheirSources'
      <3>1. ~Computed("answer")'
        BY <2>3, StepComputes DEF Computed
      <3> QED BY <3>1 DEF AnswersCiteTheirSources
    <2> QED BY <2>1, <2>2, <2>3
  <1> QED BY <1>1, <1>2, GivenStays, PTL DEF Spec

-----------------------------------------------------------------------------
LEMMA FiniteTogether ==
    ASSUME NEW n \in Nat, NEW f, f = [i \in 1..n |-> f[i]],
           \A i \in 1..n : IsFiniteSet(f[i])
    PROVE  IsFiniteSet(UNION {f[i] : i \in 1..n})
  <1> DEFINE T == {f[i] : i \in 1..n}
  <1>1. IsFiniteSet(1..n)
    <2> DEFINE one == 1
    <2>1. one \in Int /\ n \in Int
      OBVIOUS
    <2> HIDE DEF one
    <2>2. IsFiniteSet(one..n)
      BY <2>1, FS_Interval
    <2> QED BY <2>2 DEF one
  <1>2. f \in Surjection(1..n, T)
    BY DEF Surjection
  <1>3. IsFiniteSet(T)
    <2> HIDE DEF T
    <2> QED BY <1>1, <1>2, FS_Surjection
  <1>4. \A t \in T : IsFiniteSet(t)
    OBVIOUS
  <1> HIDE DEF T
  <1>5. IsFiniteSet(UNION T)
    BY <1>3, <1>4, FS_UNION
  <1> QED BY <1>5 DEF T

LEMMA FixedWords ==
    /\ IsFiniteSet(LeadIn) /\ IsFiniteSet(NotFound)
    /\ IsFiniteSet(Markers) /\ Cardinality(Markers) <= 3
  <1>1. IsFiniteSet(LeadIn)
    BY ThreeOf DEF LeadIn
  <1>2. IsFiniteSet(Markers) /\ Cardinality(Markers) <= 3
    BY ThreeOf DEF Markers
  <1>3. /\ IsFiniteSet({"i", "not", "find"})
        /\ IsFiniteSet({"relevant", "information", "retrieved"})
        /\ IsFiniteSet({"context", "answer", "answer"})
    BY ThreeOf
  <1>4. NotFound = ({"i", "not", "find"} \cup {"relevant", "information", "retrieved"})
                     \cup {"context", "answer", "answer"}
    BY DEF NotFound
  <1>5. IsFiniteSet({"i", "not", "find"} \cup {"relevant", "information", "retrieved"})
    BY <1>3, FS_Union
  <1> QED BY <1>1, <1>2, <1>3, <1>4, <1>5, FS_Union

(* Of the words of an answer only the fixed ones lack support. *)
LEMMA WordsAreSupported ==
    ASSUME NEW corpus, NEW question, NEW found, FoundIn(found, corpus),
           \A c \in DOMAIN corpus : IsText(corpus[c])
    PROVE  LET contexts == Sanitized(found)
               answer   == AnswerWords(Compose(Prompt(contexts), question))
           IN  /\ IsFiniteSet(answer)
               /\ found # <<>> => answer \ Supported(contexts) \subseteq LeadIn \cup Markers
               /\ found = <<>> => answer = NotFound /\ contexts = <<>> /\ Supported(contexts) = {}
  <1>1. PICK ranked \in Seq(DOMAIN corpus) :
            found = [i \in DOMAIN ranked |-> [chunk |-> ranked[i], text |-> corpus[ranked[i]]]]
    BY DEF FoundIn
  <1> DEFINE n        == Len(ranked)
             texts    == [i \in 1..n |-> Scan(corpus[ranked[i]])]
             contexts == Sanitized(found)
             prompt   == Prompt(contexts)
             tokens   == Compose(prompt, question)
             said     == [i \in 1..Len(tokens) |-> Content(tokens[i])]
             answer   == AnswerWords(tokens)
  <1>2. n \in Nat /\ DOMAIN ranked = 1..n /\ \A i \in 1..n : ranked[i] \in DOMAIN corpus
    OBVIOUS
  <1>3. /\ DOMAIN found = 1..n
        /\ \A i \in 1..n : found[i] = [chunk |-> ranked[i], text |-> corpus[ranked[i]]]
    BY <1>1, <1>2
  <1>4. contexts = [i \in 1..n |-> [chunk |-> ranked[i], text |-> texts[i]]]
    BY <1>3 DEF Sanitized
  <1>5. \A i \in 1..n : IsText(texts[i])
    <2> SUFFICES ASSUME NEW i \in 1..n PROVE IsText(Scan(corpus[ranked[i]]))
      OBVIOUS
    <2> QED BY <1>2, ScanKeeps
  <1> HIDE DEF texts
  <1>6. prompt = [i \in 1..n |-> [marker |-> i, chunk |-> ranked[i], text |-> texts[i]]]
    <2> HIDE DEF contexts
    <2> QED BY <1>4 DEF Prompt
  <1>7. Quotes(tokens, n, texts, question)
    <2> HIDE DEF prompt
    <2>1. /\ prompt = [i \in 1..n |-> prompt[i]]
          /\ \A i \in 1..n : prompt[i].marker = i /\ prompt[i].text = texts[i]
      BY <1>6
    <2> QED BY <1>2, <2>1, PiecesQuote
  <1>8. \A k \in 1..n : Content(WordsOf(texts[k])) \subseteq Supported(contexts)
    <2> HIDE DEF contexts
    <2> QED BY <1>4 DEF Supported
  <1> HIDE DEF tokens
  <1>16. /\ Len(tokens) \in Nat \ {0} /\ DOMAIN tokens = 1..Len(tokens)
         /\ tokens[1] = Wording(n)
         /\ \A i \in 2..Len(tokens) :
              \E k \in 1..n : /\ k <= MaxPassagesInAnswer
                              /\ tokens[i] = BestSentence(texts[k], question) \cup {MarkerWord[k]}
    BY <1>7 DEF Quotes
  <1>9. ASSUME NEW i \in 1..Len(tokens)
        PROVE  /\ IsFiniteSet(said[i])
               /\ n = 0 => said[i] = NotFound
               /\ n # 0 => said[i] \subseteq Supported(contexts) \cup LeadIn \cup Markers
    <2>1. CASE i = 1
      <3>1. said[i] = Wording(n)
        <4>1. \A w \in Wording(n) : w \notin {"[1]", "[2]", "[3]"}
          BY DEF Wording, LeadIn, NotFound
        <4>2. ASSUME NEW w PROVE w \in Content(Wording(n)) <=> w \in Wording(n)
          <5>1. "[1]" \notin Wording(n) /\ "[2]" \notin Wording(n) /\ "[3]" \notin Wording(n)
            BY <4>1
          <5> QED BY <5>1, ContentIs
        <4>3. Content(Wording(n)) = Wording(n)
          BY <4>2
        <4> QED BY <1>16, <2>1, <4>3
      <3>2. IsFiniteSet(LeadIn) /\ IsFiniteSet(NotFound)
        BY FixedWords
      <3> QED BY <3>1, <3>2 DEF Wording
    <2>2. CASE i # 1
      <3>1. i \in 2..Len(tokens)
        BY <1>16, <2>2
      <3>2. PICK k \in 1..n :
                /\ k <= MaxPassagesInAnswer
                /\ tokens[i] = BestSentence(texts[k], question) \cup {MarkerWord[k]}
        BY <1>16, <3>1
      <3> DEFINE best == BestSentence(texts[k], question)
      <3>3. best \subseteq WordsOf(texts[k]) /\ IsFiniteSet(best)
        BY <1>5, BestIsSentence
      <3> HIDE DEF best
      <3>4. MarkerWord[k] \in {"[1]", "[2]", "[3]"}
        <4>1. k = 1 \/ k = 2 \/ k = 3
          BY <1>2, <3>2 DEF MaxPassagesInAnswer
        <4> QED BY <4>1 DEF MarkerWord
      <3>5. said[i] = Content(best \cup {MarkerWord[k]})
        BY <3>2 DEF best
      <3>6. IsFiniteSet(best \cup {MarkerWord[k]})
        BY <3>3, FS_AddElement
      <3>7. IsFiniteSet(said[i])
        BY <3>5, <3>6, ContentKeeps
      <3>8. Content(best) \subseteq Supported(contexts)
        <4>1. Content(best) \subseteq Content(WordsOf(texts[k]))
          BY <3>3, ContentKeeps
        <4> HIDE DEF contexts
        <4> QED BY <1>8, <4>1
      <3>9. said[i] \subseteq Content(best) \cup Markers
        BY <3>4, <3>5, ContentIs DEF Markers
      <3>10. n # 0
        BY <1>2
      <3> HIDE DEF said, contexts
      <3> QED BY <3>7, <3>8, <3>9, <3>10
    <2> QED BY <2>1, <2>2
  <1>10. answer = UNION {said[i] : i \in 1..Len(tokens)}
    <2>1. \A i \in 1..Len(tokens) : said[i] = Content(tokens[i])
      OBVIOUS
    <2> HIDE DEF said
    <2>2. \A w : w \in WordsOf(tokens) <=> \E i \in 1..Len(tokens) : w \in tokens[i]
      BY <1>16 DEF WordsOf, ToSet
    <2>3. ASSUME NEW w
          PROVE  w \in Content(WordsOf(tokens)) <=> \E i \in 1..Len(tokens) : w \in said[i]
      BY <2>1, <2>2, ContentIs
    <2> QED BY <2>3 DEF AnswerWords
  <1>11. said = [i \in 1..Len(tokens) |-> said[i]]
    OBVIOUS
  <1> HIDE DEF said, answer
  <1>12. IsFiniteSet(answer)
    <2> DEFINE l == Len(tokens)
    <2>1. l \in Nat /\ said = [i \in 1..l |-> said[i]] /\ \A i \in 1..l : IsFiniteSet(said[i])
      BY <1>9, <1>11, <1>16
    <2> HIDE DEF l
    <2>2. IsFiniteSet(UNION {said[i] : i \in 1..l})
      BY <2>1, FiniteTogether
    <2> QED BY <1>10, <2>2 DEF l
  <1>13. n # 0 => answer \ Supported(contexts) \subseteq LeadIn \cup Markers
    <2> HIDE DEF contexts
    <2> QED BY <1>9, <1>10
  <1>14. n = 0 => answer = NotFound /\ contexts = <<>> /\ Supported(contexts) = {}
    <2>1. ASSUME n = 0 PROVE answer = NotFound
      <3>1. 1 \in 1..Len(tokens) /\ \A i \in 1..Len(tokens) : said[i] = NotFound
        BY <1>9, <1>16, <2>1
      <3> QED BY <1>10, <3>1
    <2>2. ASSUME n = 0 PROVE contexts = <<>> /\ Supported(contexts) = {}
      <3> HIDE DEF contexts
      <3>1. contexts = [i \in {} |-> [chunk |-> ranked[i], text |-> texts[i]]]
        BY <1>4, <2>2
      <3>2. contexts = <<>>
        BY <3>1
      <3> QED BY <3>1, <3>2 DEF Supported
    <2> QED BY <2>1, <2>2
  <1>15. found = <<>> <=> n = 0
    BY <1>1, <1>2
  <1> QED BY <1>12, <1>13, <1>14, <1>15 DEF answer, tokens

(* What is in one share and not in another. *)
LEMMA SharesCompare ==
    ASSUME NEW A, NEW S, NEW E, IsFiniteSet(E), A \cap E \subseteq S
    PROVE  Share(A, E)[1] * Share(S, E)[2] <= Share(S, E)[1] * Share(A, E)[2]
  <1>1. CASE E = {}
    <2>1. Share(A, E) = <<1, 1>> /\ Share(S, E) = <<1, 1>>
      BY <1>1 DEF Share
    <2> QED BY <2>1
  <1>2. CASE E # {}
    <2> DEFINE a == Cardinality(A \cap E)
               s == Cardinality(S \cap E)
               e == Cardinality(E)
    <2>1. Share(A, E) = <<a, e>> /\ Share(S, E) = <<s, e>>
      BY <1>2 DEF Share
    <2>2. IsFiniteSet(A \cap E) /\ IsFiniteSet(S \cap E)
      BY FS_Intersection
    <2>3. A \cap E \in SUBSET (S \cap E)
      OBVIOUS
    <2>4. a <= s
      BY <2>2, <2>3, FS_Subset
    <2>5. a \in Nat /\ s \in Nat /\ e \in Nat
      BY <2>2, FS_CardinalityType
    <2> HIDE DEF a, s, e
    <2>6. e # 0 => (a < s => a * e < s * e)
      BY <2>5, ProductsGrow
    <2>7. a * e \in Int /\ s * e \in Int
      BY <2>5
    <2>8. e = 0 => a * e = 0 /\ s * e = 0
      BY <2>5
    <2>9. a * e <= s * e
      <3>1. CASE e = 0
        BY <2>8, <3>1
      <3>2. CASE e # 0 /\ a < s
        BY <2>6, <2>7, <3>2
      <3>3. CASE a = s
        BY <2>7, <3>3
      <3> QED BY <2>4, <2>5, <3>1, <3>2, <3>3
    <2>10. Share(A, E)[1] = a /\ Share(A, E)[2] = e /\ Share(S, E)[1] = s /\ Share(S, E)[2] = e
      BY <2>1
    <2> QED BY <2>9, <2>10
  <1> QED BY <1>1, <1>2

LEMMA ShareLacks ==
    ASSUME NEW A, NEW S, NEW F, IsFiniteSet(A), IsFiniteSet(F), A \ S \subseteq F
    PROVE  Share(S, A)[2] - Share(S, A)[1] <= Cardinality(F)
  <1>1. Cardinality(F) \in Nat
    BY FS_CardinalityType
  <1>2. CASE A = {}
    <2>1. Share(S, A) = <<1, 1>>
      BY <1>2 DEF Share
    <2> QED BY <1>1, <2>1
  <1>3. CASE A # {}
    <2> DEFINE a == Cardinality(A)
               l == Cardinality(A \ S)
               s == Cardinality(S \cap A)
    <2>1. Share(S, A)[2] = a /\ Share(S, A)[1] = s
      BY <1>3 DEF Share
    <2>2. l = Cardinality(A) - Cardinality(A \cap S)
      BY FS_Difference
    <2>3. A \cap S = S \cap A
      OBVIOUS
    <2>4. IsFiniteSet(A \ S) /\ IsFiniteSet(S \cap A)
      BY FS_Difference, FS_Intersection
    <2>5. a \in Nat /\ l \in Nat /\ s \in Nat
      BY <2>4, FS_CardinalityType
    <2>6. l <= Cardinality(F)
      <3>1. A \ S \in SUBSET F
        OBVIOUS
      <3> QED BY <3>1, FS_Subset
    <2>7. l = a - s
      BY <2>2, <2>3
    <2> HIDE DEF a, l, s
    <2> QED BY <1>1, <2>1, <2>5, <2>6, <2>7
  <1> QED BY <1>2, <1>3

(* EVALUATION.md: the metrics of a case, for any corpus. An expected word  *)
(* that the fixed wording has as well would count without any passage.     *)
THEOREM MetricsBelongTogether ==
    ASSUME NEW corpus, NEW question, NEW found, FoundIn(found, corpus),
           \A c \in DOMAIN corpus : IsText(corpus[c]),
           NEW expected, IsFiniteSet(expected),
           expected \cap (LeadIn \cup NotFound \cup Markers) = {}
    PROVE  LET contexts     == Sanitized(found)
               answer       == AnswerWords(Compose(Prompt(contexts), question))
               recall       == Share(Supported(contexts), expected)
               relevance    == Share(answer, expected)
               faithfulness == Share(Supported(contexts), answer)
           IN  /\ relevance[1] * recall[2] <= recall[1] * relevance[2]
               /\ faithfulness[2] - faithfulness[1] <=
                    IF found = <<>> THEN Cardinality(NotFound)
                    ELSE Cardinality(LeadIn) + MaxPassagesInAnswer
               /\ found = <<>> => /\ faithfulness[1] = 0
                                  /\ ContextPrecision(question, contexts)[1] = 0
  <1> DEFINE contexts == Sanitized(found)
             answer   == AnswerWords(Compose(Prompt(contexts), question))
             S        == Supported(contexts)
             fixed    == IF found = <<>> THEN NotFound ELSE LeadIn \cup Markers
             bound    == IF found = <<>> THEN Cardinality(NotFound)
                         ELSE Cardinality(LeadIn) + MaxPassagesInAnswer
  <1>1. /\ IsFiniteSet(answer)
        /\ found # <<>> => answer \ S \subseteq LeadIn \cup Markers
        /\ found = <<>> => answer = NotFound /\ contexts = <<>> /\ S = {}
    BY WordsAreSupported
  <1> HIDE DEF contexts, answer, S
  <1>2. answer \ S \subseteq fixed
    BY <1>1
  <1>3. answer \cap expected \subseteq S
    BY <1>2
  <1>4. Share(answer, expected)[1] * Share(S, expected)[2]
            <= Share(S, expected)[1] * Share(answer, expected)[2]
    BY <1>3, SharesCompare
  <1>5. IsFiniteSet(fixed) /\ Cardinality(fixed) <= bound
    <2>1. IsFiniteSet(LeadIn \cup Markers)
      BY FixedWords, FS_Union
    <2>2. Cardinality(LeadIn \cup Markers) =
            Cardinality(LeadIn) + Cardinality(Markers) - Cardinality(LeadIn \cap Markers)
      BY FixedWords, FS_Union
    <2>3. IsFiniteSet(LeadIn \cap Markers)
      BY FixedWords, FS_Intersection
    <2>4. /\ Cardinality(LeadIn) \in Nat /\ Cardinality(Markers) \in Nat
          /\ Cardinality(NotFound) \in Nat /\ Cardinality(LeadIn \cap Markers) \in Nat
      BY <2>3, FixedWords, FS_CardinalityType
    <2>5. Cardinality(LeadIn \cup Markers) <= Cardinality(LeadIn) + MaxPassagesInAnswer
      BY <2>2, <2>4, FixedWords DEF MaxPassagesInAnswer
    <2> QED BY <2>1, <2>4, <2>5, FixedWords
  <1>6. Share(S, answer)[2] - Share(S, answer)[1] <= bound
    <2>1. Share(S, answer)[2] - Share(S, answer)[1] <= Cardinality(fixed)
      <3> HIDE DEF fixed
      <3> QED BY <1>1, <1>2, <1>5, ShareLacks
    <2>2. Cardinality(fixed) \in Nat
      BY <1>5, FS_CardinalityType
    <2>3. Share(S, answer)[2] \in Int /\ Share(S, answer)[1] \in Int
      <3>1. CASE answer = {}
        BY <3>1 DEF Share
      <3>2. CASE answer # {}
        <4>1. IsFiniteSet(S \cap answer)
          BY <1>1, FS_Intersection
        <4> QED BY <1>1, <3>2, <4>1, FS_CardinalityType DEF Share
      <3> QED BY <3>1, <3>2
    <2>4. bound \in Int
      BY FixedWords, FS_CardinalityType DEF MaxPassagesInAnswer
    <2> HIDE DEF fixed, bound
    <2> QED BY <1>5, <2>1, <2>2, <2>3, <2>4
  <1>7. ASSUME found = <<>>
        PROVE  /\ Share(S, answer)[1] = 0
               /\ ContextPrecision(question, contexts)[1] = 0
    <2>1. answer # {} /\ S \cap answer = {}
      BY <1>1, <1>7 DEF NotFound
    <2>2. Cardinality(S \cap answer) = 0
      BY <2>1, FS_EmptySet
    <2>3. ContextPrecision(question, contexts) = <<0, 1>>
      BY <1>1, <1>7 DEF ContextPrecision
    <2> QED BY <2>1, <2>2, <2>3 DEF Share
  <1> QED BY <1>4, <1>6, <1>7 DEF contexts, answer, S

LEMMA MetricsAreComputed ==
    ASSUME input \in AnswerInputs, ComputeAnswer
    PROVE  MetricsAgree'
  <1> DEFINE corpus   == input.corpus
             expected == input.expected
             found    == SearchInMemory(corpus, input.sims, Question, input.top_k)
             contexts == Sanitized(found)
             answer   == AnswerWords(Compose(Prompt(contexts), Question))
             S        == Supported(contexts)
             result   == Evaluate(corpus, input.sims, Question, expected, input.top_k)
  <1>1. output'.found = found /\ output'.result = result
    BY DEF ComputeAnswer, Compute
  <1>2. FoundIn(found, corpus) /\ \A c \in DOMAIN corpus : IsText(corpus[c])
    BY CorpusIsSearched
  <1>3. IsFiniteSet(expected) /\ expected \cap (LeadIn \cup NotFound \cup Markers) = {}
    <2>1. expected = {} \/ expected = {"wanted"} \/ expected = {"wanted"} \cup {"override"}
      BY DEF AnswerInputs
    <2>2. IsFiniteSet({}) /\ IsFiniteSet({"wanted"}) /\ IsFiniteSet({"wanted"} \cup {"override"})
      BY FS_EmptySet, FS_Singleton, FS_AddElement
    <2> QED BY <2>1, <2>2 DEF LeadIn, NotFound, Markers
  <1>4. result = [recall       |-> Share(S, expected),
                  precision    |-> ContextPrecision(Question, contexts),
                  faithfulness |-> Share(S, answer),
                  relevance    |-> Share(answer, expected)]
    BY DEF Evaluate
  <1> HIDE DEF corpus, expected, found, result
  <1>5. /\ Share(answer, expected)[1] * Share(S, expected)[2]
             <= Share(S, expected)[1] * Share(answer, expected)[2]
        /\ Share(S, answer)[2] - Share(S, answer)[1] <=
             IF found = <<>> THEN Cardinality(NotFound)
             ELSE Cardinality(LeadIn) + MaxPassagesInAnswer
        /\ found = <<>> => /\ Share(S, answer)[1] = 0
                           /\ ContextPrecision(Question, contexts)[1] = 0
    BY <1>2, <1>3, MetricsBelongTogether
  <1> HIDE DEF contexts, answer, S
  <1>6. /\ result.recall = Share(S, expected) /\ result.relevance = Share(answer, expected)
        /\ result.faithfulness = Share(S, answer)
        /\ result.precision = ContextPrecision(Question, contexts)
    BY <1>4
  <1> QED BY <1>1, <1>5, <1>6 DEF MetricsAgree

(* EVALUATION.md: see MetricsAgree. *)
THEOREM MetricsAreConsistent ==
    Spec => []MetricsAgree
  <1>1. Init => MetricsAgree
    BY DEF Init, MetricsAgree, Computed
  <1>2. Given /\ MetricsAgree /\ [Next]_vars => MetricsAgree'
    <2>1. CASE UNCHANGED vars
      BY <2>1 DEF vars, MetricsAgree, Computed
    <2>2. ASSUME Given, Next, input.of = "answer" PROVE MetricsAgree'
      BY <2>2, GivenKinds, StepComputes, MetricsAreComputed
    <2>3. ASSUME Next, input.of # "answer" PROVE MetricsAgree'
      <3>1. ~Computed("answer")'
        BY <2>3, StepComputes DEF Computed
      <3> QED BY <3>1 DEF MetricsAgree
    <2> QED BY <2>1, <2>2, <2>3
  <1> QED BY <1>1, <1>2, GivenStays, PTL DEF Spec

-----------------------------------------------------------------------------
(* A table lists each of its rows once; some of them are in its first b    *)
(* places.                                                                 *)
Rows(t) == {t[i] : i \in 1..Len(t)}

First(t, b) == {t[i] : i \in {j \in 1..Len(t) : j <= b}}

Table == {t \in Seq(Int) : \A i, j \in 1..Len(t) : t[i] = t[j] => i = j}

(* o is t without the row, which was in place p, or nowhere. *)
Without(o, t, row, p) ==
    /\ o \in Seq(Int) /\ p \in 1..Len(t) + 1
    /\ p <= Len(t) => t[p] = row /\ Len(o) = Len(t) - 1
    /\ p > Len(t) => row \notin Rows(t) /\ Len(o) = Len(t)
    /\ \A i \in 1..Len(o) : o[i] = IF i < p THEN t[i] ELSE t[i + 1]

(* What is left of a table, place by place. *)
LEMMA RemovedShape ==
    ASSUME NEW t \in Table, NEW row
    PROVE  \E p \in 1..Len(t) + 1 : Without(RemoveFirst(t, row), t, row, p)
  <1> DEFINE I == {i \in 1..Len(t) : t[i] = row}
             one == 1
             n == Len(t)
  <1>0. t \in Seq(Int) /\ n \in Nat
    BY DEF Table
  <1>1. RemoveFirst(t, row) = IF I = {} THEN t
                              ELSE SubSeq(t, one, Min(I) - 1) \o SubSeq(t, Min(I) + 1, n)
    BY DEF RemoveFirst, RemoveAt, SelectInSeq
  <1>2. CASE I = {}
    <2>1. RemoveFirst(t, row) = t
      BY <1>1, <1>2
    <2>2. row \notin Rows(t)
      BY <1>2 DEF Rows
    <2>3. Without(t, t, row, n + 1)
      BY <1>0, <2>2 DEF Without
    <2> QED BY <1>0, <2>1, <2>3
  <1>3. CASE I # {}
    <2>1. I \in SUBSET (1..n)
      OBVIOUS
    <2>2. Min(I) \in I
      <3> HIDE DEF I
      <3> QED BY <1>0, <1>3, <2>1, MinOfSome
    <2> DEFINE p == Min(I)
               a == SubSeq(t, one, p - 1)
               c == SubSeq(t, p + 1, n)
    <2>3. p \in 1..n /\ t[p] = row
      BY <2>2
    <2> HIDE DEF p
    <2>4. one \in 1..n + 1 /\ p - 1 \in one - 1..n /\ p + 1 \in 1..n + 1 /\ n \in (p + 1) - 1..n
      BY <1>0, <2>3
    <2>5. /\ a \in Seq(Int) /\ Len(a) = (p - 1) - one + 1
          /\ \A i \in 1..(p - 1) - one + 1 : a[i] = t[one + i - 1]
      <3> HIDE DEF one
      <3> QED BY <1>0, <2>4, SubSeqShape
    <2>6. /\ c \in Seq(Int) /\ Len(c) = n - (p + 1) + 1
          /\ \A i \in 1..n - (p + 1) + 1 : c[i] = t[(p + 1) + i - 1]
      BY <1>0, <2>4, SubSeqShape
    <2> HIDE DEF a, c
    <2> DEFINE o == a \o c
    <2>7. /\ o \in Seq(Int) /\ Len(o) = Len(a) + Len(c)
          /\ \A i \in 1..Len(a) : o[i] = a[i]
          /\ \A i \in 1..Len(c) : o[Len(a) + i] = c[i]
      <3>1. a \in Seq(Int) /\ c \in Seq(Int)
        BY <2>5, <2>6
      <3> QED BY ONLY <3>1, JoinShape
    <2>8. RemoveFirst(t, row) = o
      BY <1>1, <1>3 DEF a, c, p
    <2> HIDE DEF o
    <2>9. Len(a) = p - 1 /\ Len(c) = n - p /\ Len(o) = n - 1
      BY <1>0, <2>3, <2>5, <2>6, <2>7
    <2>10. ASSUME NEW i \in 1..n - 1 PROVE o[i] = IF i < p THEN t[i] ELSE t[i + 1]
      <3>1. CASE i < p
        <4>1. i \in 1..Len(a) /\ i \in 1..(p - 1) - one + 1 /\ one + i - 1 = i
          BY <2>3, <2>9, <3>1
        <4> QED BY <2>5, <2>7, <3>1, <4>1
      <3>2. CASE ~(i < p)
        <4> DEFINE k == i - p + 1
        <4>1. k \in 1..Len(c) /\ k \in 1..n - (p + 1) + 1 /\ Len(a) + k = i
              /\ (p + 1) + k - 1 = i + 1
          BY <1>0, <2>3, <2>9, <3>2
        <4> HIDE DEF k
        <4>2. o[Len(a) + k] = c[k] /\ c[k] = t[(p + 1) + k - 1]
          BY <2>6, <2>7, <4>1
        <4> QED BY <3>2, <4>1, <4>2
      <3> QED BY <3>1, <3>2
    <2>11. Without(o, t, row, p)
      BY <1>0, <2>3, <2>7, <2>9, <2>10 DEF Without
    <2> QED BY <1>0, <2>3, <2>8, <2>11
  <1> QED BY <1>2, <1>3

(* What a row that goes does to the first places. *)
LEMMA WithoutFirst ==
    ASSUME NEW t \in Table, NEW row, NEW p, NEW o, Without(o, t, row, p)
    PROVE  /\ o \in Table /\ Len(o) \in Nat
           /\ Len(o) = Len(t) - (IF row \in Rows(t) THEN 1 ELSE 0)
           /\ Rows(o) = Rows(t) \ {row}
           /\ row \notin Rows(t) => \A b \in Nat : First(o, b) \subseteq First(t, b)
           /\ \A b \in Nat : /\ First(t, b) \ {row} \subseteq First(o, b)
                             /\ First(o, b) \subseteq First(t, b + 1)
                             /\ b > 0 => First(t, b) \ {row, t[b]} \subseteq First(o, b - 1)
  <1> DEFINE n == Len(t)
             m == Len(o)
  <1>1. /\ t \in Seq(Int) /\ n \in Nat /\ o \in Seq(Int) /\ m \in Nat /\ p \in 1..n + 1
        /\ p <= n => t[p] = row /\ m = n - 1
        /\ p > n => row \notin Rows(t) /\ m = n
        /\ \A i \in 1..m : o[i] = IF i < p THEN t[i] ELSE t[i + 1]
        /\ \A i, j \in 1..n : t[i] = t[j] => i = j
    BY DEF Without, Table
  <1> HIDE DEF n, m
  <1> DEFINE at(i) == IF i < p THEN i ELSE i + 1
             to(j) == IF j < p THEN j ELSE j - 1
  <1>2. \A i \in 1..m : at(i) \in 1..n /\ at(i) # p /\ o[i] = t[at(i)]
    BY <1>1
  <1>3. \A j \in 1..n : j # p => to(j) \in 1..m /\ o[to(j)] = t[j]
    BY <1>1
  <1>4. \A j \in 1..n : t[j] = row <=> j = p
    BY <1>1 DEF Rows, n
  <1>5. o \in Table
    <2>1. ASSUME NEW i \in 1..m, NEW j \in 1..m, o[i] = o[j] PROVE i = j
      <3>1. at(i) = at(j)
        BY <1>1, <1>2, <2>1
      <3> QED BY <1>1, <3>1
    <2> QED BY <1>1, <2>1 DEF Table, m
  <1>6. Rows(o) = Rows(t) \ {row}
    <2>1. ASSUME NEW r \in Rows(o) PROVE r \in Rows(t) \ {row}
      <3>1. PICK i \in 1..m : o[i] = r
        BY DEF Rows, m
      <3>2. at(i) \in 1..n /\ t[at(i)] = r /\ at(i) # p
        BY <1>2, <3>1
      <3> HIDE DEF at
      <3> QED BY <1>4, <3>2 DEF Rows, n
    <2>2. ASSUME NEW r \in Rows(t) \ {row} PROVE r \in Rows(o)
      <3>1. PICK j \in 1..n : t[j] = r
        BY DEF Rows, n
      <3>2. to(j) \in 1..m /\ o[to(j)] = r
        BY <1>3, <1>4, <3>1
      <3> HIDE DEF to
      <3> QED BY <3>2 DEF Rows, m
    <2> QED BY <2>1, <2>2
  <1>7. ASSUME NEW b \in Nat
        PROVE  /\ First(t, b) \ {row} \subseteq First(o, b)
               /\ First(o, b) \subseteq First(t, b + 1)
               /\ b > 0 => First(t, b) \ {row, t[b]} \subseteq First(o, b - 1)
    <2>1. ASSUME NEW r \in First(t, b) \ {row} PROVE r \in First(o, b)
      <3>1. PICK j \in 1..n : j <= b /\ t[j] = r
        BY DEF First, n
      <3>2. to(j) \in 1..m /\ o[to(j)] = r /\ to(j) <= b
        BY <1>1, <1>3, <1>4, <3>1
      <3> HIDE DEF to
      <3> QED BY <3>2 DEF First, m
    <2>2. ASSUME NEW r \in First(o, b) PROVE r \in First(t, b + 1)
      <3>1. PICK i \in 1..m : i <= b /\ o[i] = r
        BY DEF First, m
      <3>2. at(i) \in 1..n /\ t[at(i)] = r /\ at(i) <= b + 1
        BY <1>1, <1>2, <3>1
      <3> HIDE DEF at
      <3> QED BY <3>2 DEF First, n
    <2>3. ASSUME b > 0, NEW r \in First(t, b) \ {row, t[b]} PROVE r \in First(o, b - 1)
      <3>1. PICK j \in 1..n : j <= b /\ t[j] = r
        BY DEF First, n
      <3>2. j # b
        BY <3>1
      <3>3. to(j) \in 1..m /\ o[to(j)] = r /\ to(j) <= b - 1
        BY <1>1, <1>3, <1>4, <3>1, <3>2
      <3> HIDE DEF to
      <3> QED BY <3>3 DEF First, m
    <2> QED BY <2>1, <2>2, <2>3
  <1>8. m = n - (IF row \in Rows(t) THEN 1 ELSE 0)
    <2>1. row \in Rows(t) <=> p <= n
      BY <1>1, <1>4 DEF Rows, n
    <2> QED BY <1>1, <2>1
  <1>9. ASSUME row \notin Rows(t), NEW b \in Nat, NEW r \in First(o, b) PROVE r \in First(t, b)
    <2>1. PICK i \in 1..m : i <= b /\ o[i] = r
      BY <1>9 DEF First, m
    <2>2. i < p /\ i \in 1..n
      <3>1. ~(p <= n)
        BY <1>1, <1>4, <1>9 DEF Rows, n
      <3> QED BY <1>1, <3>1
    <2>3. t[i] = r
      BY <1>1, <2>1, <2>2
    <2> QED BY <2>1, <2>2, <2>3 DEF First, n
  <1> QED BY <1>1, <1>5, <1>6, <1>7, <1>8, <1>9 DEF n, m

(* One change: a row goes, or is put somewhere, and then pushes at most    *)
(* one other row past the first places, or lets one in.                    *)
GoneFirst(t, u, row, b) ==
    /\ Rows(u) = Rows(t) \ {row}
    /\ First(t, b) \ {row} \subseteq First(u, b)
    /\ First(u, b) \subseteq First(t, b + 1)

PutFirst(t, u, row, b) ==
    /\ Rows(u) = Rows(t) \cup {row}
    /\ \E x : Rows(u) \ First(u, b) \subseteq (Rows(t) \ First(t, b)) \cup {x}
    /\ \E x : First(u, b) \subseteq First(t, b) \cup {row, x}

ChangeKinds == {"new", "gone", "moved"}

ChangeSet == [at : Int, kind : ChangeKinds, row : Int, place : Int \ {0}]

LEMMA ChangeFields ==
    ASSUME NEW changes \in Seq(ChangeSet), NEW i \in 1..Len(changes)
    PROVE  /\ changes[i] \in ChangeSet /\ changes[i].kind \in ChangeKinds
           /\ changes[i].at \in Int /\ changes[i].row \in Int /\ changes[i].place \in Int
  <1>1. changes[i] \in ChangeSet
    OBVIOUS
  <1>2. \A c \in ChangeSet : /\ c.kind \in ChangeKinds /\ c.at \in Int
                             /\ c.row \in Int /\ c.place \in Int
    BY DEF ChangeSet
  <1> QED BY <1>1, <1>2

(* What a row that comes in some place does to the first places. *)
LEMMA PutShape ==
    ASSUME NEW o \in Table, NEW row \in Int, row \notin Rows(o), NEW q \in 1..Len(o) + 1
    PROVE  /\ InsertAt(o, q, row) \in Table /\ Len(InsertAt(o, q, row)) = Len(o) + 1
           /\ Rows(InsertAt(o, q, row)) = Rows(o) \cup {row}
           /\ \A b \in Nat \ {0} : First(InsertAt(o, q, row), b) =
                 IF q <= b THEN First(o, b - 1) \cup {row} ELSE First(o, b)
  <1> DEFINE one == 1
             m == Len(o)
             s == SubSeq(o, one, q - 1)
             e == << row >>
             z == SubSeq(o, q, m)
             u == (s \o e) \o z
  <1>1. o \in Seq(Int) /\ m \in Nat /\ \A i, j \in 1..m : o[i] = o[j] => i = j
    BY DEF Table
  <1>2. one \in 1..m + 1 /\ q - 1 \in one - 1..m /\ q \in 1..m + 1 /\ m \in q - 1..m
    BY <1>1
  <1>3. /\ s \in Seq(Int) /\ Len(s) = (q - 1) - one + 1
        /\ \A i \in 1..(q - 1) - one + 1 : s[i] = o[one + i - 1]
    <2> HIDE DEF one, m
    <2> QED BY <1>1, <1>2, SubSeqShape DEF m
  <1>4. /\ z \in Seq(Int) /\ Len(z) = m - q + 1
        /\ \A i \in 1..m - q + 1 : z[i] = o[q + i - 1]
    <2> HIDE DEF m
    <2> QED BY <1>1, <1>2, SubSeqShape DEF m
  <1>5. e \in Seq(Int) /\ Len(e) = 1 /\ e[1] = row
    OBVIOUS
  <1>6. InsertAt(o, q, row) = u
    BY DEF InsertAt
  <1> HIDE DEF s, e, z
  <1>7. /\ s \o e \in Seq(Int) /\ Len(s \o e) = Len(s) + Len(e)
        /\ \A i \in 1..Len(s) : (s \o e)[i] = s[i]
        /\ \A i \in 1..Len(e) : (s \o e)[Len(s) + i] = e[i]
    <2>1. s \in Seq(Int) /\ e \in Seq(Int)
      BY <1>3, <1>5
    <2> QED BY ONLY <2>1, JoinShape
  <1> DEFINE y == s \o e
  <1> HIDE DEF y
  <1>8. /\ u \in Seq(Int) /\ Len(u) = Len(y) + Len(z)
        /\ \A i \in 1..Len(y) : u[i] = y[i]
        /\ \A i \in 1..Len(z) : u[Len(y) + i] = z[i]
    <2>1. y \in Seq(Int) /\ z \in Seq(Int)
      BY <1>4, <1>7 DEF y
    <2>2. u = y \o z
      BY DEF y
    <2> QED BY ONLY <2>1, <2>2, JoinShape
  <1>9. Len(s) = q - 1 /\ Len(y) = q /\ Len(z) = m - q + 1 /\ Len(u) = m + 1
    BY <1>1, <1>3, <1>4, <1>5, <1>7, <1>8 DEF y
  <1> HIDE DEF u
  <1>10. \A i \in 1..m : i < q => u[i] = o[i]
    <2> SUFFICES ASSUME NEW i \in 1..m, i < q PROVE u[i] = o[i]
      OBVIOUS
    <2>1. i \in 1..Len(s) /\ i \in 1..Len(y) /\ i \in 1..(q - 1) - one + 1 /\ one + i - 1 = i
      BY <1>2, <1>9
    <2> QED BY <1>3, <1>7, <1>8, <2>1 DEF y
  <1>11. u[q] = row
    <2>1. q \in 1..Len(y) /\ q = Len(s) + 1 /\ 1 \in 1..Len(e)
      BY <1>2, <1>5, <1>9
    <2> QED BY <1>5, <1>7, <1>8, <2>1 DEF y
  <1>12. \A i \in 1..m : ~(i < q) => u[i + 1] = o[i]
    <2> SUFFICES ASSUME NEW i \in 1..m, ~(i < q) PROVE u[i + 1] = o[i]
      OBVIOUS
    <2> DEFINE k == i - q + 1
    <2>1. k \in 1..Len(z) /\ k \in 1..m - q + 1 /\ q + k = i + 1 /\ q + k - 1 = i
      BY <1>1, <1>2, <1>9
    <2> HIDE DEF k
    <2>2. u[Len(y) + k] = z[k] /\ z[k] = o[q + k - 1]
      BY <1>4, <1>8, <2>1
    <2> QED BY <1>9, <2>1, <2>2
  <1> HIDE DEF m
  <1> DEFINE at(i) == IF i < q THEN i ELSE i + 1
             to(j) == IF j < q THEN j ELSE j - 1
  <1>13. \A i \in 1..m : at(i) \in 1..m + 1 /\ u[at(i)] = o[i]
    BY <1>1, <1>2, <1>10, <1>12
  <1>14. \A j \in 1..m + 1 : j # q => to(j) \in 1..m /\ u[j] = o[to(j)]
    <2> SUFFICES ASSUME NEW j \in 1..m + 1, j # q PROVE to(j) \in 1..m /\ u[j] = o[to(j)]
      OBVIOUS
    <2>1. to(j) \in 1..m /\ at(to(j)) = j
      BY <1>1, <1>2
    <2> HIDE DEF to, at
    <2> QED BY <1>13, <2>1
  <1>15. \A i \in 1..m : o[i] # row
    BY DEF Rows, m
  <1>16. \A j \in 1..m + 1 : u[j] = row <=> j = q
    <2> HIDE DEF to
    <2> QED BY <1>11, <1>14, <1>15
  <1>17. u \in Table
    <2>1. ASSUME NEW i \in 1..m + 1, NEW j \in 1..m + 1, u[i] = u[j] PROVE i = j
      <3>1. CASE i = q \/ j = q
        BY <1>16, <2>1, <3>1
      <3>2. CASE i # q /\ j # q
        <4>1. to(i) = to(j)
          <5> HIDE DEF to
          <5> QED BY <1>1, <1>14, <2>1, <3>2
        <4> QED BY <1>2, <3>2, <4>1
      <3> QED BY <3>1, <3>2
    <2> QED BY <1>8, <1>9, <2>1 DEF Table
  <1>18. ASSUME NEW b \in Nat \ {0}
         PROVE  First(u, b) = IF q <= b THEN First(o, b - 1) \cup {row} ELSE First(o, b)
    <2> DEFINE F == IF q <= b THEN First(o, b - 1) \cup {row} ELSE First(o, b)
    <2>1. ASSUME NEW r \in First(u, b) PROVE r \in F
      <3>1. PICK j \in 1..m + 1 : j <= b /\ u[j] = r
        BY <1>9 DEF First
      <3>2. CASE j = q
        BY <1>11, <3>1, <3>2
      <3>3. CASE j # q
        <4>1. to(j) \in 1..m /\ o[to(j)] = r
          <5> HIDE DEF to
          <5> QED BY <1>14, <3>1, <3>3
        <4>2. to(j) <= IF q <= b THEN b - 1 ELSE b
          BY <1>1, <1>2, <3>1, <3>3
        <4> HIDE DEF to
        <4> QED BY <4>1, <4>2 DEF First, m
      <3> QED BY <3>2, <3>3
    <2>2. ASSUME NEW r \in F PROVE r \in First(u, b)
      <3>1. CASE q <= b /\ r = row
        <4>1. q \in 1..Len(u)
          BY <1>2, <1>9
        <4> QED BY <1>11, <3>1, <4>1 DEF First
      <3>2. CASE ~(q <= b /\ r = row)
        <4>1. PICK i \in 1..m : i <= (IF q <= b THEN b - 1 ELSE b) /\ o[i] = r
          BY <2>2, <3>2 DEF First, m
        <4>2. at(i) \in 1..Len(u) /\ u[at(i)] = r
          <5> HIDE DEF at
          <5> QED BY <1>9, <1>13, <4>1
        <4>3. at(i) <= b
          BY <1>1, <1>2, <4>1
        <4> HIDE DEF at
        <4> QED BY <4>2, <4>3 DEF First
      <3> QED BY <3>1, <3>2
    <2> QED BY <2>1, <2>2
  <1>19. Rows(u) = Rows(o) \cup {row}
    <2>1. ASSUME NEW r \in Rows(u) PROVE r \in Rows(o) \cup {row}
      <3>1. PICK j \in 1..m + 1 : u[j] = r
        BY <1>9 DEF Rows
      <3> HIDE DEF to
      <3> QED BY <1>11, <1>14, <3>1 DEF Rows, m
    <2>2. ASSUME NEW r \in Rows(o) PROVE r \in Rows(u)
      <3>1. PICK i \in 1..m : o[i] = r
        BY DEF Rows, m
      <3> HIDE DEF at
      <3> QED BY <1>9, <1>13, <3>1 DEF Rows
    <2>3. row \in Rows(u)
      BY <1>2, <1>9, <1>11 DEF Rows
    <2> QED BY <2>1, <2>2, <2>3
  <1> QED BY <1>6, <1>9, <1>17, <1>18, <1>19 DEF m

LEMMA PlaceIsIn ==
    ASSUME NEW o \in Table, NEW place \in Int \ {0}
    PROVE  /\ PlaceIn(o, place) \in 1..Len(o) + 1
           /\ place = 1 => PlaceIn(o, place) = 1
  <1> DEFINE m == Len(o)
             q == PlaceIn(o, place)
  <1>1. m \in Nat
    BY DEF Table
  <1> HIDE DEF m
  <1>2. CASE place > 0
    <2>1. Min({place, m + 1}) = IF place < m + 1 THEN place ELSE m + 1
      BY <1>1, MinOfTwo
    <2>2. q = Min({place, m + 1})
      BY <1>2 DEF PlaceIn, m
    <2> QED BY <1>1, <1>2, <2>1, <2>2 DEF m
  <1>3. CASE ~(place > 0)
    <2> DEFINE x == m + 2 + place
               one == 1
    <2>1. q = Max({one, x})
      BY <1>3 DEF PlaceIn, m
    <2>2. x \in Int /\ x <= m + 1 /\ one \in Int
      BY <1>1, <1>3
    <2> HIDE DEF one
    <2>3. Max({one, x}) = IF one < x THEN x ELSE one
      <3> HIDE DEF x
      <3> QED BY <2>2, MaxOfTwo
    <2> QED BY <1>1, <1>3, <2>1, <2>2, <2>3 DEF m, one
  <1> QED BY <1>2, <1>3

(* What a change does to a table. *)
LEMMA ChangedShape ==
    ASSUME NEW t \in Table, NEW c \in ChangeSet
    PROVE  /\ Changed(t, c) \in Table
           /\ Len(Changed(t, c)) <= Len(t) + (IF c.kind = "new" THEN 1 ELSE 0)
           /\ c.kind = "gone" => \A b \in Nat : GoneFirst(t, Changed(t, c), c.row, b)
           /\ c.kind # "gone" => \/ Changed(t, c) = t
                                 \/ \A b \in Nat \ {0} : PutFirst(t, Changed(t, c), c.row, b)
           /\ c.kind = "new" \/ (c.kind = "moved" /\ c.place = 1) =>
                \A b \in Nat \ {0} : First(Changed(t, c), b) \subseteq First(t, b) \cup {c.row}
  <1> DEFINE row == c.row
             o == RemoveFirst(t, row)
             q == PlaceIn(o, c.place)
             put == InsertAt(o, q, row)
             listed == row \in ToSet(t)
  <1>1. Changed(t, c) = CASE c.kind = "gone" -> o
                          [] c.kind = (IF listed THEN "moved" ELSE "new") -> put
                          [] OTHER -> t
    BY DEF Changed
  <1>2. PICK p \in 1..Len(t) + 1 : Without(o, t, row, p)
    BY RemovedShape
  <1>3. row \in Int /\ c.place \in Int \ {0} /\ c.kind \in ChangeKinds
    BY DEF ChangeSet
  <1>4. Len(t) \in Nat /\ (listed <=> row \in Rows(t))
    BY DEF Table, Rows, ToSet
  <1> HIDE DEF o, row, listed
  <1>5. /\ o \in Table /\ Len(o) \in Nat
        /\ Len(o) = Len(t) - (IF row \in Rows(t) THEN 1 ELSE 0)
        /\ Rows(o) = Rows(t) \ {row}
        /\ row \notin Rows(t) => \A b \in Nat : First(o, b) \subseteq First(t, b)
        /\ \A b \in Nat : /\ First(t, b) \ {row} \subseteq First(o, b)
                          /\ First(o, b) \subseteq First(t, b + 1)
                          /\ b > 0 => First(t, b) \ {row, t[b]} \subseteq First(o, b - 1)
    BY <1>2, WithoutFirst
  <1>6. q \in 1..Len(o) + 1 /\ (c.place = 1 => q = 1)
    BY <1>3, <1>5, PlaceIsIn
  <1> HIDE DEF q
  <1>7. /\ put \in Table /\ Len(put) = Len(o) + 1
        /\ Rows(put) = Rows(o) \cup {row}
        /\ \A b \in Nat \ {0} :
             First(put, b) = IF q <= b THEN First(o, b - 1) \cup {row} ELSE First(o, b)
    BY <1>3, <1>5, <1>6, PutShape
  <1> HIDE DEF put
  <1>8. ASSUME NEW b \in Nat PROVE GoneFirst(t, o, row, b)
    BY <1>5 DEF GoneFirst
  <1>9. ASSUME NEW b \in Nat \ {0}
        PROVE  /\ PutFirst(t, put, row, b)
               /\ q <= b \/ row \notin Rows(t) => First(put, b) \subseteq First(t, b) \cup {row}
    <2>1. b - 1 \in Nat /\ b \in Nat /\ b > 0 /\ (b - 1) + 1 = b /\ b + 1 \in Nat
      OBVIOUS
    <2>2. Rows(put) = Rows(t) \cup {row}
      BY <1>5, <1>7
    <2>3. CASE q <= b
      <3>1. First(put, b) = First(o, b - 1) \cup {row}
        BY <1>7, <2>3
      <3>2. First(o, b - 1) \subseteq First(t, b)
        <4>1. First(o, b - 1) \subseteq First(t, (b - 1) + 1)
          BY <1>5, <2>1
        <4> QED BY <2>1, <4>1
      <3>3. First(t, b) \ {row, t[b]} \subseteq First(o, b - 1)
        BY <1>5, <2>1
      <3>4. Rows(put) \ First(put, b) \subseteq (Rows(t) \ First(t, b)) \cup {t[b]}
        BY <2>2, <3>1, <3>3
      <3>5. First(put, b) \subseteq First(t, b) \cup {row}
        BY <3>1, <3>2
      <3> QED BY <2>2, <3>4, <3>5 DEF PutFirst
    <2>4. CASE ~(q <= b)
      <3>1. First(put, b) = First(o, b)
        BY <1>7, <2>4
      <3>2. First(t, b + 1) \subseteq First(t, b) \cup {t[b + 1]}
        <4>1. \A j \in 1..Len(t) : j <= b + 1 => j <= b \/ j = b + 1
          BY <1>4
        <4> QED BY <4>1 DEF First
      <3>3. First(t, b) \ {row} \subseteq First(o, b) /\ First(o, b) \subseteq First(t, b + 1)
        BY <1>5, <2>1
      <3>4. Rows(put) \ First(put, b) \subseteq (Rows(t) \ First(t, b)) \cup {row}
        BY <2>2, <3>1, <3>3
      <3>5. First(put, b) \subseteq First(t, b) \cup {row, t[b + 1]}
        BY <3>1, <3>2, <3>3
      <3>6. row \notin Rows(t) => First(put, b) \subseteq First(t, b) \cup {row}
        BY <1>5, <2>1, <3>1
      <3> QED BY <2>2, <2>4, <3>4, <3>5, <3>6 DEF PutFirst
    <2> QED BY <2>3, <2>4
  <1>10. CASE c.kind = "gone"
    <2>1. Changed(t, c) = o
      BY <1>1, <1>10
    <2> QED BY <1>4, <1>5, <1>8, <1>10, <2>1 DEF row
  <1>11. CASE c.kind # "gone" /\ c.kind = (IF listed THEN "moved" ELSE "new")
    <2>1. Changed(t, c) = put
      BY <1>1, <1>11
    <2>2. Len(put) = Len(t) + (IF c.kind = "new" THEN 1 ELSE 0)
      <3>1. CASE listed
        <4>1. c.kind # "new" /\ Len(o) = Len(t) - 1
          BY <1>4, <1>5, <1>11, <3>1
        <4> QED BY <1>4, <1>7, <4>1
      <3>2. CASE ~listed
        <4>1. c.kind = "new" /\ Len(o) = Len(t)
          BY <1>4, <1>5, <1>11, <3>2
        <4> QED BY <1>4, <1>7, <4>1
      <3> QED BY <3>1, <3>2
    <2>3. Len(put) <= Len(t) + (IF c.kind = "new" THEN 1 ELSE 0)
      BY <1>4, <2>2
    <2>4. ASSUME c.kind = "new" \/ (c.kind = "moved" /\ c.place = 1), NEW b \in Nat \ {0}
          PROVE  First(put, b) \subseteq First(t, b) \cup {row}
      <3>1. row \notin Rows(t) \/ q <= b
        BY <1>4, <1>6, <1>11, <2>4
      <3> QED BY <1>9, <3>1
    <2> QED BY <1>7, <1>9, <1>11, <2>1, <2>3, <2>4 DEF row
  <1>12. CASE c.kind # "gone" /\ c.kind # (IF listed THEN "moved" ELSE "new")
    <2>1. Changed(t, c) = t
      BY <1>1, <1>12
    <2>2. Len(t) <= Len(t) + (IF c.kind = "new" THEN 1 ELSE 0)
      BY <1>4
    <2> QED BY <1>12, <2>1, <2>2
  <1> QED BY <1>10, <1>11, <1>12

(* The tables a statement passes through, one change at a time.            *)
Takes(t, u, c, at) == u = IF c.at <= at THEN Changed(t, c) ELSE t

TablePasses(t, rows, changes, at) ==
    /\ t \in [0..Len(changes) -> Table]
    /\ t[0] = rows /\ t[Len(changes)] = TableAt(rows, changes, at)
    /\ \A i \in 1..Len(changes) : Takes(t[i - 1], t[i], changes[i], at)

LEMMA TableIsPassed ==
    ASSUME NEW rows \in Table, NEW changes \in Seq(ChangeSet), NEW at \in Int
    PROVE  \E t : TablePasses(t, rows, changes, at)
  <1> DEFINE n == Len(changes)
             G(v, i) == IF changes[i].at <= at THEN Changed(v, changes[i]) ELSE v
             V    == Table
             F    == [q \in V \X (1..n) |-> G(q[1], q[2])]
             C(h) == h = [s \in SUBSET (1..n) |->
                             IF s = {} THEN rows ELSE G(h[s \ {Max(s)}], Max(s))]
             it   == CHOOSE h : C(h)
  <1>1. DOMAIN changes = 1..n /\ n \in Nat /\ \A i \in 1..n : changes[i] \in ChangeSet
    OBVIOUS
  <1>2. TableAt(rows, changes, at) = it[1..n]
    BY <1>1 DEF TableAt, FoldLeft, MapThenFoldSet
  <1>3. \A v \in V, i \in 1..n : G(v, i) \in V
    BY <1>1, ChangedShape
  <1> HIDE DEF V, G
  <1>4. rows \in V /\ F \in [V \X (1..n) -> V]
    BY <1>3 DEF V
  <1>5. \A v \in V, i \in 1..n : F[<<v, i>>] = G(v, i)
    OBVIOUS
  <1> HIDE DEF F
  <1>6. C(it)
    <2>1. PICK g \in [SUBSET (1..n) -> V] : IsFold(g, F, rows, n)
      BY <1>1, <1>4, FoldExists
    <2>2. ASSUME NEW s \in SUBSET (1..n), s # {}
          PROVE  g[s] = G(g[s \ {Max(s)}], Max(s))
      <3>1. g[s] = F[<<g[s \ {Max(s)}], Max(s)>>]
        BY <2>1, <2>2 DEF IsFold
      <3>2. Max(s) \in 1..n /\ g[s \ {Max(s)}] \in V
        BY <1>1, <2>2, MaxOfSome
      <3> QED BY <1>5, <3>1, <3>2
    <2>3. g[{}] = rows /\ g = [s \in SUBSET (1..n) |-> g[s]]
      BY <2>1 DEF IsFold
    <2>4. C(g)
      BY <2>2, <2>3
    <2> HIDE DEF C
    <2> QED BY <2>4
  <1> HIDE DEF it
  <1>7. Advances(it, F, rows, n, V)
    <2>1. it[{}] = rows
      BY <1>6
    <2>2. ASSUME NEW i \in 1..n, it[1..(i - 1)] \in V
          PROVE  it[1..i] = F[<<it[1..(i - 1)], i>>]
      <3>1. 1..i \in SUBSET (1..n) /\ 1..i # {} /\ Max(1..i) = i /\ (1..i) \ {i} = 1..(i - 1)
        BY <1>1, MaxOfFirst
      <3>2. it[1..i] = G(it[1..(i - 1)], i)
        BY <1>6, <3>1
      <3> QED BY <1>5, <2>2, <3>2
    <2> QED BY <1>4, <2>1, <2>2 DEF Advances
  <1>8. PICK t \in [0..n -> V] : Passes(t, F, rows, n) /\ t[n] = it[1..n]
    BY <1>1, <1>7, FoldPasses
  <1>9. t[0] = rows /\ \A i \in 1..n : t[i] = F[<<t[i - 1], i>>]
    BY <1>8 DEF Passes
  <1>10. ASSUME NEW i \in 1..n PROVE Takes(t[i - 1], t[i], changes[i], at)
    <2>1. i - 1 \in 0..n
      BY <1>1
    <2>2. t[i] = G(t[i - 1], i)
      BY <1>5, <1>8, <1>9, <2>1
    <2> QED BY <2>2 DEF Takes, G
  <1> QED BY <1>1, <1>2, <1>8, <1>9, <1>10 DEF V, TablePasses

(* Changes are listed in the order in which they commit.                   *)
Ordered(changes) == \A i, j \in 1..Len(changes) : i < j => changes[i].at <= changes[j].at

(* Q counts something of a table, and a change adds at most one to it, if  *)
(* it is among those of D, and nothing otherwise.                          *)
Counts(Q, V, changes, D) ==
    /\ V \subseteq Table /\ Q \in [V -> Nat]
    /\ \A v \in V, i \in 1..Len(changes) :
         /\ Changed(v, changes[i]) \in V
         /\ Q[Changed(v, changes[i])] <= Q[v] + (IF i \in D THEN 1 ELSE 0)

Between(D, changes, a, b) == {i \in D : i \in 1..Len(changes) /\ changes[i].at \in a..b}

LEMMA BetweenIsFinite ==
    ASSUME NEW D, NEW changes \in Seq(ChangeSet), NEW a \in Int, NEW b \in Int
    PROVE  /\ IsFiniteSet(Between(D, changes, a, b))
           /\ Cardinality(Between(D, changes, a, b)) \in Nat
  <1>1. Between(D, changes, a, b) \in SUBSET (1..Len(changes))
    BY DEF Between
  <1>2. IsFiniteSet(1..Len(changes))
    BY FS_Interval
  <1> QED BY <1>1, <1>2, FS_Subset, FS_CardinalityType

(* From one statement to a later one, Q grows with the changes between.    *)
LEMMA TableCounts ==
    ASSUME NEW Q, NEW V, NEW D, NEW changes \in Seq(ChangeSet), Ordered(changes),
           Counts(Q, V, changes, D), NEW rows \in V, NEW a \in Int, NEW b \in Int, a <= b
    PROVE  /\ TableAt(rows, changes, a) \in V /\ TableAt(rows, changes, b) \in V
           /\ Q[TableAt(rows, changes, b)] <=
                Q[TableAt(rows, changes, a)] + Cardinality(Between(D, changes, a + 1, b))
  <1> DEFINE n == Len(changes)
             N(m) == {i \in Between(D, changes, a + 1, b) : i <= m}
  <1>1. /\ n \in Nat /\ \A i \in 1..n : changes[i] \in ChangeSet /\ changes[i].at \in Int
        /\ V \subseteq Table /\ Q \in [V -> Nat] /\ rows \in Table
        /\ \A v \in V, i \in 1..n :
             /\ Changed(v, changes[i]) \in V
             /\ Q[Changed(v, changes[i])] <= Q[v] + (IF i \in D THEN 1 ELSE 0)
    <2>1. /\ V \subseteq Table /\ Q \in [V -> Nat]
          /\ \A v \in V, i \in 1..n :
               /\ Changed(v, changes[i]) \in V
               /\ Q[Changed(v, changes[i])] <= Q[v] + (IF i \in D THEN 1 ELSE 0)
      BY Zenon DEF Counts
    <2>2. n \in Nat /\ \A i \in 1..n : changes[i] \in ChangeSet
      OBVIOUS
    <2>3. \A c \in ChangeSet : c.at \in Int
      BY DEF ChangeSet
    <2>4. rows \in Table
      BY <2>1
    <2> QED BY <2>1, <2>2, <2>3, <2>4
  <1>2. PICK s : TablePasses(s, rows, changes, a)
    BY <1>1, TableIsPassed
  <1>3. PICK t : TablePasses(t, rows, changes, b)
    BY <1>1, TableIsPassed
  <1>4. /\ s[0] = rows /\ t[0] = rows
        /\ s[n] = TableAt(rows, changes, a) /\ t[n] = TableAt(rows, changes, b)
        /\ \A i \in 1..n : /\ s[i] = IF changes[i].at <= a THEN Changed(s[i - 1], changes[i])
                                     ELSE s[i - 1]
                          /\ t[i] = IF changes[i].at <= b THEN Changed(t[i - 1], changes[i])
                                     ELSE t[i - 1]
    BY <1>2, <1>3 DEF TablePasses, Takes
  <1>5. \A m : N(m) \subseteq Between(D, changes, a + 1, b) /\ IsFiniteSet(N(m))
                /\ Cardinality(N(m)) \in Nat
    <2>1. IsFiniteSet(Between(D, changes, a + 1, b))
      BY BetweenIsFinite
    <2>2. \A m : N(m) \in SUBSET Between(D, changes, a + 1, b)
      OBVIOUS
    <2> HIDE DEF N
    <2> QED BY <2>1, <2>2, FS_Subset, FS_CardinalityType
  <1> DEFINE I(m) == /\ s[m] \in V /\ t[m] \in V
                     /\ Q[t[m]] <= Q[s[m]] + Cardinality(N(m))
                     /\ (m = 0 \/ changes[m].at <= a) => t[m] = s[m]
             S == {m \in 0..n : I(m)}
  <1>6. I(0)
    <2>1. Q[rows] \in Nat
      BY <1>1
    <2> HIDE DEF N
    <2> QED BY <1>4, <1>5, <2>1
  <1>7. ASSUME NEW m \in 0..n, I(m), m < n PROVE I(m + 1)
    <2> DEFINE k == m + 1
               c == changes[k]
    <2>1. k \in 1..n /\ k - 1 = m /\ c.at \in Int
      BY <1>1, <1>7
    <2>2. /\ s[k] = IF c.at <= a THEN Changed(s[m], c) ELSE s[m]
          /\ t[k] = IF c.at <= b THEN Changed(t[m], c) ELSE t[m]
      BY <1>4, <2>1
    <2>3. N(m) \subseteq N(k) /\ N(k) \subseteq N(m) \cup {k}
      <3>1. \A i \in Between(D, changes, a + 1, b) : i \in 1..n
        BY DEF Between
      <3> QED BY <1>7, <3>1
    <2>4. Cardinality(N(m)) <= Cardinality(N(k))
      <3> HIDE DEF N, k
      <3> QED BY <1>5, <2>3, FS_Subset
    <2>5. m = 0 \/ changes[m].at <= c.at
      BY <1>7, <2>1 DEF Ordered
    <2>6. m # 0 => changes[m].at \in Int
      BY <1>1, <1>7
    <2>7. Q[s[m]] \in Nat /\ Q[t[m]] \in Nat
      BY <1>1, <1>7
    <2>8. CASE c.at <= a
      <3>1. t[m] = s[m]
        BY <1>7, <2>1, <2>5, <2>6, <2>8
      <3>2. t[k] = s[k] /\ s[k] = Changed(s[m], c) /\ s[k] \in V
        <4>1. c.at <= b
          BY <2>1, <2>8
        <4>2. s[k] = Changed(s[m], c) /\ t[k] = Changed(t[m], c)
          BY <2>2, <2>8, <4>1
        <4>3. s[m] \in V
          BY <1>7
        <4> HIDE DEF k, I
        <4> QED BY <1>1, <2>1, <3>1, <4>2, <4>3
      <3>3. Q[s[k]] \in Nat
        BY <1>1, <3>2
      <3>4. Q[t[k]] <= Q[s[k]] + Cardinality(N(k))
        <4> HIDE DEF N, k
        <4> QED BY <1>5, <3>2, <3>3
      <3> QED BY <3>2, <3>4
    <2>9. CASE a < c.at /\ c.at <= b
      <3>1. s[k] = s[m] /\ t[k] = Changed(t[m], c)
        BY <2>1, <2>2, <2>9
      <3>2. t[k] \in V /\ Q[t[k]] <= Q[t[m]] + (IF k \in D THEN 1 ELSE 0)
        BY <1>1, <1>7, <2>1, <3>1
      <3>3. k \in D => Cardinality(N(k)) = Cardinality(N(m)) + 1
        <4>1. k \in D => N(k) = N(m) \cup {k} /\ k \notin N(m)
          <5>1. k \in D => k \in Between(D, changes, a + 1, b)
            BY <2>1, <2>9 DEF Between
          <5> QED BY <1>7, <2>3, <5>1
        <4> HIDE DEF N, k
        <4> QED BY <1>5, <4>1, FS_AddElement
      <3>4. Q[t[k]] \in Nat
        BY <1>1, <3>2
      <3>5. Q[t[k]] <= Q[s[k]] + Cardinality(N(k))
        <4>1. Cardinality(N(k)) \in Nat /\ Cardinality(N(m)) \in Nat
          BY <1>5
        <4>2. Q[t[m]] <= Q[s[m]] + Cardinality(N(m))
          BY <1>7
        <4> HIDE DEF N, k
        <4> QED BY <2>4, <2>7, <3>1, <3>2, <3>3, <3>4, <4>1, <4>2
      <3>6. ~(c.at <= a)
        BY <2>1, <2>9
      <3> QED BY <1>7, <3>1, <3>2, <3>5, <3>6
    <2>10. CASE ~(c.at <= a) /\ ~(c.at <= b)
      <3>1. s[k] = s[m] /\ t[k] = t[m]
        BY <2>2, <2>10
      <3>2. Q[t[k]] <= Q[s[k]] + Cardinality(N(k))
        <4>1. Cardinality(N(k)) \in Nat /\ Cardinality(N(m)) \in Nat
          BY <1>5
        <4>2. Q[t[m]] <= Q[s[m]] + Cardinality(N(m))
          BY <1>7
        <4> HIDE DEF N, k
        <4> QED BY <2>4, <2>7, <3>1, <4>1, <4>2
      <3> QED BY <1>7, <2>10, <3>1, <3>2
    <2> QED BY <2>1, <2>8, <2>9, <2>10
  <1>8. \A m \in 0..n : m \in S
    <2> HIDE DEF I
    <2>1. 0 \in 0..n /\ \A m \in 0..n : m < n => m + 1 \in 0..n
      BY <1>1
    <2>2. 0 \in S
      BY <1>6, <2>1
    <2>3. \A m \in 0..n : m \in S /\ m < n => m + 1 \in S
      BY <1>7, <2>1
    <2> HIDE DEF S
    <2> QED BY <1>1, <2>2, <2>3, InductionUpTo
  <1>9. I(n)
    <2> HIDE DEF I
    <2> QED BY <1>1, <1>8
  <1>10. N(n) = Between(D, changes, a + 1, b)
    <2>1. \A i \in Between(D, changes, a + 1, b) : i <= n
      BY <1>1 DEF Between
    <2> QED BY <2>1
  <1> HIDE DEF N
  <1> QED BY <1>4, <1>9, <1>10

LEMMA RowsAreFinite ==
    ASSUME NEW t \in Table
    PROVE  /\ Len(t) \in Nat
           /\ \A S : S \subseteq Rows(t) => IsFiniteSet(S) /\ Cardinality(S) \in Nat
  <1>1. t \in Seq(Int) /\ t \in [1..Len(t) -> Int] /\ Len(t) \in Nat
    BY DEF Table
  <1>2. IsFiniteSet(1..Len(t))
    BY <1>1, FS_Interval
  <1>3. t \in Surjection(1..Len(t), Rows(t))
    BY <1>1 DEF Rows, Surjection
  <1>4. IsFiniteSet(Rows(t))
    BY <1>2, <1>3, FS_Surjection
  <1>5. \A S : S \subseteq Rows(t) => S \in SUBSET Rows(t)
    OBVIOUS
  <1> QED BY <1>1, <1>4, <1>5, FS_Subset, FS_CardinalityType

(* Whoever has at most one element more. *)
LEMMA OneMore ==
    ASSUME NEW S, IsFiniteSet(S), NEW T, NEW x, T \subseteq S \cup {x}
    PROVE  Cardinality(T) \in Nat /\ Cardinality(T) <= Cardinality(S) + 1
  <1>1. IsFiniteSet(S \cup {x}) /\ Cardinality(S) \in Nat
        /\ Cardinality(S \cup {x}) <= Cardinality(S) + 1
    <2>1. Cardinality(S) \in Nat
      BY FS_CardinalityType
    <2> QED BY <2>1, FS_AddElement
  <1>2. T \in SUBSET (S \cup {x})
    OBVIOUS
  <1>3. /\ IsFiniteSet(T) /\ Cardinality(T) <= Cardinality(S \cup {x})
        /\ Cardinality(T) \in Nat /\ Cardinality(S \cup {x}) \in Nat
    BY <1>1, <1>2, FS_Subset, FS_CardinalityType
  <1> QED BY <1>1, <1>3

LEMMA NoneMore ==
    ASSUME NEW S, IsFiniteSet(S), NEW T, T \subseteq S
    PROVE  Cardinality(T) \in Nat /\ Cardinality(T) <= Cardinality(S)
  <1>1. T \in SUBSET S
    OBVIOUS
  <1> QED BY <1>1, FS_Subset, FS_CardinalityType

-----------------------------------------------------------------------------
KindsAt(changes, kinds) == {i \in 1..Len(changes) : changes[i].kind \in kinds}

(* The changes that let a row into the first places. *)
Drops(changes) ==
    {i \in 1..Len(changes) : \/ changes[i].kind = "gone"
                             \/ changes[i].kind = "moved" /\ changes[i].place # 1}

(* Rows of S past the first b places: only what is put somewhere pushes a  *)
(* row there, or is put there itself.                                      *)
Beyond(t, S, b) == (S \cap Rows(t)) \ First(t, b)

LEMMA BeyondGrows ==
    ASSUME NEW changes \in Seq(ChangeSet), Ordered(changes), NEW rows \in Table,
           NEW from \in Int, NEW to \in Int, from <= to, NEW b \in Nat \ {0}, NEW S
    PROVE  Cardinality(Beyond(TableAt(rows, changes, to), S, b)) <=
               Cardinality(Beyond(TableAt(rows, changes, from), S, b))
                 + Cardinality(Between(KindsAt(changes, {"new", "moved"}), changes, from + 1, to))
  <1> DEFINE Q == [t \in Table |-> Cardinality(Beyond(t, S, b))]
             D == KindsAt(changes, {"new", "moved"})
  <1>1. \A t \in Table : IsFiniteSet(Beyond(t, S, b)) /\ Cardinality(Beyond(t, S, b)) \in Nat
    <2>1. \A t : Beyond(t, S, b) \subseteq Rows(t)
      BY DEF Beyond
    <2> QED BY <2>1, RowsAreFinite
  <1>2. \A t \in Table : Q[t] = Cardinality(Beyond(t, S, b))
    OBVIOUS
  <1>3. Q \in [Table -> Nat]
    BY <1>1
  <1> HIDE DEF Q
  <1>4. ASSUME NEW t \in Table, NEW i \in 1..Len(changes)
        PROVE  /\ Changed(t, changes[i]) \in Table
               /\ Q[Changed(t, changes[i])] <= Q[t] + (IF i \in D THEN 1 ELSE 0)
    <2> DEFINE c == changes[i]
               u == Changed(t, c)
    <2>1. c \in ChangeSet /\ c.kind \in ChangeKinds
      BY ChangeFields
    <2>2. u \in Table
      BY <2>1, ChangedShape
    <2>3. CASE c.kind = "gone"
      <3>1. GoneFirst(t, u, c.row, b)
        BY <2>1, <2>3, ChangedShape
      <3>2. Beyond(u, S, b) \subseteq Beyond(t, S, b)
        BY <3>1 DEF GoneFirst, Beyond
      <3>3. Q[u] <= Q[t]
        <4> HIDE DEF u
        <4> QED BY <1>1, <1>2, <2>2, <3>2, NoneMore
      <3>4. Q[u] \in Nat /\ Q[t] \in Nat
        BY <1>3, <2>2
      <3> QED BY <2>2, <3>3, <3>4
    <2>4. CASE c.kind # "gone"
      <3>1. u = t \/ PutFirst(t, u, c.row, b)
        BY <2>1, <2>4, ChangedShape
      <3>2. \E x : Beyond(u, S, b) \subseteq Beyond(t, S, b) \cup {x}
        <4> HIDE DEF u
        <4> QED BY <3>1 DEF PutFirst, Beyond
      <3>3. Q[u] <= Q[t] + 1
        <4> HIDE DEF u
        <4> QED BY <1>1, <1>2, <2>2, <3>2, OneMore
      <3>4. i \in D
        BY <2>1, <2>4 DEF KindsAt, ChangeKinds
      <3> QED BY <2>2, <3>3, <3>4
    <2> QED BY <2>3, <2>4
  <1> HIDE DEF D
  <1>5. Counts(Q, Table, changes, D)
    BY <1>3, <1>4 DEF Counts
  <1>6. /\ TableAt(rows, changes, from) \in Table /\ TableAt(rows, changes, to) \in Table
        /\ Q[TableAt(rows, changes, to)] <=
             Q[TableAt(rows, changes, from)] + Cardinality(Between(D, changes, from + 1, to))
    BY <1>5, TableCounts
  <1> QED BY <1>2, <1>6 DEF D

(* Rows of S in the first b places, all of which stay: only a row that     *)
(* goes, or moves elsewhere than to the front, lets one of them in.        *)
LEMMA HeldGrows ==
    ASSUME NEW changes \in Seq(ChangeSet), Ordered(changes), NEW rows \in Table,
           NEW from \in Int, NEW to \in Int, from <= to, NEW b \in Nat \ {0}, NEW S,
           \A i \in 1..Len(changes) : changes[i].row \notin S
    PROVE  Cardinality(S \cap First(TableAt(rows, changes, to), b)) <=
               Cardinality(S \cap First(TableAt(rows, changes, from), b))
                 + Cardinality(Between(Drops(changes), changes, from + 1, to))
  <1> DEFINE Q == [t \in Table |-> Cardinality(S \cap First(t, b))]
             D == Drops(changes)
  <1>1. \A t \in Table : IsFiniteSet(S \cap First(t, b)) /\ Cardinality(S \cap First(t, b)) \in Nat
    <2>1. \A t : S \cap First(t, b) \subseteq Rows(t)
      BY DEF First, Rows
    <2> QED BY <2>1, RowsAreFinite
  <1>2. \A t \in Table : Q[t] = Cardinality(S \cap First(t, b))
    OBVIOUS
  <1>3. Q \in [Table -> Nat]
    BY <1>1
  <1> HIDE DEF Q
  <1>4. ASSUME NEW t \in Table, NEW i \in 1..Len(changes)
        PROVE  /\ Changed(t, changes[i]) \in Table
               /\ Q[Changed(t, changes[i])] <= Q[t] + (IF i \in D THEN 1 ELSE 0)
    <2> DEFINE c == changes[i]
               u == Changed(t, c)
    <2>1. c \in ChangeSet /\ c.kind \in ChangeKinds
      BY ChangeFields
    <2>2. u \in Table
      BY <2>1, ChangedShape
    <2>3. CASE c.kind = "gone"
      <3>1. GoneFirst(t, u, c.row, b)
        BY <2>1, <2>3, ChangedShape
      <3>2. S \cap First(u, b) \subseteq (S \cap First(t, b)) \cup {t[b + 1]}
        <4>1. First(t, b + 1) \subseteq First(t, b) \cup {t[b + 1]}
          <5>1. Len(t) \in Nat
            BY RowsAreFinite
          <5>2. \A j \in 1..Len(t) : j <= b + 1 => j <= b \/ j = b + 1
            BY <5>1
          <5> QED BY <5>2 DEF First
        <4> QED BY <3>1, <4>1 DEF GoneFirst
      <3>3. Q[u] <= Q[t] + 1
        <4> HIDE DEF u
        <4> QED BY <1>1, <1>2, <2>2, <3>2, OneMore
      <3>4. i \in D
        BY <2>3 DEF Drops
      <3> QED BY <2>2, <3>3, <3>4
    <2>4. CASE c.kind = "new" \/ (c.kind = "moved" /\ c.place = 1)
      <3>1. First(u, b) \subseteq First(t, b) \cup {c.row}
        BY <2>1, <2>4, ChangedShape
      <3>2. S \cap First(u, b) \subseteq S \cap First(t, b)
        BY <3>1
      <3>3. Q[u] <= Q[t]
        <4> HIDE DEF u
        <4> QED BY <1>1, <1>2, <2>2, <3>2, NoneMore
      <3>4. Q[u] \in Nat /\ Q[t] \in Nat
        BY <1>3, <2>2
      <3> QED BY <2>2, <3>3, <3>4
    <2>5. CASE c.kind = "moved" /\ c.place # 1
      <3>1. u = t \/ PutFirst(t, u, c.row, b)
        BY <2>1, <2>5, ChangedShape
      <3>2. \E x : S \cap First(u, b) \subseteq (S \cap First(t, b)) \cup {x}
        <4>1. c.row \notin S
          OBVIOUS
        <4> HIDE DEF u
        <4> QED BY <3>1, <4>1 DEF PutFirst
      <3>3. Q[u] <= Q[t] + 1
        <4> HIDE DEF u
        <4> QED BY <1>1, <1>2, <2>2, <3>2, OneMore
      <3>4. i \in D
        BY <2>5 DEF Drops
      <3> QED BY <2>2, <3>3, <3>4
    <2> QED BY <2>1, <2>3, <2>4, <2>5 DEF ChangeKinds
  <1> HIDE DEF D
  <1>5. Counts(Q, Table, changes, D)
    BY <1>3, <1>4 DEF Counts
  <1>6. /\ TableAt(rows, changes, from) \in Table /\ TableAt(rows, changes, to) \in Table
        /\ Q[TableAt(rows, changes, to)] <=
             Q[TableAt(rows, changes, from)] + Cardinality(Between(D, changes, from + 1, to))
    BY <1>5, TableCounts
  <1> QED BY <1>2, <1>6 DEF D

(* A table grows with what comes to it. *)
LEMMA LengthGrows ==
    ASSUME NEW changes \in Seq(ChangeSet), Ordered(changes), NEW rows \in Table,
           NEW from \in Int, NEW to \in Int, from <= to
    PROVE  Len(TableAt(rows, changes, to)) <= Len(TableAt(rows, changes, from))
               + Cardinality(Between(KindsAt(changes, {"new"}), changes, from + 1, to))
  <1> DEFINE Q == [t \in Table |-> Len(t)]
             D == KindsAt(changes, {"new"})
  <1>1. Q \in [Table -> Nat]
    BY RowsAreFinite
  <1>2. \A t \in Table : Q[t] = Len(t)
    OBVIOUS
  <1> HIDE DEF Q
  <1>3. ASSUME NEW t \in Table, NEW i \in 1..Len(changes)
        PROVE  /\ Changed(t, changes[i]) \in Table
               /\ Q[Changed(t, changes[i])] <= Q[t] + (IF i \in D THEN 1 ELSE 0)
    <2>1. changes[i] \in ChangeSet /\ changes[i].kind \in ChangeKinds
      BY ChangeFields
    <2>2. i \in D <=> changes[i].kind = "new"
      BY DEF KindsAt
    <2> HIDE DEF D
    <2> QED BY <1>2, <2>1, <2>2, ChangedShape
  <1> HIDE DEF D
  <1>4. Counts(Q, Table, changes, D)
    BY <1>1, <1>3 DEF Counts
  <1>6. /\ TableAt(rows, changes, from) \in Table /\ TableAt(rows, changes, to) \in Table
        /\ Q[TableAt(rows, changes, to)] <=
             Q[TableAt(rows, changes, from)] + Cardinality(Between(D, changes, from + 1, to))
    BY <1>4, TableCounts
  <1> QED BY <1>2, <1>6 DEF D

(* What no change is about is in every table. *)
LEMMA StayedStays ==
    ASSUME NEW changes \in Seq(ChangeSet), Ordered(changes), NEW rows \in Table,
           NEW at \in Int, NEW S \in SUBSET Rows(rows),
           \A i \in 1..Len(changes) : changes[i].row \notin S
    PROVE  /\ TableAt(rows, changes, at) \in Table
           /\ S \subseteq Rows(TableAt(rows, changes, at))
  <1> DEFINE V == {t \in Table : S \subseteq Rows(t)}
             Q == [t \in V |-> 0]
             none == {}
  <1>1. Q \in [V -> Nat] /\ V \subseteq Table /\ rows \in V /\ \A t \in V : Q[t] = 0
    OBVIOUS
  <1>2. ASSUME NEW t \in V, NEW i \in 1..Len(changes)
        PROVE  Changed(t, changes[i]) \in V
    <2>1. changes[i] \in ChangeSet /\ changes[i].row \notin S /\ t \in Table /\ 1 \in Nat \ {0}
      OBVIOUS
    <2>2. Changed(t, changes[i]) \in Table
      BY <2>1, ChangedShape
    <2>3. S \subseteq Rows(Changed(t, changes[i]))
      <3>1. CASE changes[i].kind = "gone"
        <4>1. GoneFirst(t, Changed(t, changes[i]), changes[i].row, 1)
          BY <2>1, <3>1, ChangedShape
        <4> QED BY <2>1, <4>1 DEF GoneFirst
      <3>2. CASE changes[i].kind # "gone"
        <4>1. \/ Changed(t, changes[i]) = t
              \/ PutFirst(t, Changed(t, changes[i]), changes[i].row, 1)
          BY <2>1, <3>2, ChangedShape
        <4> QED BY <2>1, <4>1 DEF PutFirst
      <3> QED BY <3>1, <3>2
    <2> QED BY <2>2, <2>3
  <1>3. \A t \in V, i \in 1..Len(changes) :
          /\ Changed(t, changes[i]) \in V
          /\ Q[Changed(t, changes[i])] <= Q[t] + (IF i \in none THEN 1 ELSE 0)
    BY <1>1, <1>2
  <1> HIDE DEF Q, V
  <1>4. Counts(Q, V, changes, none)
    BY <1>1, <1>3 DEF Counts
  <1>5. at <= at
    OBVIOUS
  <1>6. TableAt(rows, changes, at) \in V
    <2> HIDE DEF none
    <2> QED BY <1>1, <1>4, <1>5, TableCounts
  <1> QED BY <1>6 DEF V

LEMMA TablesStay ==
    ASSUME NEW changes \in Seq(ChangeSet), Ordered(changes), NEW rows \in Table, NEW at \in Int
    PROVE  TableAt(rows, changes, at) \in Table
  <1> DEFINE none == {}
  <1>1. none \in SUBSET Rows(rows) /\ \A i \in 1..Len(changes) : changes[i].row \notin none
    OBVIOUS
  <1> HIDE DEF none
  <1> QED BY <1>1, StayedStays

-----------------------------------------------------------------------------
(* The pages of a walk. Rows that tie with another are not looked at.      *)
WalkOk(w) ==
    /\ w.listing \in {"documents", "jobs"} /\ w.limit \in Nat \ {0}
    /\ w.rows \in Table /\ w.changes \in Seq(ChangeSet) /\ Ordered(w.changes)
    /\ DOMAIN w.tied \subseteq Int /\ \A r \in DOMAIN w.tied : w.tied[r] \in DOMAIN w.tied

TableOf(w, at) == TableAt(w.rows, w.changes, at)

(* The items of a page, place by place. *)
LEMMA ItemsShape ==
    ASSUME NEW read \in Seq(Int), NEW limit \in Nat \ {0}, NEW offset \in Nat
    PROVE  /\ Items(read, limit, offset) \in Seq(Int)
           /\ Len(Items(read, limit, offset)) =
                IF Len(read) <= offset THEN 0
                ELSE IF offset + limit < Len(read) THEN limit ELSE Len(read) - offset
           /\ \A i \in 1..Len(Items(read, limit, offset)) :
                /\ offset + i \in 1..Len(read) /\ i <= limit
                /\ Items(read, limit, offset)[i] = read[offset + i]
  <1> DEFINE n == Len(read)
             m == IF offset + limit < n THEN offset + limit ELSE n
             a == offset + 1
             s == SubSeq(read, a, m)
  <1>1. n \in Nat /\ offset + limit \in Int
    OBVIOUS
  <1>2. Min({offset + limit, n}) = m
    BY <1>1, MinOfTwo
  <1>3. Items(read, limit, offset) = s
    BY <1>2 DEF Items
  <1>4. CASE n <= offset
    <2>1. m = n /\ m < a
      BY <1>1, <1>4
    <2>2. s = <<>>
      <3> HIDE DEF m, a
      <3>1. m \in Int /\ a \in Int
        BY <1>1, <2>1 DEF a
      <3> QED BY <2>1, <3>1
    <2> HIDE DEF s
    <2> QED BY <1>3, <1>4, <2>2
  <1>5. CASE ~(n <= offset)
    <2>1. a \in 1..n + 1 /\ m \in a - 1..n /\ m - a + 1 = m - offset /\ m - offset \in Nat
          /\ m - offset <= limit
      BY <1>1, <1>5
    <2>2. /\ s \in Seq(Int) /\ Len(s) = m - a + 1
          /\ \A i \in 1..m - a + 1 : s[i] = read[a + i - 1]
      <3> HIDE DEF m, a
      <3> QED BY <2>1, SubSeqShape
    <2> HIDE DEF s
    <2>3. ASSUME NEW i \in 1..m - offset
          PROVE  offset + i \in 1..n /\ i <= limit /\ s[i] = read[offset + i]
      <3>1. a + i - 1 = offset + i
        OBVIOUS
      <3>2. offset + i \in 1..n /\ i <= limit
        BY <1>1, <2>1
      <3>3. i \in 1..m - a + 1
        BY <2>1
      <3> HIDE DEF m, a
      <3> QED BY <2>2, <3>1, <3>2, <3>3
    <2>4. m - offset = IF offset + limit < n THEN limit ELSE n - offset
      BY <1>1
    <2>5. Len(s) = m - offset
      BY <2>1, <2>2
    <2> HIDE DEF m, a
    <2> QED BY <1>3, <1>5, <2>2, <2>3, <2>4, <2>5
  <1> QED BY <1>4, <1>5

(* Page k has what is in the table from its offset on. *)
PageHas(w, k, page, table, before, offset) ==
    /\ table \in Table /\ before \in Table /\ offset \in Nat
    /\ table = TableOf(w, 2 * k) /\ before = TableOf(w, 2 * k - 1)
    /\ offset = w.limit * (k - 1)
    /\ page.items \in Seq(Int)
    /\ Len(page.items) = IF Len(table) <= offset THEN 0
                         ELSE IF offset + w.limit < Len(table) THEN w.limit
                         ELSE Len(table) - offset
    /\ \A i \in 1..Len(page.items) :
         /\ offset + i \in 1..Len(table) /\ i <= w.limit
         /\ \A r : r \notin TiedRows(w) => (page.items[i] = r <=> table[offset + i] = r)
    /\ GoesOn(w.listing, page) <=> IF w.listing = "documents"
                                   THEN offset + Len(page.items) < Len(before)
                                   ELSE Len(page.items) = w.limit

LEMMA PageShape ==
    ASSUME NEW w, WalkOk(w), NEW k \in Nat \ {0}
    PROVE  \E table, before, offset : PageHas(w, k, PageOf(w, k), table, before, offset)
  <1> DEFINE table == TableOf(w, 2 * k)
             before == TableOf(w, 2 * k - 1)
             read == IF k \in w.permuted THEN Relisted(table, w.tied) ELSE table
             offset == w.limit * (k - 1)
             page == PageOf(w, k)
             items == Items(read, w.limit, offset)
  <1>1. /\ w.limit \in Nat \ {0} /\ w.listing \in {"documents", "jobs"}
        /\ DOMAIN w.tied \subseteq Int /\ \A r \in DOMAIN w.tied : w.tied[r] \in DOMAIN w.tied
        /\ w.rows \in Table /\ w.changes \in Seq(ChangeSet) /\ Ordered(w.changes)
    BY DEF WalkOk
  <1>2. table \in Table /\ before \in Table
    <2>1. 2 * k \in Int /\ 2 * k - 1 \in Int
      OBVIOUS
    <2> QED BY <1>1, <2>1, TablesStay DEF TableOf
  <1>3. offset \in Nat
    BY <1>1
  <1>4. page = IF w.listing = "documents" THEN DocumentPage(before, read, w.limit, offset)
               ELSE JobPage(read, w.limit, offset)
    BY DEF PageOf, TableOf
  <1> HIDE DEF page, table, before, offset
  <1>5. /\ read \in Seq(Int) /\ Len(read) = Len(table)
        /\ \A i \in 1..Len(table) : \A r : r \notin TiedRows(w) => (read[i] = r <=> table[i] = r)
    <2>1. table \in Seq(Int) /\ DOMAIN table = 1..Len(table) /\ Len(table) \in Nat
      BY <1>2 DEF Table
    <2>2. CASE k \in w.permuted
      <3>1. \A r : r \in TiedRows(w) <=> r \in DOMAIN w.tied
        BY DEF TiedRows
      <3> DEFINE s == Relisted(table, w.tied)
      <3>2. /\ s = [i \in 1..Len(table) |-> s[i]]
            /\ \A i \in 1..Len(table) : s[i] = IF table[i] \in DOMAIN w.tied THEN w.tied[table[i]]
                                               ELSE table[i]
        BY <2>1 DEF Relisted
      <3>3. read = s
        BY <2>2
      <3> HIDE DEF s, read
      <3>4. \A i \in 1..Len(table) : s[i] \in Int
        BY <1>1, <2>1, <3>2
      <3>5. s \in Seq(Int) /\ Len(s) = Len(table)
        BY <2>1, <3>2, <3>4
      <3>6. \A i \in 1..Len(table) : \A r : r \notin DOMAIN w.tied => (s[i] = r <=> table[i] = r)
        BY <1>1, <3>2
      <3> QED BY <3>1, <3>3, <3>5, <3>6
    <2>3. CASE k \notin w.permuted
      BY <2>1, <2>3
    <2> QED BY <2>2, <2>3
  <1> HIDE DEF read
  <1>6. /\ items \in Seq(Int)
        /\ Len(items) = IF Len(read) <= offset THEN 0
                        ELSE IF offset + w.limit < Len(read) THEN w.limit ELSE Len(read) - offset
        /\ \A i \in 1..Len(items) : /\ offset + i \in 1..Len(read) /\ i <= w.limit
                                    /\ items[i] = read[offset + i]
    BY <1>1, <1>3, <1>5, ItemsShape
  <1> HIDE DEF items
  <1>7. /\ page.items = items /\ page.limit = w.limit /\ page.offset = offset
        /\ w.listing = "documents" => page.total = Len(before)
    BY <1>1, <1>4 DEF DocumentPage, JobPage, items
  <1>8. GoesOn(w.listing, page) <=> IF w.listing = "documents"
                                    THEN offset + Len(page.items) < Len(before)
                                    ELSE Len(page.items) = w.limit
    BY <1>7 DEF GoesOn, HasMore
  <1>9. \A i \in 1..Len(items) :
         /\ offset + i \in 1..Len(table) /\ i <= w.limit
         /\ \A r : r \notin TiedRows(w) => (items[i] = r <=> table[offset + i] = r)
    BY <1>5, <1>6
  <1>10. PageHas(w, k, page, table, before, offset)
    BY <1>2, <1>3, <1>5, <1>6, <1>7, <1>8, <1>9 DEF PageHas, table, before, offset
  <1> QED BY <1>10 DEF page

(* The untied rows a page shows are those between its offset and the next. *)
ShownAt(w, k) == ToSet(PageOf(w, k).items) \ TiedRows(w)

LEMMA PageShows ==
    ASSUME NEW w, WalkOk(w), NEW k \in Nat \ {0}
    PROVE  ShownAt(w, k) = (First(TableOf(w, 2 * k), w.limit * k)
                              \ First(TableOf(w, 2 * k), w.limit * (k - 1))) \ TiedRows(w)
  <1> DEFINE page == PageOf(w, k)
  <1>1. PICK table, before, offset : PageHas(w, k, page, table, before, offset)
    BY PageShape
  <1> DEFINE n == Len(table)
             m == Len(page.items)
  <1>2. w.limit \in Nat \ {0}
    BY DEF WalkOk
  <1>3. /\ n \in Nat /\ m \in Nat /\ offset \in Nat
        /\ offset = w.limit * (k - 1) /\ offset + w.limit = w.limit * k
        /\ m = IF n <= offset THEN 0 ELSE IF offset + w.limit < n THEN w.limit ELSE n - offset
        /\ \A i \in 1..m : /\ offset + i \in 1..n /\ i <= w.limit
                           /\ \A r : r \notin TiedRows(w) =>
                                  (page.items[i] = r <=> table[offset + i] = r)
        /\ table = TableOf(w, 2 * k) /\ table \in Table
    BY <1>1, <1>2, RowsAreFinite DEF PageHas
  <1>4. DOMAIN page.items = 1..m
    BY <1>1 DEF PageHas
  <1>5. \A i, j \in 1..n : table[i] = table[j] => i = j
    BY <1>3 DEF Table
  <1> HIDE DEF n, m, page
  <1>6. ASSUME NEW r, r \notin TiedRows(w), r \in ToSet(page.items)
        PROVE  r \in First(table, offset + w.limit) /\ r \notin First(table, offset)
    <2>1. PICK i \in 1..m : page.items[i] = r
      BY <1>4, <1>6 DEF ToSet
    <2>2. offset + i \in 1..n /\ offset + i <= offset + w.limit /\ table[offset + i] = r
      BY <1>2, <1>3, <1>6, <2>1
    <2>3. r \in First(table, offset + w.limit)
      BY <2>2 DEF First, n
    <2>4. \A j \in 1..n : j <= offset => table[j] # r
      BY <1>3, <1>5, <2>2
    <2> QED BY <2>3, <2>4 DEF First, n
  <1>7. ASSUME NEW r, r \notin TiedRows(w), r \in First(table, offset + w.limit),
               r \notin First(table, offset)
        PROVE  r \in ToSet(page.items)
    <2>1. PICK j \in 1..n : j <= offset + w.limit /\ table[j] = r
      BY <1>7 DEF First, n
    <2>2. ~(j <= offset)
      BY <1>7, <2>1 DEF First, n
    <2> DEFINE i == j - offset
    <2>3. i \in 1..m /\ offset + i = j
      BY <1>2, <1>3, <2>1, <2>2
    <2> HIDE DEF i
    <2>4. page.items[i] = r
      BY <1>3, <1>7, <2>1, <2>3
    <2> QED BY <1>4, <2>3, <2>4 DEF ToSet
  <1>8. ShownAt(w, k) = (First(table, offset + w.limit) \ First(table, offset)) \ TiedRows(w)
    BY <1>6, <1>7 DEF ShownAt, page
  <1> QED BY <1>3, <1>8

Seen(w, k) == UNION {ShownAt(w, q) : q \in 1..k}

LEMMA SeenGrows ==
    ASSUME NEW w, NEW k \in Nat
    PROVE  Seen(w, k + 1) = Seen(w, k) \cup ShownAt(w, k + 1)
  <1>1. \A q \in 1..k + 1 : q \in 1..k \/ q = k + 1
    OBVIOUS
  <1>2. \A q \in 1..k : q \in 1..k + 1
    OBVIOUS
  <1>3. k + 1 \in 1..k + 1
    OBVIOUS
  <1>4. ASSUME NEW r PROVE r \in Seen(w, k + 1) <=> r \in Seen(w, k) \/ r \in ShownAt(w, k + 1)
    BY <1>1, <1>2, <1>3 DEF Seen
  <1> QED BY <1>4

LEMMA FirstGrows ==
    ASSUME NEW t \in Table, NEW a \in Int, NEW b \in Int, a <= b
    PROVE  First(t, a) \subseteq First(t, b) /\ First(t, b) \subseteq Rows(t)
  <1>1. \A j \in 1..Len(t) : j <= a => j <= b
    BY RowsAreFinite
  <1> QED BY <1>1 DEF First, Rows

(* Two spans of time, one after the other. *)
LEMMA BetweenAdds ==
    ASSUME NEW D, NEW changes \in Seq(ChangeSet), NEW a \in Int, NEW m \in Int, NEW b \in Int,
           a - 1 <= m, m <= b
    PROVE  Cardinality(Between(D, changes, a, b)) =
               Cardinality(Between(D, changes, a, m)) + Cardinality(Between(D, changes, m + 1, b))
  <1> DEFINE X == Between(D, changes, a, m)
             Y == Between(D, changes, m + 1, b)
             Z == Between(D, changes, a, b)
  <1>1. \A i \in 1..Len(changes) : changes[i].at \in Int
    BY ChangeFields
  <1>2. Z = X \cup Y /\ X \cap Y = {}
    BY <1>1 DEF Between
  <1>3. IsFiniteSet(X) /\ IsFiniteSet(Y) /\ Cardinality(X) \in Nat /\ Cardinality(Y) \in Nat
    <2>1. m + 1 \in Int
      OBVIOUS
    <2> QED BY <2>1, BetweenIsFinite
  <1> HIDE DEF X, Y, Z
  <1>4. Cardinality(X \cup Y) = Cardinality(X) + Cardinality(Y) - Cardinality(X \cap Y)
    BY <1>3, FS_Union
  <1>5. Cardinality(X \cap Y) = 0
    BY <1>2, FS_EmptySet
  <1>6. Cardinality(Z) = Cardinality(X) + Cardinality(Y)
    BY <1>2, <1>3, <1>4, <1>5
  <1> QED BY <1>6 DEF X, Y, Z

IsWalk(w, pages, K) ==
    /\ K \in Nat \ {0} /\ DOMAIN pages = 1..K
    /\ \A k \in 1..K : pages[k] = PageOf(w, k)

(* What a page repeats was seen before. *)
LEMMA RepeatsWereSeen ==
    ASSUME NEW w, WalkOk(w), NEW pages, NEW K, IsWalk(w, pages, K), NEW p \in 1..K
    PROVE  /\ IsFiniteSet(Repeats(pages, p, TiedRows(w)))
           /\ IsFiniteSet(Seen(w, p - 1) \cap ShownAt(w, p))
           /\ Cardinality(Repeats(pages, p, TiedRows(w))) <=
                Cardinality(Seen(w, p - 1) \cap ShownAt(w, p))
  <1> DEFINE page == PageOf(w, p)
             m == Len(page.items)
             R == Repeats(pages, p, TiedRows(w))
             S == Seen(w, p - 1) \cap ShownAt(w, p)
             f == [i \in R |-> page.items[i]]
  <1>1. /\ K \in Nat /\ p \in Nat \ {0} /\ pages[p] = page
        /\ \A q \in 1..p - 1 : pages[q] = PageOf(w, q)
    <2>1. K \in Nat \ {0} /\ \A k \in 1..K : pages[k] = PageOf(w, k)
      BY DEF IsWalk
    <2>2. \A q \in 1..p - 1 : q \in 1..K
      BY <2>1
    <2> QED BY <2>1, <2>2
  <1>2. PICK table, before, offset : PageHas(w, p, page, table, before, offset)
    BY <1>1, PageShape
  <1>3. /\ DOMAIN page.items = 1..m /\ m \in Nat /\ offset \in Nat /\ table \in Table
        /\ \A i \in 1..m : /\ offset + i \in 1..Len(table)
                           /\ \A r : r \notin TiedRows(w) =>
                                  (page.items[i] = r <=> table[offset + i] = r)
        /\ \A q \in Nat : q \in 1..m => offset + q \in Nat
    BY <1>2 DEF PageHas
  <1>4. \A i, j \in 1..Len(table) : table[i] = table[j] => i = j
    BY <1>3 DEF Table
  <1>5. \A i, j \in 1..m : page.items[i] = page.items[j] /\ page.items[i] \notin TiedRows(w) => i = j
    <2> SUFFICES ASSUME NEW i \in 1..m, NEW j \in 1..m, page.items[i] = page.items[j],
                        page.items[i] \notin TiedRows(w)
                 PROVE  i = j
      OBVIOUS
    <2>1. table[offset + i] = page.items[i] /\ table[offset + j] = page.items[i]
      BY <1>3
    <2>2. offset + i = offset + j
      BY <1>3, <1>4, <2>1
    <2> QED BY <1>3, <2>2
  <1> HIDE DEF page, m
  <1>6. ASSUME NEW i \in R
        PROVE  i \in 1..m /\ page.items[i] \notin TiedRows(w) /\ page.items[i] \in S
    <2>1. /\ i \in 1..m /\ page.items[i] \notin TiedRows(w)
          /\ \/ \E q \in 1..p - 1 : page.items[i] \in ToSet(pages[q].items)
             \/ \E j \in 1..i - 1 : page.items[i] = page.items[j]
      BY <1>1, <1>3 DEF Repeats
    <2>2. ~ \E j \in 1..i - 1 : page.items[i] = page.items[j]
      BY <1>3, <1>5, <2>1
    <2>3. PICK q \in 1..p - 1 : page.items[i] \in ToSet(pages[q].items)
      BY <2>1, <2>2
    <2>4. page.items[i] \in ShownAt(w, q)
      BY <1>1, <2>1, <2>3 DEF ShownAt
    <2>5. page.items[i] \in Seen(w, p - 1)
      BY <2>4 DEF Seen
    <2>6. page.items[i] \in ShownAt(w, p)
      <3>1. page.items[i] \in ToSet(page.items)
        BY <1>3, <2>1 DEF ToSet
      <3> QED BY <2>1, <3>1 DEF ShownAt, page
    <2> QED BY <2>1, <2>5, <2>6
  <1>7. IsFiniteSet(S)
    <2>1. IsFiniteSet(ShownAt(w, p))
      <3>1. ShownAt(w, p) \subseteq First(TableOf(w, 2 * p), w.limit * p)
        BY <1>1, PageShows
      <3>2. TableOf(w, 2 * p) = table
        BY <1>2 DEF PageHas
      <3>3. ShownAt(w, p) \subseteq Rows(table)
        BY <3>1, <3>2 DEF First, Rows
      <3> QED BY <1>3, <3>3, RowsAreFinite
    <2>2. S \in SUBSET ShownAt(w, p)
      OBVIOUS
    <2> HIDE DEF S
    <2> QED BY <2>1, <2>2, FS_Subset
  <1> HIDE DEF R, S
  <1>8. f \in Injection(R, S)
    <2>1. f \in [R -> S]
      BY <1>6
    <2>2. \A i, j \in R : f[i] = f[j] => i = j
      BY <1>5, <1>6
    <2> QED BY <2>1, <2>2 DEF Injection, IsInjective
  <1> HIDE DEF f
  <1> QED BY <1>7, <1>8, FS_Injection DEF R, S

RepeatsUpTo(w, pages, k) == UNION {{p} \X Repeats(pages, p, TiedRows(w)) : p \in 1..k}

LEMMA RepeatsAdd ==
    ASSUME NEW w, NEW pages, NEW k \in Nat, IsFiniteSet(RepeatsUpTo(w, pages, k)),
           IsFiniteSet(Repeats(pages, k + 1, TiedRows(w)))
    PROVE  /\ IsFiniteSet(RepeatsUpTo(w, pages, k + 1))
           /\ Cardinality(RepeatsUpTo(w, pages, k + 1)) =
                Cardinality(RepeatsUpTo(w, pages, k))
                  + Cardinality(Repeats(pages, k + 1, TiedRows(w)))
  <1> DEFINE T == TiedRows(w)
             X == RepeatsUpTo(w, pages, k)
             A == Repeats(pages, k + 1, T)
             Y == {k + 1} \X A
  <1>1. RepeatsUpTo(w, pages, k + 1) = X \cup Y
    <2>1. \A q \in 1..k + 1 : q \in 1..k \/ q = k + 1
      OBVIOUS
    <2>2. \A q \in 1..k : q \in 1..k + 1
      OBVIOUS
    <2>3. k + 1 \in 1..k + 1
      OBVIOUS
    <2>4. ASSUME NEW x PROVE x \in RepeatsUpTo(w, pages, k + 1) <=> x \in X \/ x \in Y
      BY <2>1, <2>2, <2>3 DEF RepeatsUpTo
    <2> QED BY <2>4
  <1>2. X \cap Y = {}
    <2>1. ASSUME NEW x \in X, x \in Y PROVE FALSE
      <3>1. PICK q \in 1..k : x \in {q} \X Repeats(pages, q, T)
        BY <2>1 DEF RepeatsUpTo
      <3>2. x[1] = q /\ x[1] = k + 1
        BY <2>1, <3>1
      <3> QED BY <3>1, <3>2
    <2> QED BY <2>1
  <1>3. IsFiniteSet(Y) /\ Cardinality(Y) = Cardinality(A) /\ Cardinality(A) \in Nat
    <2> HIDE DEF A
    <2>1. IsFiniteSet({k + 1}) /\ Cardinality({k + 1}) = 1
      BY FS_Singleton
    <2>2. IsFiniteSet(A) /\ Cardinality(A) \in Nat
      BY FS_CardinalityType DEF A
    <2>3. IsFiniteSet(Y) /\ Cardinality(Y) = Cardinality({k + 1}) * Cardinality(A)
      BY <2>1, <2>2, FS_Product
    <2> QED BY <2>1, <2>2, <2>3
  <1>4. IsFiniteSet(X) /\ Cardinality(X) \in Nat
    BY FS_CardinalityType
  <1> HIDE DEF X, Y
  <1>5. /\ IsFiniteSet(X \cup Y)
        /\ Cardinality(X \cup Y) = Cardinality(X) + Cardinality(Y) - Cardinality(X \cap Y)
    BY <1>3, <1>4, FS_Union
  <1>6. Cardinality(X \cap Y) = 0
    BY <1>2, FS_EmptySet
  <1>7. Cardinality(X \cup Y) = Cardinality(X) + Cardinality(A)
    BY <1>3, <1>4, <1>5, <1>6
  <1> QED BY <1>1, <1>5, <1>7 DEF X, A, T

(* How often a walk has repeated itself, and may yet do so.                *)
LEMMA RepeatsAreChanges ==
    ASSUME NEW w, WalkOk(w), NEW pages, NEW K, IsWalk(w, pages, K)
    PROVE  Cardinality(RepeatsUpTo(w, pages, K)) <=
             Cardinality(Between(KindsAt(w.changes, {"new", "moved"}), w.changes, 3, 2 * K))
  <1> DEFINE D == KindsAt(w.changes, {"new", "moved"})
             T(k) == TableOf(w, 2 * k)
             B(a, b) == Cardinality(Between(D, w.changes, a, b))
             R(k) == RepeatsUpTo(w, pages, k)
             P(k) == /\ IsFiniteSet(R(k))
                     /\ Cardinality(R(k)) + Cardinality(Beyond(T(k), Seen(w, k), w.limit * k))
                           <= B(3, 2 * k)
  <1>1. /\ w.limit \in Nat \ {0} /\ w.rows \in Table /\ w.changes \in Seq(ChangeSet)
        /\ Ordered(w.changes) /\ K \in Nat \ {0}
    BY DEF WalkOk, IsWalk
  <1>2. \A k \in Nat : T(k) \in Table
    <2> TAKE k \in Nat
    <2>1. 2 * k \in Int
      OBVIOUS
    <2> QED BY <1>1, <2>1, TablesStay DEF TableOf
  <1>3. \A k \in Nat, b \in Int : \A S : /\ IsFiniteSet(Beyond(T(k), S, b))
                                       /\ Cardinality(Beyond(T(k), S, b)) \in Nat
    <2>1. \A t, S, b : Beyond(t, S, b) \subseteq Rows(t)
      BY DEF Beyond
    <2> HIDE DEF T
    <2> QED BY <1>2, <2>1, RowsAreFinite
  <1>4. \A a \in Int, b \in Int : B(a, b) \in Nat
    BY <1>1, BetweenIsFinite
  <1>5. P(1)
    <2>1. R(1) = {}
      <3>1. Repeats(pages, 1, TiedRows(w)) = {}
        <4>1. IsFiniteSet(Repeats(pages, 1, TiedRows(w)))
              /\ IsFiniteSet(Seen(w, 1 - 1) \cap ShownAt(w, 1))
              /\ Cardinality(Repeats(pages, 1, TiedRows(w))) <=
                   Cardinality(Seen(w, 1 - 1) \cap ShownAt(w, 1))
          <5> DEFINE one == 1
          <5>1. one \in 1..K
            BY <1>1
          <5> HIDE DEF one
          <5>2. IsFiniteSet(Repeats(pages, one, TiedRows(w)))
                /\ IsFiniteSet(Seen(w, one - 1) \cap ShownAt(w, one))
                /\ Cardinality(Repeats(pages, one, TiedRows(w))) <=
                     Cardinality(Seen(w, one - 1) \cap ShownAt(w, one))
            BY <5>1, RepeatsWereSeen
          <5> QED BY <5>2 DEF one
        <4>2. Seen(w, 1 - 1) \cap ShownAt(w, 1) = {}
          BY DEF Seen
        <4>3. Cardinality(Seen(w, 1 - 1) \cap ShownAt(w, 1)) = 0
          BY <4>2, FS_EmptySet
        <4>4. Cardinality(Repeats(pages, 1, TiedRows(w))) \in Nat
          BY <4>1, FS_CardinalityType
        <4>5. Cardinality(Repeats(pages, 1, TiedRows(w))) = 0
          BY <4>1, <4>3, <4>4
        <4> QED BY <4>1, <4>5, FS_EmptySet
      <3>2. 1..1 = {1}
        OBVIOUS
      <3> QED BY <3>1, <3>2 DEF RepeatsUpTo
    <2>2. Beyond(T(1), Seen(w, 1), w.limit * 1) = {}
      <3>1. Seen(w, 1) = ShownAt(w, 1)
        <4>1. 1..1 = {1}
          OBVIOUS
        <4> QED BY <4>1 DEF Seen
      <3>2. ShownAt(w, 1) \subseteq First(TableOf(w, 2 * 1), w.limit * 1)
        <4> DEFINE one == 1
        <4>1. one \in Nat \ {0}
          OBVIOUS
        <4> HIDE DEF one
        <4>2. ShownAt(w, one) \subseteq First(TableOf(w, 2 * one), w.limit * one)
          BY <4>1, PageShows
        <4> QED BY <4>2 DEF one
      <3> QED BY <3>1, <3>2 DEF Beyond
    <2>3. IsFiniteSet(R(1)) /\ Cardinality(R(1)) = 0
          /\ Cardinality(Beyond(T(1), Seen(w, 1), w.limit * 1)) = 0
      BY <2>1, <2>2, FS_EmptySet
    <2>4. B(3, 2 * 1) \in Nat
      BY <1>4
    <2> HIDE DEF R, T, B
    <2> QED BY <2>3, <2>4
  <1>6. ASSUME NEW k \in Nat \ {0}, k + 1 \in 1..K, P(k) PROVE P(k + 1)
    <2> DEFINE b == w.limit * k
               l == k + 1
               S == Seen(w, k)
               A == Repeats(pages, l, TiedRows(w))
               X == S \cap ShownAt(w, l)
               Y == Beyond(T(l), Seen(w, l), w.limit * l)
               Z == Beyond(T(l), S, b)
    <2>1. /\ b \in Nat \ {0} /\ w.limit * l = b + w.limit /\ w.limit * l \in Int
          /\ l \in Nat \ {0} /\ l - 1 = k /\ k \in Nat
      BY <1>1
    <2>2. Cardinality(Z) <= Cardinality(Beyond(T(k), S, b)) + B(2 * k + 1, 2 * l)
      <3>1. 2 * k \in Int /\ 2 * l \in Int /\ 2 * k <= 2 * l
        BY <2>1
      <3> HIDE DEF b, l, S
      <3> QED BY <1>1, <2>1, <3>1, BeyondGrows DEF TableOf
    <2>3. B(3, 2 * l) = B(3, 2 * k) + B(2 * k + 1, 2 * l)
      <3>1. /\ 3 \in Int /\ 2 * k \in Int /\ 2 * l \in Int /\ 3 - 1 <= 2 * k /\ 2 * k <= 2 * l
        BY <2>1
      <3> DEFINE three == 3
      <3> HIDE DEF D, l, three
      <3>2. B(three, 2 * l) = B(three, 2 * k) + B(2 * k + 1, 2 * l)
        <4>1. three \in Int /\ three - 1 <= 2 * k
          BY <3>1 DEF three
        <4> QED BY <1>1, <3>1, <4>1, BetweenAdds
      <3> QED BY <3>2 DEF three
    <2>4. /\ IsFiniteSet(A) /\ IsFiniteSet(X) /\ Cardinality(A) <= Cardinality(X)
      <3>1. /\ IsFiniteSet(A) /\ IsFiniteSet(Seen(w, l - 1) \cap ShownAt(w, l))
            /\ Cardinality(A) <= Cardinality(Seen(w, l - 1) \cap ShownAt(w, l))
        <4> HIDE DEF l
        <4>1. l \in 1..K
          BY <1>6 DEF l
        <4> QED BY <4>1, RepeatsWereSeen
      <3>2. l - 1 = k
        BY <2>1
      <3> HIDE DEF l
      <3> QED BY <3>1, <3>2
    <2>5. X \subseteq Z /\ Y \subseteq Z /\ X \cap Y = {}
      <3>1. ShownAt(w, l) = (First(T(l), w.limit * l) \ First(T(l), b)) \ TiedRows(w)
        <4> HIDE DEF l
        <4>1. ShownAt(w, l) = (First(T(l), w.limit * l) \ First(T(l), w.limit * (l - 1))) \ TiedRows(w)
          BY <2>1, PageShows
        <4> QED BY <2>1, <4>1
      <3>2. First(T(l), b) \subseteq First(T(l), w.limit * l)
            /\ First(T(l), w.limit * l) \subseteq Rows(T(l))
        <4>1. b <= w.limit * l /\ b \in Int /\ w.limit * l \in Int /\ T(l) \in Table
          <5> HIDE DEF T, b, l
          <5>1. T(l) \in Table
            BY <1>2, <2>1
          <5>2. b <= w.limit * l /\ b \in Int
            <6>1. b \in Nat /\ w.limit \in Nat /\ w.limit * l = b + w.limit
              BY <1>1, <2>1
            <6> QED BY <6>1
          <5> QED BY <2>1, <5>1, <5>2
        <4> HIDE DEF T, b, l
        <4> QED BY <4>1, FirstGrows
      <3>3. Seen(w, l) = S \cup ShownAt(w, l)
        BY <2>1, SeenGrows
      <3> HIDE DEF S, l, b, T
      <3> QED BY <3>1, <3>2, <3>3 DEF Beyond
    <2>6. IsFiniteSet(Y) /\ IsFiniteSet(Z) /\ Cardinality(Y) \in Nat /\ Cardinality(Z) \in Nat
          /\ Cardinality(Beyond(T(k), S, b)) \in Nat
      <3> HIDE DEF T, b, l, S
      <3>1. l \in Nat /\ k \in Nat /\ b \in Int /\ w.limit * l \in Int
        BY <2>1
      <3> QED BY <1>3, <3>1
    <2>7. Cardinality(X) + Cardinality(Y) <= Cardinality(Z)
      <3> HIDE DEF X, Y, Z
      <3>1. /\ IsFiniteSet(X \cup Y)
            /\ Cardinality(X \cup Y) = Cardinality(X) + Cardinality(Y) - Cardinality(X \cap Y)
        BY <2>4, <2>6, FS_Union
      <3>2. Cardinality(X \cap Y) = 0
        BY <2>5, FS_EmptySet
      <3>3. X \cup Y \subseteq Z
        BY <2>5
      <3>4. Cardinality(X \cup Y) <= Cardinality(Z)
        BY <2>6, <3>3, NoneMore
      <3>5. Cardinality(X) \in Nat
        BY <2>4, FS_CardinalityType
      <3> QED BY <2>6, <3>1, <3>2, <3>4, <3>5
    <2>8. IsFiniteSet(R(l)) /\ Cardinality(R(l)) = Cardinality(R(k)) + Cardinality(A)
      BY <1>6, <2>1, <2>4, RepeatsAdd
    <2>9. /\ Cardinality(A) \in Nat /\ Cardinality(X) \in Nat /\ Cardinality(R(k)) \in Nat
          /\ B(3, 2 * k) \in Nat /\ B(2 * k + 1, 2 * l) \in Nat
      <3>1. 2 * k \in Int /\ 2 * k + 1 \in Int /\ 2 * l \in Int /\ 3 \in Int
        BY <2>1
      <3>2. IsFiniteSet(R(k))
        BY <1>6
      <3> HIDE DEF A, X, R, B, l
      <3> QED BY <1>4, <2>4, <3>1, <3>2, FS_CardinalityType
    <2>10. Cardinality(R(k)) + Cardinality(Beyond(T(k), S, b)) <= B(3, 2 * k)
      BY <1>6
    <2>11. Cardinality(R(l)) + Cardinality(Y) <= B(3, 2 * l)
      <3> HIDE DEF R, Y, B, l, A, X, Z, S, b, T
      <3> QED BY <2>2, <2>3, <2>4, <2>6, <2>7, <2>8, <2>9, <2>10
    <2> QED BY <2>8, <2>11
  <1> DEFINE S == {k \in 0..K : k > 0 => P(k)}
  <1>7. \A k \in 0..K : k \in S
    <2> HIDE DEF P
    <2>1. 0 \in S
      BY <1>1
    <2>2. \A k \in 0..K : k \in S /\ k < K => k + 1 \in S
      <3> TAKE k \in 0..K
      <3> SUFFICES ASSUME k \in S, k < K PROVE k + 1 \in S
        OBVIOUS
      <3>1. k + 1 \in 0..K /\ k + 1 \in 1..K
        BY <1>1
      <3>2. CASE k = 0
        BY <1>5, <3>1, <3>2
      <3>3. CASE k # 0
        BY <1>6, <3>1, <3>3
      <3> QED BY <3>2, <3>3
    <2> HIDE DEF S
    <2>3. K \in Nat
      BY <1>1
    <2> QED BY <2>1, <2>2, <2>3, InductionUpTo
  <1>8. P(K)
    <2> HIDE DEF P
    <2>1. K \in 0..K /\ K > 0
      BY <1>1
    <2> QED BY <1>7, <2>1
  <1>9. Cardinality(R(K)) \in Nat /\ Cardinality(Beyond(T(K), Seen(w, K), w.limit * K)) \in Nat
        /\ B(3, 2 * K) \in Nat
    <2>1. K \in Nat /\ w.limit * K \in Int /\ 2 * K \in Int /\ 3 \in Int
      BY <1>1
    <2>2. IsFiniteSet(R(K))
      BY <1>8
    <2> HIDE DEF R, B, T
    <2> QED BY <1>3, <1>4, <2>1, <2>2, FS_CardinalityType
  <1>10. Cardinality(R(K)) <= B(3, 2 * K)
    <2>1. Cardinality(R(K)) + Cardinality(Beyond(T(K), Seen(w, K), w.limit * K)) <= B(3, 2 * K)
      BY <1>8
    <2> HIDE DEF R, B, T
    <2> QED BY <1>9, <2>1
  <1> QED BY <1>10

(* No more rows are past the first b places than places are.               *)
LEMMA RestIsShort ==
    ASSUME NEW t \in Table, NEW b \in Nat, NEW S, S \subseteq Rows(t) \ First(t, b)
    PROVE  /\ IsFiniteSet(S) /\ Cardinality(S) \in Nat
           /\ Len(t) <= b => Cardinality(S) = 0
           /\ Len(t) > b => Cardinality(S) <= Len(t) - b
  <1> DEFINE n == Len(t)
             I == b + 1..n
             W == {t[i] : i \in I}
             f == [i \in I |-> t[i]]
  <1>1. n \in Nat /\ IsFiniteSet(S) /\ Cardinality(S) \in Nat
    BY RowsAreFinite
  <1>2. IsFiniteSet(I) /\ Cardinality(I) = IF b + 1 > n THEN 0 ELSE n - b
    <2>1. b + 1 \in Int /\ n \in Int /\ n - (b + 1) + 1 = n - b
      BY <1>1
    <2> QED BY <2>1, FS_Interval
  <1>3. f \in Surjection(I, W)
    BY DEF Surjection
  <1>4. S \subseteq W
    <2>1. ASSUME NEW r \in S PROVE r \in W
      <3>1. PICK j \in 1..n : t[j] = r
        BY DEF Rows
      <3>2. ~(j <= b)
        BY <3>1 DEF First
      <3>3. j \in I
        BY <1>1, <3>2
      <3> QED BY <3>1, <3>3
    <2> QED BY <2>1
  <1> HIDE DEF f, W, I
  <1>5. IsFiniteSet(W) /\ Cardinality(W) <= Cardinality(I)
    BY <1>2, <1>3, FS_Surjection
  <1>6. Cardinality(S) <= Cardinality(W) /\ Cardinality(W) \in Nat
    BY <1>4, <1>5, NoneMore, FS_CardinalityType
  <1> QED BY <1>1, <1>2, <1>5, <1>6

Stayed(w) == Rows(w.rows) \ (TiedRows(w) \cup {w.changes[i].row : i \in 1..Len(w.changes)})

(* What a walk has missed so far, of the places it has looked at.          *)
LEMMA MissedUpTo ==
    ASSUME NEW w, WalkOk(w), NEW K \in Nat \ {0}
    PROVE  Cardinality((Stayed(w) \ Seen(w, K)) \cap First(TableOf(w, 2 * K), w.limit * K)) <=
             Cardinality(Between(Drops(w.changes), w.changes, 3, 2 * K))
  <1> DEFINE D == Drops(w.changes)
             T(k) == TableOf(w, 2 * k)
             B(a, b) == Cardinality(Between(D, w.changes, a, b))
             U(k) == Stayed(w) \ Seen(w, k)
             X(k) == U(k) \cap First(T(k), w.limit * k)
             P(k) == Cardinality(X(k)) <= B(3, 2 * k)
  <1>1. /\ w.limit \in Nat \ {0} /\ w.rows \in Table /\ w.changes \in Seq(ChangeSet)
        /\ Ordered(w.changes)
    BY DEF WalkOk
  <1>2. \A k \in Nat : T(k) \in Table
    <2> TAKE k \in Nat
    <2>1. 2 * k \in Int
      OBVIOUS
    <2> QED BY <1>1, <2>1, TablesStay DEF TableOf
  <1>3. \A k \in Nat, b \in Int : \A S : /\ IsFiniteSet(S \cap First(T(k), b))
                                       /\ Cardinality(S \cap First(T(k), b)) \in Nat
    <2>1. \A t, S, b : S \cap First(t, b) \subseteq Rows(t)
      BY DEF First, Rows
    <2> HIDE DEF T
    <2> QED BY <1>2, <2>1, RowsAreFinite
  <1>4. \A a \in Int, b \in Int : B(a, b) \in Nat
    BY <1>1, BetweenIsFinite
  <1>5. \A k, r : r \in U(k) => r \notin TiedRows(w)
    BY DEF Stayed
  <1>6. P(1)
    <2> DEFINE one == 1
    <2>1. one \in Nat \ {0} /\ w.limit * (one - 1) = 0
      BY <1>1
    <2>2. Seen(w, 1) = ShownAt(w, 1)
      <3>1. 1..1 = {1}
        OBVIOUS
      <3> QED BY <3>1 DEF Seen
    <2> HIDE DEF one
    <2>3. ShownAt(w, one) = (First(TableOf(w, 2 * one), w.limit * one)
                              \ First(TableOf(w, 2 * one), w.limit * (one - 1))) \ TiedRows(w)
      BY <2>1, PageShows
    <2>4. First(TableOf(w, 2 * one), w.limit * (one - 1)) = {}
      <3>1. \A t : First(t, 0) = {}
        BY DEF First
      <3> QED BY <2>1, <3>1
    <2>5. X(1) = {}
      BY <2>2, <2>3, <2>4 DEF one, Stayed
    <2>6. Cardinality(X(1)) = 0
      BY <2>5, FS_EmptySet
    <2>7. B(3, 2 * 1) \in Nat
      BY <1>4
    <2> HIDE DEF X, B
    <2> QED BY <2>6, <2>7
  <1>7. ASSUME NEW k \in Nat \ {0}, P(k) PROVE P(k + 1)
    <2> DEFINE b == w.limit * k
               l == k + 1
               S == U(k)
               Z == S \cap First(T(l), b)
    <2>1. /\ b \in Nat \ {0} /\ w.limit * l = b + w.limit /\ w.limit * l \in Int
          /\ l \in Nat \ {0} /\ l - 1 = k /\ k \in Nat
      BY <1>1
    <2>2. Cardinality(Z) <= Cardinality(S \cap First(T(k), b)) + B(2 * k + 1, 2 * l)
      <3>1. 2 * k \in Int /\ 2 * l \in Int /\ 2 * k <= 2 * l
        BY <2>1
      <3>2. \A i \in 1..Len(w.changes) : w.changes[i].row \notin S
        BY DEF Stayed
      <3> HIDE DEF b, l, S
      <3> QED BY <1>1, <2>1, <3>1, <3>2, HeldGrows DEF TableOf
    <2>3. B(3, 2 * l) = B(3, 2 * k) + B(2 * k + 1, 2 * l)
      <3>1. /\ 3 \in Int /\ 2 * k \in Int /\ 2 * l \in Int /\ 3 - 1 <= 2 * k /\ 2 * k <= 2 * l
        BY <2>1
      <3> DEFINE three == 3
      <3> HIDE DEF D, l, three
      <3>2. B(three, 2 * l) = B(three, 2 * k) + B(2 * k + 1, 2 * l)
        <4>1. three \in Int /\ three - 1 <= 2 * k
          BY <3>1 DEF three
        <4> QED BY <1>1, <3>1, <4>1, BetweenAdds
      <3> QED BY <3>2 DEF three
    <2>4. X(l) \subseteq Z
      <3>1. ShownAt(w, l) = (First(T(l), w.limit * l) \ First(T(l), b)) \ TiedRows(w)
        <4> HIDE DEF l
        <4>1. ShownAt(w, l) = (First(T(l), w.limit * l) \ First(T(l), w.limit * (l - 1))) \ TiedRows(w)
          BY <2>1, PageShows
        <4> QED BY <2>1, <4>1
      <3>2. Seen(w, l) = Seen(w, k) \cup ShownAt(w, l)
        BY <2>1, SeenGrows
      <3> HIDE DEF l, b, T
      <3> QED BY <3>1, <3>2 DEF Stayed
    <2>5. IsFiniteSet(Z) /\ Cardinality(Z) \in Nat /\ Cardinality(S \cap First(T(k), b)) \in Nat
      <3> HIDE DEF T, b, l, S
      <3>1. l \in Nat /\ k \in Nat /\ b \in Int
        BY <2>1
      <3> QED BY <1>3, <3>1
    <2>6. Cardinality(X(l)) \in Nat /\ Cardinality(X(l)) <= Cardinality(Z)
      <3> HIDE DEF X, Z
      <3> QED BY <2>4, <2>5, NoneMore
    <2>7. B(3, 2 * k) \in Nat /\ B(2 * k + 1, 2 * l) \in Nat
      <3>1. 2 * k \in Int /\ 2 * k + 1 \in Int /\ 2 * l \in Int /\ 3 \in Int
        BY <2>1
      <3> HIDE DEF B, l
      <3> QED BY <1>4, <3>1
    <2>8. Cardinality(S \cap First(T(k), b)) <= B(3, 2 * k)
      BY <1>7
    <2>9. Cardinality(X(l)) <= B(3, 2 * l)
      <3> HIDE DEF X, B, l, Z, S, b, T
      <3> QED BY <2>2, <2>3, <2>5, <2>6, <2>7, <2>8
    <2> QED BY <2>9
  <1> DEFINE S == {k \in 0..K : k > 0 => P(k)}
  <1>8. \A k \in 0..K : k \in S
    <2> HIDE DEF P
    <2>1. 0 \in S
      OBVIOUS
    <2>2. \A k \in 0..K : k \in S /\ k < K => k + 1 \in S
      <3> TAKE k \in 0..K
      <3> SUFFICES ASSUME k \in S, k < K PROVE k + 1 \in S
        OBVIOUS
      <3>1. k + 1 \in 0..K
        OBVIOUS
      <3>2. CASE k = 0
        BY <1>6, <3>1, <3>2
      <3>3. CASE k # 0
        <4>1. k \in Nat \ {0} /\ P(k)
          BY <3>3
        <4> QED BY <1>7, <3>1, <4>1
      <3> QED BY <3>2, <3>3
    <2> HIDE DEF S
    <2> QED BY <2>1, <2>2, InductionUpTo
  <1>9. P(K)
    <2> HIDE DEF P
    <2>1. K \in 0..K /\ K > 0
      OBVIOUS
    <2> QED BY <1>8, <2>1
  <1> QED BY <1>9

LEMMA MissedAreChanges ==
    ASSUME NEW w, WalkOk(w), NEW K \in Nat \ {0}, ~GoesOn(w.listing, PageOf(w, K))
    PROVE  Cardinality(Stayed(w) \ Seen(w, K)) <=
             Cardinality(Between(Drops(w.changes), w.changes, 3, 2 * K))
               + IF w.listing = "documents"
                 THEN Cardinality(Between(KindsAt(w.changes, {"new"}), w.changes, 2 * K, 2 * K))
                 ELSE 0
  <1> DEFINE page == PageOf(w, K)
             T == TableOf(w, 2 * K)
             U == Stayed(w) \ Seen(w, K)
             b == w.limit * K
             X == U \cap First(T, b)
             Y == U \ First(T, b)
             G == Cardinality(Between(Drops(w.changes), w.changes, 3, 2 * K))
             N == Cardinality(Between(KindsAt(w.changes, {"new"}), w.changes, 2 * K, 2 * K))
  <1>1. /\ w.limit \in Nat \ {0} /\ w.rows \in Table /\ w.changes \in Seq(ChangeSet)
        /\ Ordered(w.changes) /\ w.listing \in {"documents", "jobs"}
        /\ b \in Nat /\ 2 * K \in Int /\ 2 * K - 1 \in Int /\ (2 * K - 1) + 1 = 2 * K
    BY DEF WalkOk
  <1>2. Cardinality(X) <= G
    BY MissedUpTo
  <1>3. T \in Table /\ U \subseteq Rows(T)
    <2> DEFINE S == Stayed(w)
    <2>1. S \in SUBSET Rows(w.rows) /\ \A i \in 1..Len(w.changes) : w.changes[i].row \notin S
      BY DEF Stayed
    <2> HIDE DEF S
    <2>2. T \in Table /\ S \subseteq Rows(T)
      BY <1>1, <2>1, StayedStays DEF TableOf
    <2> QED BY <2>2 DEF S
  <1>4. PICK table, before, offset : PageHas(w, K, page, table, before, offset)
    BY PageShape
  <1> DEFINE n == Len(T)
             m == Len(page.items)
  <1>5. /\ table = T /\ before = TableOf(w, 2 * K - 1) /\ before \in Table
        /\ offset \in Nat /\ offset + w.limit = b
        /\ m = IF n <= offset THEN 0 ELSE IF b < n THEN w.limit ELSE n - offset
        /\ ~(IF w.listing = "documents" THEN offset + m < Len(before) ELSE m = w.limit)
    <2>1. offset = w.limit * (K - 1) /\ table = T /\ offset \in Nat
      BY <1>4 DEF PageHas
    <2>2. offset + w.limit = b
      BY <1>1, <2>1
    <2> HIDE DEF T, b, page
    <2> QED BY <1>4, <2>1, <2>2 DEF PageHas, page
  <1>6. n \in Nat /\ Len(before) \in Nat
    BY <1>3, <1>5, RowsAreFinite
  <1>7. /\ IsFiniteSet(Y) /\ Cardinality(Y) \in Nat
        /\ n <= b => Cardinality(Y) = 0
        /\ n > b => Cardinality(Y) <= n - b
    <2>1. Y \subseteq Rows(T) \ First(T, b)
      BY <1>3
    <2> HIDE DEF Y, b, T
    <2> QED BY <1>1, <1>3, <2>1, RestIsShort
  <1>8. IsFiniteSet(X) /\ Cardinality(X) \in Nat
    <2>1. X \subseteq Rows(T)
      BY <1>3
    <2> HIDE DEF X, T
    <2> QED BY <1>3, <2>1, RowsAreFinite
  <1>9. Cardinality(U) = Cardinality(X) + Cardinality(Y)
    <2>1. U = X \cup Y /\ X \cap Y = {}
      OBVIOUS
    <2> HIDE DEF U, X, Y
    <2>2. Cardinality(X \cup Y) = Cardinality(X) + Cardinality(Y) - Cardinality(X \cap Y)
      BY <1>7, <1>8, FS_Union
    <2>3. Cardinality(X \cap Y) = 0
      BY <2>1, FS_EmptySet
    <2> QED BY <1>7, <1>8, <2>1, <2>2, <2>3
  <1>10. G \in Nat /\ N \in Nat
    BY <1>1, BetweenIsFinite
  <1>11. Cardinality(Y) <= IF w.listing = "documents" THEN N ELSE 0
    <2>1. CASE w.listing = "documents" /\ n > b
      <3>1. n <= Len(before) + N
        <4> DEFINE D == KindsAt(w.changes, {"new"})
        <4> DEFINE from == 2 * K - 1
                   to == 2 * K
        <4>2. from \in Int /\ to \in Int /\ from <= to /\ from + 1 = to
          BY <1>1
        <4> HIDE DEF from, to
        <4>3. Len(TableAt(w.rows, w.changes, to)) <= Len(TableAt(w.rows, w.changes, from))
                + Cardinality(Between(D, w.changes, from + 1, to))
          BY <1>1, <4>2, LengthGrows
        <4>4. Len(TableAt(w.rows, w.changes, to)) <= Len(TableAt(w.rows, w.changes, from))
                + Cardinality(Between(D, w.changes, to, to))
          BY <4>2, <4>3
        <4> QED BY <1>5, <4>4 DEF from, to, TableOf
      <3>2. m = w.limit
        BY <1>1, <1>5, <1>6, <2>1
      <3> HIDE DEF n, m, b, N, Y
      <3> QED BY <1>1, <1>5, <1>6, <1>7, <1>10, <2>1, <3>1, <3>2
    <2>2. CASE ~(w.listing = "documents") /\ n > b
      <3>1. m = w.limit
        <4> HIDE DEF n, m, b
        <4> QED BY <1>1, <1>5, <1>6, <2>2
      <3> QED BY <1>5, <2>2, <3>1
    <2>3. CASE ~(n > b)
      <3> HIDE DEF n, b, N, Y
      <3> QED BY <1>1, <1>6, <1>7, <1>10, <2>3
    <2> QED BY <2>1, <2>2, <2>3
  <1> HIDE DEF U, X, Y, G, N
  <1> QED BY <1>2, <1>7, <1>8, <1>9, <1>10, <1>11 DEF U, G, N

(* No table has more rows than there ever were. *)
LEMMA TableIsBounded ==
    ASSUME NEW changes \in Seq(ChangeSet), NEW rows \in Table, NEW at \in Int
    PROVE  Len(TableAt(rows, changes, at)) <= Len(rows) + Len(changes)
  <1> DEFINE n == Len(changes)
  <1>1. PICK t : TablePasses(t, rows, changes, at)
    BY TableIsPassed
  <1>2. /\ t \in [0..n -> Table] /\ t[0] = rows /\ t[n] = TableAt(rows, changes, at) /\ n \in Nat
        /\ \A i \in 1..n : t[i] = IF changes[i].at <= at THEN Changed(t[i - 1], changes[i])
                                ELSE t[i - 1]
    BY <1>1 DEF TablePasses, Takes
  <1> DEFINE S == {i \in 0..n : Len(t[i]) <= Len(rows) + i}
  <1>3. Len(rows) \in Nat /\ \A i \in 0..n : t[i] \in Table /\ Len(t[i]) \in Nat
    BY <1>2, RowsAreFinite
  <1>4. 0 \in S
    BY <1>2, <1>3
  <1>5. ASSUME NEW i \in 0..n, i \in S, i < n PROVE i + 1 \in S
    <2>1. i + 1 \in 1..n /\ i + 1 \in 0..n /\ (i + 1) - 1 = i
      BY <1>2, <1>5
    <2>2. changes[i + 1] \in ChangeSet
      BY <2>1
    <2>3. Len(Changed(t[i], changes[i + 1])) <= Len(t[i]) + 1
      <3>1. /\ Changed(t[i], changes[i + 1]) \in Table
            /\ Len(Changed(t[i], changes[i + 1])) <=
                 Len(t[i]) + (IF changes[i + 1].kind = "new" THEN 1 ELSE 0)
        BY <1>3, <2>2, ChangedShape
      <3>2. Len(Changed(t[i], changes[i + 1])) \in Nat
        BY <3>1, RowsAreFinite
      <3> DEFINE x == Len(Changed(t[i], changes[i + 1]))
                 y == Len(t[i])
      <3>3. x \in Nat /\ y \in Nat
        BY <1>3, <3>2
      <3>4. x <= y + (IF changes[i + 1].kind = "new" THEN 1 ELSE 0)
        BY <3>1
      <3> HIDE DEF x, y
      <3>5. x <= y + 1
        BY <3>3, <3>4
      <3> QED BY <3>5 DEF x, y
    <2>4. Len(t[i + 1]) <= Len(t[i]) + 1
      <3>1. t[i + 1] = IF changes[i + 1].at <= at THEN Changed(t[i], changes[i + 1]) ELSE t[i]
        BY <1>2, <2>1
      <3>2. Len(t[i]) <= Len(t[i]) + 1
        BY <1>3
      <3> QED BY <2>3, <3>1, <3>2
    <2>5. Len(t[i + 1]) \in Nat /\ Len(t[i]) <= Len(rows) + i
      BY <1>3, <1>5, <2>1
    <2> QED BY <1>3, <2>1, <2>4, <2>5
  <1> HIDE DEF S
  <1>6. \A i \in 0..n : i \in S
    BY <1>2, <1>4, <1>5, InductionUpTo
  <1>7. n \in S
    BY <1>2, <1>6
  <1> QED BY <1>2, <1>7 DEF S

(* Past the last row there ever was a page is empty, and the client is     *)
(* told, or sees, that it was the last one. So a walk ends.                *)
THEOREM WalksEnd ==
    ASSUME NEW w, WalkOk(w)
    PROVE  /\ IsWalk(w, Walk(w), LastPage(w))
           /\ ~GoesOn(w.listing, PageOf(w, LastPage(w)))
  <1> DEFINE m == Len(w.rows)
             n == Len(w.changes)
             N == m + n + 1
             E == {k \in 1..N : ~GoesOn(w.listing, PageOf(w, k))}
             Ends(last) == /\ ~GoesOn(w.listing, PageOf(w, last))
                           /\ \A number \in 1..last - 1 : GoesOn(w.listing, PageOf(w, number))
  <1>1. /\ w.limit \in Nat \ {0} /\ w.rows \in Table /\ w.changes \in Seq(ChangeSet)
        /\ Len(w.rows) \in Nat /\ Len(w.changes) \in Nat
    BY RowsAreFinite DEF WalkOk
  <1>2. N \in Nat \ {0} /\ N - 1 \in Nat /\ N - 1 = m + n
    <2>1. m \in Nat /\ n \in Nat
      BY <1>1
    <2> HIDE DEF m, n
    <2> QED BY <2>1
  <1>3. ~GoesOn(w.listing, PageOf(w, N))
    <2> DEFINE page == PageOf(w, N)
    <2> HIDE DEF N
    <2>1. PICK table, before, offset : PageHas(w, N, page, table, before, offset)
      BY <1>2, PageShape
    <2>2. /\ table = TableOf(w, 2 * N) /\ before = TableOf(w, 2 * N - 1)
          /\ table \in Table /\ before \in Table
          /\ offset = w.limit * (N - 1) /\ offset \in Nat
          /\ Len(page.items) = IF Len(table) <= offset THEN 0
                               ELSE IF offset + w.limit < Len(table) THEN w.limit
                               ELSE Len(table) - offset
          /\ GoesOn(w.listing, page) <=> IF w.listing = "documents"
                                         THEN offset + Len(page.items) < Len(before)
                                         ELSE Len(page.items) = w.limit
      BY <2>1 DEF PageHas
    <2>3. Len(table) <= N - 1 /\ Len(before) <= N - 1 /\ Len(table) \in Nat /\ Len(before) \in Nat
      <3>1. 2 * N \in Int /\ 2 * N - 1 \in Int
        BY <1>2
      <3> QED BY <1>1, <1>2, <2>2, <3>1, TableIsBounded, RowsAreFinite DEF TableOf
    <2>4. N - 1 <= offset
      <3> DEFINE a == N - 1
      <3>1. a \in Nat
        BY <1>2
      <3> HIDE DEF a, N
      <3>2. a <= w.limit * a
        BY <1>1, <3>1
      <3> QED BY <2>2, <3>2 DEF a
    <2>5. Len(page.items) = 0
      <3>1. Len(table) <= offset
        <4> DEFINE x == Len(table)
                   y == N - 1
        <4>1. x \in Nat /\ y \in Nat /\ x <= y /\ y <= offset /\ offset \in Nat
          BY <1>2, <2>2, <2>3, <2>4
        <4> HIDE DEF x, y
        <4>2. x <= offset
          BY <4>1
        <4> QED BY <4>2 DEF x
      <3> QED BY <2>2, <3>1
    <2> HIDE DEF page
    <2>6. ~GoesOn(w.listing, page)
      <3> DEFINE x == Len(before)
                 y == N - 1
                 z == Len(page.items)
      <3>1. x \in Nat /\ y \in Nat /\ x <= y /\ y <= offset /\ offset \in Nat /\ z = 0
        BY <1>2, <2>2, <2>3, <2>4, <2>5
      <3>2. GoesOn(w.listing, page) <=> IF w.listing = "documents" THEN offset + z < x
                                         ELSE z = w.limit
        BY <2>2
      <3> HIDE DEF x, y, z
      <3>3. ~(offset + z < x) /\ z # w.limit
        BY <1>1, <3>1
      <3> QED BY <3>2, <3>3
    <2> QED BY <2>6 DEF page
  <1> HIDE DEF N
  <1>4. \E last \in 1..N : Ends(last)
    <2>1. E \in SUBSET (1..N) /\ N \in E
      <3>1. N \in 1..N
        <4> HIDE DEF N
        <4>1. N \in Nat \ {0}
          BY <1>2
        <4> QED BY ONLY <4>1
      <3> QED BY <1>3, <3>1
    <2>2. Min(E) \in E /\ \A x \in E : Min(E) <= x
      <3> HIDE DEF E
      <3> QED BY <1>2, <2>1, MinOfSome
    <2>3. Min(E) \in 1..N /\ ~GoesOn(w.listing, PageOf(w, Min(E)))
      <3> DEFINE x == Min(E)
      <3>1. x \in E
        BY <2>2
      <3> HIDE DEF x
      <3> QED BY <3>1 DEF x
    <2>4. ASSUME NEW number \in 1..Min(E) - 1 PROVE GoesOn(w.listing, PageOf(w, number))
      <3>1. number \in 1..N /\ ~(Min(E) <= number)
        <4> DEFINE x == Min(E)
        <4>1. x \in 1..N /\ number \in 1..x - 1
          BY <2>3
        <4> HIDE DEF x, N
        <4>2. number \in 1..N /\ ~(x <= number)
          <5>1. N \in Nat \ {0}
            BY <1>2
          <5> QED BY ONLY <4>1, <5>1
        <4> QED BY <4>2 DEF x
      <3> QED BY <2>2, <3>1
    <2> QED BY <2>3, <2>4
  <1>5. LastPage(w) = CHOOSE last \in 1..N : Ends(last)
    BY DEF LastPage, N
  <1>6. LastPage(w) \in 1..N /\ Ends(LastPage(w))
    <2> HIDE DEF Ends
    <2> QED BY <1>4, <1>5
  <1>7. LastPage(w) \in Nat \ {0}
    BY <1>2, <1>6
  <1>8. DOMAIN Walk(w) = 1..LastPage(w) /\ \A k \in 1..LastPage(w) : Walk(w)[k] = PageOf(w, k)
    BY DEF Walk
  <1> QED BY <1>6, <1>7, <1>8 DEF IsWalk

During(w, D, first, last) == Between(D, w.changes, first, last)

(* A walk over any table of any length, whatever is registered, deleted or *)
(* moved meanwhile, in whatever order the listing is: what it misses of    *)
(* the rows that stay, and how often it shows one again, is bounded by the *)
(* changes it could not see.                                               *)
THEOREM WalksAreStill ==
    ASSUME NEW w, WalkOk(w), NEW pages, NEW K, IsWalk(w, pages, K),
           ~GoesOn(w.listing, PageOf(w, K))
    PROVE  /\ Cardinality(Stayed(w) \ Shown(pages)) <=
                Cardinality(During(w, Drops(w.changes), 3, 2 * K))
                  + IF w.listing = "documents"
                    THEN Cardinality(During(w, KindsAt(w.changes, {"new"}), 2 * K, 2 * K)) ELSE 0
           /\ Cardinality(UNION {{p} \X Repeats(pages, p, TiedRows(w)) : p \in DOMAIN pages}) <=
                Cardinality(During(w, KindsAt(w.changes, {"new", "moved"}), 3, 2 * K))
  <1>1. K \in Nat \ {0} /\ DOMAIN pages = 1..K /\ \A k \in 1..K : pages[k] = PageOf(w, k)
    BY DEF IsWalk
  <1>2. Stayed(w) \ Shown(pages) = Stayed(w) \ Seen(w, K)
    <2>1. ASSUME NEW r \in Stayed(w) PROVE r \in Shown(pages) <=> r \in Seen(w, K)
      <3>1. r \notin TiedRows(w)
        BY DEF Stayed
      <3>2. r \in Shown(pages) <=> \E k \in 1..K : r \in ToSet(PageOf(w, k).items)
        BY <1>1 DEF Shown
      <3>3. r \in Seen(w, K) <=> \E k \in 1..K : r \in ToSet(PageOf(w, k).items)
        BY <3>1 DEF Seen, ShownAt
      <3> QED BY <3>2, <3>3
    <2> QED BY <2>1
  <1>3. UNION {{p} \X Repeats(pages, p, TiedRows(w)) : p \in DOMAIN pages}
          = RepeatsUpTo(w, pages, K)
    BY <1>1, Zenon DEF RepeatsUpTo
  <1>4. Cardinality(Stayed(w) \ Seen(w, K)) <=
             Cardinality(Between(Drops(w.changes), w.changes, 3, 2 * K))
               + IF w.listing = "documents"
                 THEN Cardinality(Between(KindsAt(w.changes, {"new"}), w.changes, 2 * K, 2 * K))
                 ELSE 0
    BY <1>1, MissedAreChanges
  <1>5. Cardinality(RepeatsUpTo(w, pages, K)) <=
             Cardinality(Between(KindsAt(w.changes, {"new", "moved"}), w.changes, 3, 2 * K))
    BY RepeatsAreChanges
  <1> QED BY <1>2, <1>3, <1>4, <1>5, Zenon DEF During

LEMMA WalkInputIsOk ==
    ASSUME input \in WalkInputs
    PROVE  WalkOk(input)
  <1>1. PICK l \in Listings : \/ input \in Walks(l, 0, 2, {<<>>}, {{}})
                              \/ input \in Walks(l, 2, 1, Ties, SUBSET {1, 2})
    BY Zenon DEF WalkInputs
  <1>2. l.listing \in {"documents", "jobs"}
    <2> HIDE DEF Sorts
    <2>1. \/ l \in [listing : {"documents"}, sort : Sorts]
          \/ l \in [listing : {"jobs"}, sort : {[field |-> "size", direction |-> "asc"]}]
      BY DEF Listings
    <2> QED BY <2>1
  <1>3. PICK least \in {0, 2}, number \in {1, 2}, tied \in {{<<>>}, Ties},
              permuted \in {{{}}, SUBSET {1, 2}} :
            input \in Walks(l, least, number, tied, permuted)
    BY <1>1
  <1> DEFINE Lists  == BoundedSeq({c \in Changes : Lands(Order(l.listing, l.sort), c)}, number)
             Tables == {[r \in 1..n |-> r] : n \in least..MaxRows}
  <1>4. /\ input.listing = l.listing /\ input.limit \in 1..2
        /\ input.rows \in Tables /\ input.changes \in Lists /\ input.tied \in tied
    <2>1. input \in [of : {"walk"}, listing : {l.listing}, sort : {l.sort}, limit : 1..2,
                     rows : Tables, changes : Lists, tied : tied, permuted : permuted]
      BY <1>3, Zenon DEF Walks
    <2> HIDE DEF Lists, Tables
    <2> QED BY <2>1
  <1>5. /\ DOMAIN input.tied \subseteq Int
        /\ \A r \in DOMAIN input.tied : input.tied[r] \in DOMAIN input.tied
    <2>1. CASE tied = {<<>>}
      BY <1>4, <2>1
    <2>2. CASE tied = Ties
      <3> DEFINE B(r, n) == Bijection(r..r + n, r..r + n)
      <3>1. PICK r \in 1..MaxRows, n \in 1..2 : input.tied \in B(r, n)
        <4>1. Ties = UNION {B(r, n) : r \in 1..MaxRows, n \in 1..2}
          BY DEF Ties
        <4> HIDE DEF B
        <4> QED BY <1>4, <2>2, <4>1
      <3>2. input.tied \in [r..r + n -> r..r + n]
        BY <3>1 DEF Bijection, Injection
      <3> QED BY <3>2
    <2> QED BY <1>3, <2>1, <2>2
  <1>6. input.rows \in Table
    <2>1. PICK n \in least..MaxRows : input.rows = [r \in 1..n |-> r]
      BY <1>4
    <2>2. n \in Nat
      BY AlgorithmsAssumption
    <2> DEFINE t == [r \in 1..n |-> r]
    <2>3. t \in Seq(Int) /\ Len(t) = n /\ \A i \in 1..n : t[i] = i
      BY <2>2
    <2> HIDE DEF t
    <2>4. t \in Table
      BY <2>3 DEF Table
    <2> QED BY <2>1, <2>4 DEF t
  <1>7. Changes \subseteq ChangeSet
    BY DEF Changes, ChangeSet, ChangeKinds
  <1>8. input.changes \in Seq(ChangeSet)
    <2> DEFINE C == {c \in Changes : Lands(Order(l.listing, l.sort), c)}
    <2>1. C \subseteq ChangeSet
      BY <1>7
    <2>2. input.changes \in BoundedSeq(C, number)
      BY <1>4
    <2> HIDE DEF C, Lists
    <2>3. PICK m \in 0..number : input.changes \in [1..m -> C]
      BY <2>2 DEF BoundedSeq, SeqOf
    <2> QED BY <2>1, <2>3
  <1>9. DOMAIN input.changes = 1..Len(input.changes)
    BY <1>8
  <1>10. Ordered(input.changes)
    <2>1. \A c, d \in DOMAIN input.changes :
             c < d => input.changes[c].row # input.changes[d].row
                      /\ input.changes[c].at <= input.changes[d].at
      BY Zenon DEF WalkInputs
    <2> QED BY <1>9, <2>1 DEF Ordered
  <1>11. input.limit \in Nat \ {0}
    BY <1>4
  <1> QED BY <1>2, <1>4, <1>5, <1>6, <1>8, <1>10, <1>11 DEF WalkOk

LEMMA WalkIsComputed ==
    ASSUME input \in WalkInputs, ComputeWalk
    PROVE  WalkIsAsStillAsTheTable'
  <1> DEFINE w == input
             pages == Walk(w)
             K == LastPage(w)
             drops == Drops(w.changes)
             fresh == KindsAt(w.changes, {"new"})
             put   == KindsAt(w.changes, {"new", "moved"})
  <1>1. WalkOk(w)
    BY WalkInputIsOk
  <1>2. IsWalk(w, pages, K) /\ ~GoesOn(w.listing, PageOf(w, K))
    BY <1>1, WalksEnd
  <1>3. /\ Cardinality(Stayed(w) \ Shown(pages)) <=
                Cardinality(During(w, drops, 3, 2 * K))
                  + IF w.listing = "documents"
                    THEN Cardinality(During(w, fresh, 2 * K, 2 * K)) ELSE 0
        /\ Cardinality(UNION {{p} \X Repeats(pages, p, TiedRows(w)) : p \in DOMAIN pages}) <=
                Cardinality(During(w, put, 3, 2 * K))
    BY <1>1, <1>2, WalksAreStill
  <1>4. Len(pages) = K
    <2>1. K \in Nat /\ DOMAIN pages = 1..K
      BY <1>2 DEF IsWalk
    <2>2. pages \in Seq({PageOf(w, k) : k \in 1..K})
      BY <2>1 DEF Walk
    <2> HIDE DEF pages, K
    <2> QED BY <2>1, <2>2
  <1>5. input' = w /\ output' = pages
    BY DEF ComputeWalk, Compute
  <1>6. /\ w.rows \in Seq(Int) /\ w.changes \in Seq(ChangeSet)
        /\ DOMAIN w.rows = 1..Len(w.rows) /\ DOMAIN w.changes = 1..Len(w.changes)
    BY <1>1 DEF WalkOk, Table
  <1> DEFINE from(at)  == {c \in DOMAIN w.changes : w.changes[c].at \in at..2 * K}
             of(kinds) == {c \in DOMAIN w.changes : w.changes[c].kind \in kinds}
             inFront   == {c \in DOMAIN w.changes : w.changes[c].place = 1}
             stayed    == ToSet(w.rows) \ (TiedRows(w) \cup {c.row : c \in ToSet(w.changes)})
  <1>7. Stayed(w) = stayed
    <2>1. ToSet(w.rows) = Rows(w.rows)
      BY <1>6 DEF ToSet, Rows
    <2>2. {c.row : c \in ToSet(w.changes)} = {w.changes[i].row : i \in 1..Len(w.changes)}
      BY <1>6 DEF ToSet
    <2> QED BY <2>1, <2>2, Zenon DEF Stayed
  <1>8. from(3) \cap (of({"gone"}) \cup (of({"moved"}) \ inFront)) = During(w, drops, 3, 2 * K)
    <2> HIDE DEF K
    <2> QED BY <1>6 DEF During, Between, Drops
  <1>9. from(2 * K) \cap of({"new"}) = During(w, fresh, 2 * K, 2 * K)
    <2> HIDE DEF K
    <2> QED BY <1>6 DEF During, Between, KindsAt
  <1>10. from(3) \cap of({"new", "moved"}) = During(w, put, 3, 2 * K)
    <2> HIDE DEF K
    <2> QED BY <1>6 DEF During, Between, KindsAt
  <1>11. /\ Cardinality(stayed \ Shown(pages)) <=
               Cardinality(from(3) \cap (of({"gone"}) \cup (of({"moved"}) \ inFront)))
                 + IF w.listing = "documents"
                   THEN Cardinality(from(2 * K) \cap of({"new"})) ELSE 0
         /\ Cardinality(UNION {{p} \X Repeats(pages, p, TiedRows(w)) : p \in DOMAIN pages})
               <= Cardinality(from(3) \cap of({"new", "moved"}))
    <2> HIDE DEF from, of, inFront, stayed, drops, fresh, put
    <2> QED BY <1>3, <1>7, <1>8, <1>9, <1>10, Zenon
  <1> HIDE DEF pages, K
  <1> QED BY <1>4, <1>5, <1>11, Zenon DEF WalkIsAsStillAsTheTable, TiedRows

(* pagination.py: see WalkIsAsStillAsTheTable. *)
THEOREM WalksAreAsStillAsTheTable ==
    Spec => []WalkIsAsStillAsTheTable
  <1>1. Init => WalkIsAsStillAsTheTable
    BY DEF Init, WalkIsAsStillAsTheTable, Computed
  <1>2. Given /\ WalkIsAsStillAsTheTable /\ [Next]_vars => WalkIsAsStillAsTheTable'
    <2>1. CASE UNCHANGED vars
      BY <2>1 DEF vars, WalkIsAsStillAsTheTable, Computed
    <2>2. ASSUME Given, Next, input.of = "walk" PROVE WalkIsAsStillAsTheTable'
      BY <2>2, GivenKinds, StepComputes, WalkIsComputed
    <2>3. ASSUME Next, input.of # "walk" PROVE WalkIsAsStillAsTheTable'
      <3>1. ~Computed("walk")'
        BY <2>3, StepComputes DEF Computed
      <3> QED BY <3>1 DEF WalkIsAsStillAsTheTable
    <2> QED BY <2>1, <2>2, <2>3
  <1> QED BY <1>1, <1>2, GivenStays, PTL DEF Spec
=============================================================================
