------------------------------ MODULE LawProofs -------------------------------
(* Proofs about what the law asks of the program, for any number of rules,   *)
(* documents, requests at once, failures and restarts: a setting of the      *)
(* financial regulation that was answered for stays, no invoice that the tax *)
(* authority has is lost, and what the file says of a document the portal    *)
(* has said, but for the cases named.                                        *)
EXTENDS RegulationSettings, EtaDocuments, SequenceTheorems, TLAPS

(* The settings of the financial regulation *)

(* The inductive invariant behind the settings that stay: the writes queued  *)
(* for a rule are of ever later requests, all later than what is stored, and *)
(* the last of them is the setting in force; a request still queued has not  *)
(* been answered; and a request that waits for its own write no more, or has *)
(* been answered, is stored or replaced.                                     *)
Queued(r) ==
    /\ \A i \in DOMAIN pendingWrites[r] :
         LET n == pendingWrites[r][i]
         IN  /\ n \in DOMAIN settings /\ settings[n].rule = r /\ storedSetting[r] < n
             /\ \/ settings[n].outcome = "WAITING" /\ n \in settings[n].awaits
                \/ settings[n].outcome = "REFUSED"
    /\ \A i, j \in DOMAIN pendingWrites[r] : i < j => pendingWrites[r][i] < pendingWrites[r][j]
    /\ pendingWrites[r] # << >> => liveSetting[r] = pendingWrites[r][Len(pendingWrites[r])]

Requested(n) ==
    LET r == settings[n].rule
    IN  /\ settings[n].outcome = "WAITING" =>
             \/ storedSetting[r] >= n
             \/ /\ n \in settings[n].awaits
                /\ \E i \in DOMAIN pendingWrites[r] : pendingWrites[r][i] = n
        /\ settings[n].outcome = "ANSWERED" => storedSetting[r] >= n

InForce(r) ==
    /\ {storedSetting[r], liveSetting[r]} \subseteq 0..Len(settings)
    /\ initialized => storedSetting[r] <= liveSetting[r]
    /\ liveSetting[r] # 0 /\ pendingWrites[r] = << >> /\ storedSetting[r] # liveSetting[r] =>
         settings[liveSetting[r]].outcome = "REFUSED"

SettingsInv ==
    /\ SettingsTypeOK /\ Len(settings) <= MaxSettings
    /\ \A r \in LiveRules : Queued(r) /\ InForce(r)
    /\ \A n \in DOMAIN settings : Requested(n)

Setting == [rule: LiveRules, awaits: SUBSET (1..MaxSettings),
            outcome: {"WAITING", "ANSWERED", "REFUSED", "LOST"}]

LEMMA WithoutFirst ==
  ASSUME NEW S, NEW s \in Seq(S), s # << >>
  PROVE  /\ Without(s, 1) \in Seq(S)
         /\ Len(Without(s, 1)) = Len(s) - 1
         /\ DOMAIN Without(s, 1) = 1..(Len(s) - 1)
         /\ \A i \in 1..(Len(s) - 1) : Without(s, 1)[i] = s[i + 1]
<1>1. Len(s) \in Nat /\ Len(s) >= 1
  BY EmptySeq
<1>2. SubSeq(s, 1, 0) = << >>
  BY <1>1
<1>3. SubSeq(s, 2, Len(s)) \in Seq(S) /\ Len(SubSeq(s, 2, Len(s))) = Len(s) - 1
      /\ \A i \in 1..(Len(s) - 1) : SubSeq(s, 2, Len(s))[i] = s[i + 1]
  <2>1. \A i \in 2..Len(s) : s[i] \in S
    BY <1>1, ElementOfSeq
  <2>2. /\ SubSeq(s, 2, Len(s)) \in Seq(S)
        /\ Len(SubSeq(s, 2, Len(s))) = IF 2 <= Len(s) THEN Len(s) - 2 + 1 ELSE 0
        /\ \A i \in 1..(Len(s) - 2 + 1) : SubSeq(s, 2, Len(s))[i] = s[2 + i - 1]
    BY <1>1, <2>1, SubSeqProperties
  <2> DEFINE l == Len(s)
             t == SubSeq(s, 2, l)
  <2>3. l \in Nat /\ l >= 1 /\ Len(t) = IF 2 <= l THEN l - 2 + 1 ELSE 0
    BY <1>1, <2>2
  <2>4. \A i \in 1..(l - 2 + 1) : t[i] = s[2 + i - 1]
    BY <2>2
  <2>5. t \in Seq(S)
    BY <2>2
  <2> HIDE DEF l, t
  <2>6. Len(t) = l - 1
    BY <2>3
  <2>7. \A i \in 1..(l - 1) : 2 + i - 1 = i + 1 /\ i \in 1..(l - 2 + 1)
    BY <2>3
  <2>8. \A i \in 1..(l - 1) : t[i] = s[i + 1]
    BY <2>4, <2>7
  <2> QED
    BY <2>5, <2>6, <2>8 DEF l, t
<1>4. Without(s, 1) = SubSeq(s, 2, Len(s))
  <2>1. Without(s, 1) = SubSeq(s, 1, 0) \o SubSeq(s, 2, Len(s))
    BY DEF Without
  <2> QED
    BY <1>2, <1>3, <2>1
<1> DEFINE t == SubSeq(s, 2, Len(s))
<1>5. t \in Seq(S) /\ Len(t) = Len(s) - 1
  BY <1>3
<1>6. DOMAIN t = 1..(Len(s) - 1)
  <2> HIDE DEF t
  <2> QED
    BY <1>5
<1> QED
  BY <1>3, <1>4, <1>6

(* What the end of write n does to a request. *)
LEMMA AfterFields ==
  ASSUME NEW s \in Setting, NEW n \in 1..MaxSettings, NEW ok \in BOOLEAN
  PROVE  LET t == After(n, ok, s)
         IN  /\ t \in Setting /\ t.rule = s.rule
             /\ s.outcome # "WAITING" => t.outcome = s.outcome
             /\ s.outcome = "WAITING" => t.outcome \in {"WAITING", "REFUSED", "ANSWERED"}
             /\ s.outcome = "WAITING" /\ t.outcome = "ANSWERED" => ok /\ s.awaits = {n}
             /\ s.outcome = "WAITING" /\ n \in s.awaits /\ ~ok => t.outcome = "REFUSED"
             /\ t.outcome = "WAITING" => t.awaits = s.awaits \ {n}
<1>1. CASE s.outcome # "WAITING" \/ n \notin s.awaits
  BY <1>1 DEF After, Setting
<1>2. CASE s.outcome = "WAITING" /\ n \in s.awaits
  <2>1. After(n, ok, s) = [s EXCEPT !.awaits = s.awaits \ {n},
                             !.outcome = IF ~ok THEN "REFUSED"
                               ELSE IF s.awaits = {n} THEN "ANSWERED" ELSE "WAITING"]
    BY <1>2 DEF After
  <2> QED
    BY <1>2, <2>1 DEF Setting
<1> QED
  BY <1>1, <1>2

LEMMA SettingsInit0 == SettingsInit => SettingsInv
BY SettingsAssumption DEF SettingsInit, SettingsInv, SettingsTypeOK, Queued, Requested, InForce

(* A request joins the queue of its rule and is in force at once.            *)
LEMMA ConfigureStep ==
  ASSUME SettingsInv, NEW r \in LiveRules, Configure(r)
  PROVE  SettingsInv'
<1> DEFINE n == Len(settings) + 1
           P == pendingWrites
           Q == settings
           new == [rule |-> r, awaits |-> LastWrites([P EXCEPT ![r] = Append(@, n)]),
                   outcome |-> "WAITING"]
<1>1. /\ Q \in Seq(Setting) /\ Len(Q) < MaxSettings /\ n \in 1..MaxSettings /\ Len(Q) \in Nat
      /\ DOMAIN Q = 1..Len(Q)
      /\ P \in [LiveRules -> Seq(1..MaxSettings)]
      /\ liveSetting \in [LiveRules -> 0..MaxSettings]
      /\ storedSetting \in [LiveRules -> 0..MaxSettings]
  BY SettingsAssumption DEF SettingsInv, SettingsTypeOK, Setting, Configure
<1>2. /\ liveSetting' = [liveSetting EXCEPT ![r] = n]
      /\ pendingWrites' = [P EXCEPT ![r] = Append(@, n)]
      /\ settings' = Append(Q, new)
      /\ UNCHANGED <<storedSetting, initialized>>
  BY DEF Configure
<1>3. /\ P[r] \in Seq(1..MaxSettings) /\ Len(P[r]) \in Nat /\ DOMAIN P[r] = 1..Len(P[r])
      /\ pendingWrites'[r] = Append(P[r], n)
      /\ pendingWrites' \in [LiveRules -> Seq(1..MaxSettings)]
      /\ \A x \in LiveRules \ {r} : pendingWrites'[x] = P[x] /\ liveSetting'[x] = liveSetting[x]
      /\ liveSetting'[r] = n /\ liveSetting' \in [LiveRules -> 0..MaxSettings]
  BY <1>1, <1>2
<1> DEFINE q == Append(P[r], n)
<1>4. /\ Len(q) = Len(P[r]) + 1 /\ DOMAIN q = 1..(Len(P[r]) + 1)
      /\ q[Len(P[r]) + 1] = n /\ \A i \in 1..Len(P[r]) : q[i] = P[r][i]
      /\ q # << >>
  BY <1>1, <1>3
<1>5. new \in Setting
  <2>1. ASSUME NEW x \in LiveRules, pendingWrites'[x] # << >>
        PROVE  pendingWrites'[x][Len(pendingWrites'[x])] \in 1..MaxSettings
    <3>1. pendingWrites'[x] \in Seq(1..MaxSettings)
      BY <1>3
    <3> DEFINE w == pendingWrites'[x]
    <3>2. w \in Seq(1..MaxSettings) /\ w # << >>
      BY <2>1, <3>1
    <3> HIDE DEF w
    <3>3. Len(w) \in 1..Len(w)
      BY <3>2, EmptySeq
    <3>4. w[Len(w)] \in 1..MaxSettings
      BY <3>2, <3>3, ElementOfSeq
    <3> QED
      BY <3>4 DEF w
  <2>2. LastWrites(pendingWrites') \subseteq 1..MaxSettings
    BY <2>1 DEF LastWrites
  <2> QED
    BY <1>2, <2>2 DEF Setting
<1>6. n \in new.awaits
  BY <1>2, <1>3, <1>4 DEF LastWrites
<1> HIDE DEF new
<1>7. /\ settings' \in Seq(Setting) /\ Len(settings') = n /\ DOMAIN settings' = 1..n
      /\ settings'[n] = new /\ \A k \in 1..Len(Q) : settings'[k] = Q[k]
  BY <1>1, <1>2, <1>5
<1>8. new.rule = r /\ new.outcome = "WAITING"
  BY DEF new
<1>9. SettingsTypeOK' /\ Len(settings') <= MaxSettings
  BY <1>1, <1>2, <1>3, <1>7 DEF SettingsTypeOK, Setting
<1>10. ASSUME NEW x \in LiveRules
       PROVE  Queued(x)'
  <2>1. Queued(x) /\ storedSetting[x] \in 0..Len(Q)
    BY DEF SettingsInv, InForce
  <2>2. CASE x # r
    BY <1>1, <1>2, <1>3, <1>7, <2>1, <2>2 DEF Queued
  <2>3. CASE x = r
    <3>1. pendingWrites'[x] = q
      BY <1>3, <2>3
    <3>2. ASSUME NEW i \in 1..(Len(P[r]) + 1)
          PROVE  LET k == q[i]
                 IN  /\ k \in 1..n /\ settings'[k].rule = x /\ storedSetting[x] < k
                     /\ \/ settings'[k].outcome = "WAITING" /\ k \in settings'[k].awaits
                        \/ settings'[k].outcome = "REFUSED"
      <4>1. CASE i = Len(P[r]) + 1
        BY <1>1, <1>4, <1>6, <1>7, <1>8, <2>1, <2>3, <4>1
      <4>2. CASE i # Len(P[r]) + 1
        <5>1. i \in 1..Len(P[r])
          BY <1>3, <4>2
        <5>2. q[i] = P[r][i] /\ P[r][i] \in 1..Len(Q)
          BY <1>1, <1>3, <1>4, <2>1, <2>3, <5>1 DEF Queued
        <5> DEFINE k == P[r][i]
        <5>3. /\ Q[k].rule = x /\ storedSetting[x] < k
              /\ \/ Q[k].outcome = "WAITING" /\ k \in Q[k].awaits
                 \/ Q[k].outcome = "REFUSED"
          BY <1>3, <2>1, <2>3, <5>1 DEF Queued
        <5>4. settings'[k] = Q[k] /\ k \in 1..n /\ q[i] = k
          BY <1>1, <1>7, <5>2
        <5> HIDE DEF k, q, n
        <5> QED
          BY <5>3, <5>4
      <4> QED
        BY <4>1, <4>2
    <3>3. ASSUME NEW i \in 1..(Len(P[r]) + 1), NEW j \in 1..(Len(P[r]) + 1), i < j
          PROVE  q[i] < q[j]
      <4>1. i \in 1..Len(P[r]) /\ q[i] = P[r][i] /\ P[r][i] \in 1..Len(Q)
        <5> DEFINE len == Len(P[r])
        <5>1. len \in Nat /\ i \in 1..(len + 1) /\ j \in 1..(len + 1) /\ i < j
          BY <1>3, <3>3
        <5> HIDE DEF len
        <5>2. i \in 1..len
          BY <5>1
        <5>3. i \in DOMAIN P[r] /\ q[i] = P[r][i]
          BY <1>3, <1>4, <5>2 DEF len
        <5> QED
          BY <1>1, <2>1, <2>3, <5>2, <5>3 DEF Queued, len
      <4>2. CASE j = Len(P[r]) + 1
        BY <1>1, <1>4, <4>1, <4>2
      <4>3. CASE j # Len(P[r]) + 1
        <5>1. j \in 1..Len(P[r]) /\ q[j] = P[r][j]
          BY <1>3, <1>4, <4>3
        <5> QED
          BY <1>3, <2>1, <2>3, <3>3, <4>1, <5>1 DEF Queued
      <4> QED
        BY <4>2, <4>3
    <3> QED
      BY <1>2, <1>3, <1>4, <1>7, <2>3, <3>1, <3>2, <3>3 DEF Queued
  <2> QED
    BY <2>2, <2>3
<1>11. ASSUME NEW x \in LiveRules
       PROVE  InForce(x)'
  <2>1. InForce(x)
    BY DEF SettingsInv
  <2>2. CASE x = r
    BY <1>1, <1>2, <1>3, <1>4, <1>7, <2>1, <2>2 DEF InForce
  <2>3. CASE x # r
    BY <1>1, <1>2, <1>3, <1>7, <2>1, <2>3 DEF InForce
  <2> QED
    BY <2>2, <2>3
<1>12. ASSUME NEW k \in DOMAIN settings'
       PROVE  Requested(k)'
  <2>1. CASE k = n
    <3>1. pendingWrites'[r][Len(P[r]) + 1] = k /\ Len(P[r]) + 1 \in DOMAIN pendingWrites'[r]
      BY <1>3, <1>4, <2>1
    <3> QED
      BY <1>6, <1>7, <1>8, <2>1, <3>1 DEF Requested
  <2>2. CASE k # n
    <3>1. k \in 1..Len(Q)
      BY <1>1, <1>7, <2>2
    <3>2. settings'[k] = Q[k] /\ Requested(k) /\ Q[k] \in Setting
      BY <1>1, <1>7, <3>1, ElementOfSeq DEF SettingsInv
    <3> DEFINE x == Q[k].rule
    <3>3. x \in LiveRules
      BY <3>2 DEF Setting
    <3>4. ASSUME NEW i \in DOMAIN P[x], P[x][i] = k
          PROVE  i \in DOMAIN pendingWrites'[x] /\ pendingWrites'[x][i] = k
      <4>1. CASE x = r
        <5>1. i \in 1..Len(P[r]) /\ P[r][i] = k
          BY <1>3, <3>4, <4>1
        <5>2. i \in DOMAIN q /\ q[i] = k
          BY <1>3, <1>4, <5>1
        <5> QED
          BY <1>3, <4>1, <5>2
      <4>2. CASE x # r
        BY <1>3, <3>3, <3>4, <4>2
      <4> QED
        BY <4>1, <4>2
    <3> QED
      BY <1>2, <3>2, <3>4 DEF Requested
  <2> QED
    BY <2>1, <2>2
<1> QED
  BY <1>9, <1>10, <1>11, <1>12 DEF SettingsInv

(* The first write of rule r ends: it took effect (then the table holds it), *)
(* or it failed and may have taken effect.                                   *)
LEMMA SettleStep ==
  ASSUME SettingsInv, NEW r \in LiveRules, pendingWrites[r] # << >>, NEW ok \in BOOLEAN,
         Settle(r, 1, ok), UNCHANGED <<liveSetting, initialized>>,
         \/ storedSetting' = [storedSetting EXCEPT ![r] = pendingWrites[r][1]]
         \/ ~ok /\ storedSetting' = storedSetting
  PROVE  SettingsInv'
<1> DEFINE P == pendingWrites
           Q == settings
           S == storedSetting
           n == P[r][1]
           q == Without(P[r], 1)
           len == Len(P[r])
<1>1. /\ Q \in Seq(Setting) /\ Len(Q) <= MaxSettings /\ Len(Q) \in Nat
      /\ DOMAIN Q = 1..Len(Q)
      /\ P \in [LiveRules -> Seq(1..MaxSettings)]
      /\ liveSetting \in [LiveRules -> 0..MaxSettings]
      /\ storedSetting \in [LiveRules -> 0..MaxSettings]
      /\ MaxSettings \in Nat
  BY SettingsAssumption DEF SettingsInv, SettingsTypeOK, Setting
<1>2. /\ P[r] \in Seq(1..MaxSettings) /\ Len(P[r]) \in Nat /\ Len(P[r]) >= 1
      /\ DOMAIN P[r] = 1..Len(P[r])
  BY <1>1, EmptySeq
<1> HIDE DEF len
<1>2a. len \in Nat /\ len >= 1 /\ len = Len(P[r]) /\ DOMAIN P[r] = 1..len
  BY <1>2 DEF len
<1>3. /\ q \in Seq(1..MaxSettings) /\ Len(q) = len - 1
      /\ DOMAIN q = 1..(len - 1)
      /\ \A i \in 1..(len - 1) : q[i] = P[r][i + 1]
  BY <1>2, WithoutFirst DEF len
<1>4. /\ pendingWrites'[r] = q
      /\ pendingWrites' \in [LiveRules -> Seq(1..MaxSettings)]
      /\ \A x \in LiveRules \ {r} : pendingWrites'[x] = P[x]
  <2>1. pendingWrites' = [P EXCEPT ![r] = q]
    BY DEF Settle
  <2> HIDE DEF q
  <2> QED
    BY <1>1, <1>3, <2>1
<1>5. n \in 1..Len(Q) /\ n \in 1..MaxSettings /\ Q[n].rule = r /\ S[r] < n
  <2>1. Queued(r) /\ 1 \in DOMAIN P[r]
    BY <1>2 DEF SettingsInv
  <2> QED
    BY <1>1, <2>1 DEF Queued
<1>6. ASSUME NEW k \in 1..Len(Q)
      PROVE  settings'[k] = After(n, ok, Q[k]) /\ Q[k] \in Setting
  <2>1. settings' = [j \in DOMAIN Q |-> After(n, ok, Q[j])]
    BY DEF Settle
  <2> QED
    BY <1>1, <2>1, ElementOfSeq
<1>7. settings' \in Seq(Setting) /\ Len(settings') = Len(Q) /\ DOMAIN settings' = 1..Len(Q)
  <2>1. settings' = [j \in 1..Len(Q) |-> After(n, ok, Q[j])]
    BY <1>1 DEF Settle
  <2>2. \A j \in 1..Len(Q) : After(n, ok, Q[j]) \in Setting
    BY <1>5, <1>6, AfterFields
  <2> DEFINE l == Len(Q)
  <2>3. settings' \in [1..l -> Setting] /\ l \in Nat
    BY <1>1, <2>1, <2>2
  <2> HIDE DEF l
  <2>4. settings' \in Seq(Setting) /\ DOMAIN settings' = 1..l /\ Len(settings') = l
    BY <2>3
  <2> QED
    BY <2>4 DEF l
<1>8. /\ storedSetting' \in [LiveRules -> 0..MaxSettings]
      /\ \A x \in LiveRules \ {r} : storedSetting'[x] = S[x]
      /\ storedSetting'[r] \in {S[r], n} /\ (ok => storedSetting'[r] = n)
      /\ S[r] \in 0..MaxSettings
  BY <1>1, <1>5
<1>9. \A x \in LiveRules : S[x] \in Int /\ storedSetting'[x] \in Int /\ storedSetting'[x] >= S[x]
  BY <1>1, <1>5, <1>8
(* What is left in the queue of r is later than the write that ended.        *)
<1>10. \A i \in 1..(len - 1) : n < q[i] /\ q[i] \in 1..MaxSettings
  <2>1. \A i, j \in DOMAIN P[r] : i < j => P[r][i] < P[r][j]
    BY DEF SettingsInv, Queued
  <2>2. \A i \in 1..(len - 1) : 1 \in 1..len /\ i + 1 \in 1..len /\ 1 < i + 1
    BY <1>2a
  <2>3. \A i \in 1..(len - 1) : n < P[r][i + 1]
    BY <1>2a, <2>1, <2>2
  <2>4. \A i \in 1..(len - 1) : P[r][i + 1] \in 1..MaxSettings
    BY <1>2, <1>2a, <2>2, ElementOfSeq
  <2> QED
    BY <1>3, <2>3, <2>4
<1>11. /\ liveSetting' = liveSetting /\ initialized' = initialized
       /\ pendingWrites'[r] = << >> <=> len = 1
  <2>1. pendingWrites'[r] = << >> <=> Len(q) = 0
    <3> HIDE DEF q
    <3> QED
      BY <1>3, <1>4, EmptySeq
  <2>2. Len(q) = len - 1
    BY <1>3
  <2>3. Len(q) = 0 <=> len = 1
    <3> DEFINE lq == Len(q)
    <3>1. lq = len - 1 /\ len \in Nat
      BY <1>2a, <2>2
    <3> HIDE DEF lq
    <3>2. lq = 0 <=> len = 1
      BY <3>1
    <3> QED
      BY <3>2 DEF lq
  <2> QED
    BY <2>1, <2>3
<1> HIDE DEF q, n
<1>12. ASSUME NEW x \in LiveRules
       PROVE  Queued(x)'
  <2>1. Queued(x)
    BY DEF SettingsInv
  <2>2. ASSUME NEW i \in DOMAIN pendingWrites'[x]
        PROVE  \E j \in DOMAIN P[x] :
                 /\ pendingWrites'[x][i] = P[x][j] /\ storedSetting'[x] < P[x][j]
                 /\ P[x][j] # n
    <3>1. CASE x = r
      <4>1. i \in 1..(len - 1) /\ i + 1 \in DOMAIN P[r] /\ q[i] = P[r][i + 1]
        BY <1>2a, <1>3, <1>4, <2>2, <3>1
      <4>2. i + 1 \in DOMAIN P[r] /\ S[r] < P[r][i + 1] /\ P[r][i + 1] \in Int
        BY <2>1, <1>1, <1>10, <3>1, <4>1 DEF Queued
      <4> QED
        BY <1>4, <1>5, <1>8, <1>10, <3>1, <4>1, <4>2
    <3>2. CASE x # r
      <4>1. i \in DOMAIN P[x] /\ pendingWrites'[x][i] = P[x][i]
        BY <1>4, <2>2, <3>2
      <4>2. S[x] < P[x][i] /\ Q[P[x][i]].rule = x
        BY <2>1, <4>1 DEF Queued
      <4> QED
        BY <1>5, <1>8, <3>2, <4>1, <4>2
    <3> QED
      BY <3>1, <3>2
  <2>3. ASSUME NEW i \in DOMAIN pendingWrites'[x]
        PROVE  LET k == pendingWrites'[x][i]
               IN  /\ k \in 1..Len(Q) /\ settings'[k].rule = x /\ storedSetting'[x] < k
                   /\ \/ settings'[k].outcome = "WAITING" /\ k \in settings'[k].awaits
                      \/ settings'[k].outcome = "REFUSED"
    <3> DEFINE k == pendingWrites'[x][i]
    <3>1. PICK j \in DOMAIN P[x] : k = P[x][j] /\ storedSetting'[x] < P[x][j] /\ P[x][j] # n
      BY <2>2
    <3>2. /\ k \in 1..Len(Q) /\ Q[k].rule = x /\ storedSetting'[x] < k /\ k # n
          /\ \/ Q[k].outcome = "WAITING" /\ k \in Q[k].awaits
             \/ Q[k].outcome = "REFUSED"
      BY <1>1, <2>1, <3>1 DEF Queued
    <3> HIDE DEF k
    <3>3. settings'[k] = After(n, ok, Q[k]) /\ Q[k] \in Setting
      BY <1>6, <3>2
    <3>4. /\ settings'[k].rule = x
          /\ Q[k].outcome = "REFUSED" => settings'[k].outcome = "REFUSED"
      BY <1>5, <3>2, <3>3, AfterFields
    <3>5. ASSUME Q[k].outcome = "WAITING", k \in Q[k].awaits
          PROVE  \/ settings'[k].outcome = "WAITING" /\ k \in settings'[k].awaits
                 \/ settings'[k].outcome = "REFUSED"
      <4>1. Q[k].awaits # {n}
        BY <3>2, <3>5
      <4>2. settings'[k].outcome \in {"WAITING", "REFUSED"}
        BY <1>5, <3>3, <3>5, <4>1, AfterFields
      <4>3. settings'[k].outcome = "WAITING" => settings'[k].awaits = Q[k].awaits \ {n}
        BY <1>5, <3>3, AfterFields
      <4> QED
        BY <3>2, <3>5, <4>2, <4>3
    <3> QED
      BY <3>2, <3>4, <3>5 DEF k
  <2>4. ASSUME NEW i \in DOMAIN pendingWrites'[x], NEW j \in DOMAIN pendingWrites'[x], i < j
        PROVE  pendingWrites'[x][i] < pendingWrites'[x][j]
    <3>1. CASE x = r
      <4>1. /\ i \in 1..(len - 1) /\ i + 1 \in DOMAIN P[r] /\ q[i] = P[r][i + 1]
            /\ j \in 1..(len - 1) /\ j + 1 \in DOMAIN P[r] /\ q[j] = P[r][j + 1]
            /\ i + 1 < j + 1
        BY <1>2a, <1>3, <1>4, <2>4, <3>1
      <4>2. P[r][i + 1] < P[r][j + 1]
        BY <2>1, <3>1, <4>1 DEF Queued
      <4> QED
        BY <1>4, <3>1, <4>1, <4>2
    <3>2. CASE x # r
      BY <1>4, <2>1, <2>4, <3>2 DEF Queued
    <3> QED
      BY <3>1, <3>2
  <2>5. ASSUME pendingWrites'[x] # << >>
        PROVE  liveSetting'[x] = pendingWrites'[x][Len(pendingWrites'[x])]
    <3>1. CASE x = r
      <4>1. len - 1 \in 1..(len - 1) /\ Len(q) = len - 1
        <5>1. len \in Nat /\ len >= 1 /\ len # 1
          BY <1>2a, <1>11, <2>5, <3>1
        <5>2. len - 1 \in 1..(len - 1)
          BY <5>1
        <5> QED
          BY <1>3, <5>2
      <4>2. q[Len(q)] = P[r][Len(P[r])]
        BY <1>2a, <1>3, <4>1
      <4> QED
        BY <1>4, <1>11, <2>1, <3>1, <4>2 DEF Queued
    <3>2. CASE x # r
      BY <1>4, <1>11, <2>1, <2>5, <3>2 DEF Queued
    <3> QED
      BY <3>1, <3>2
  <2> QED
    BY <1>7, <2>3, <2>4, <2>5 DEF Queued
<1>13. ASSUME NEW x \in LiveRules
       PROVE  InForce(x)'
  <2>1. InForce(x) /\ Queued(x)
    BY DEF SettingsInv
  <2>2. {storedSetting'[x], liveSetting'[x]} \subseteq 0..Len(settings')
    <3>1. {S[x], liveSetting[x]} \subseteq 0..Len(Q) /\ Len(settings') = Len(Q)
      BY <1>7, <2>1 DEF InForce
    <3>2. storedSetting'[x] \in {S[x], n}
      BY <1>8
    <3>3. n \in 0..Len(Q)
      BY <1>1, <1>5
    <3> QED
      BY <1>11, <3>1, <3>2, <3>3
  <2>3. CASE x # r
    <3>1. ASSUME liveSetting[x] # 0, P[x] = << >>, S[x] # liveSetting[x]
          PROVE  settings'[liveSetting[x]].outcome = "REFUSED"
      <4> DEFINE k == liveSetting[x]
      <4>1. k \in 1..Len(Q) /\ Q[k].outcome = "REFUSED"
        BY <1>1, <2>1, <3>1 DEF InForce
      <4> HIDE DEF k
      <4>2. settings'[k].outcome = "REFUSED"
        BY <1>5, <1>6, <4>1, AfterFields
      <4> QED
        BY <4>2 DEF k
    <3> QED
      BY <1>4, <1>8, <1>11, <2>1, <2>2, <2>3, <3>1 DEF InForce
  <2>4. CASE x = r
    <3>1. liveSetting[r] = P[r][Len(P[r])] /\ n <= P[r][Len(P[r])]
      <4>1. liveSetting[r] = P[r][Len(P[r])]
        BY <2>1, <2>4 DEF Queued
      <4>2. CASE len = 1
        <5>1. n = P[r][Len(P[r])]
          BY <1>2a, <4>2 DEF n
        <5> QED
          BY <1>5, <4>1, <5>1
      <4>3. CASE len # 1
        <5>1. len - 1 \in 1..(len - 1) /\ (len - 1) + 1 = len
          <6>1. len \in Nat /\ len >= 1
            BY <1>2a
          <6> QED
            BY <4>3, <6>1
        <5>2. q[len - 1] = P[r][Len(P[r])] /\ n < q[len - 1]
          BY <1>2a, <1>3, <1>10, <5>1
        <5> QED
          BY <1>5, <1>10, <4>1, <5>1, <5>2
      <4> QED
        BY <4>1, <4>2, <4>3
    <3>2. initialized => storedSetting'[r] <= liveSetting[r]
      BY <1>1, <1>5, <1>8, <2>1, <2>4, <3>1 DEF InForce
    <3>3. ASSUME pendingWrites'[r] = << >>, storedSetting'[r] # liveSetting[r]
          PROVE  settings'[liveSetting[r]].outcome = "REFUSED"
      <4>1. liveSetting[r] = n /\ ~ok
        BY <1>2a, <1>8, <1>11, <3>1, <3>3 DEF n
      <4>2. \/ Q[n].outcome = "WAITING" /\ n \in Q[n].awaits
            \/ Q[n].outcome = "REFUSED"
        BY <1>2, <2>1, <2>4 DEF Queued, n
      <4>3. settings'[n].outcome = "REFUSED"
        BY <1>5, <1>6, <4>1, <4>2, AfterFields
      <4> QED
        BY <4>1, <4>3
    <3> QED
      BY <1>11, <2>2, <2>4, <3>2, <3>3 DEF InForce
  <2> QED
    BY <2>3, <2>4
<1>14. ASSUME NEW k \in DOMAIN settings'
       PROVE  Requested(k)'
  <2>1. k \in 1..Len(Q) /\ Requested(k) /\ Q[k] \in Setting /\ settings'[k] = After(n, ok, Q[k])
    BY <1>1, <1>6, <1>7 DEF SettingsInv
  <2> DEFINE x == Q[k].rule
  <2>2. x \in LiveRules /\ settings'[k].rule = x /\ storedSetting'[x] >= S[x]
        /\ S[x] \in Int /\ storedSetting'[x] \in Int
    BY <1>5, <1>9, <2>1, AfterFields DEF Setting
  <2>3. ASSUME settings'[k].outcome = "WAITING"
        PROVE  \/ storedSetting'[x] >= k
               \/ /\ k \in settings'[k].awaits
                  /\ \E i \in DOMAIN pendingWrites'[x] : pendingWrites'[x][i] = k
    <3>1. Q[k].outcome = "WAITING" /\ settings'[k].awaits = Q[k].awaits \ {n}
      BY <1>5, <2>1, <2>3, AfterFields
    <3>2. CASE S[x] >= k
      BY <2>1, <2>2, <3>2
    <3>3. ASSUME k \in Q[k].awaits, NEW i \in DOMAIN P[x], P[x][i] = k, k # n
          PROVE  \E j \in DOMAIN pendingWrites'[x] : pendingWrites'[x][j] = k
      <4>1. CASE x # r
        BY <1>4, <2>2, <3>3, <4>1
      <4>2. CASE x = r
        <5>1. i \in 1..len /\ i # 1
          BY <1>2a, <3>3, <4>2 DEF n
        <5>2. i - 1 \in 1..(len - 1) /\ (i - 1) + 1 = i
          BY <1>2a, <5>1
        <5>3. q[i - 1] = k
          BY <1>3, <3>3, <4>2, <5>2
        <5> QED
          BY <1>3, <1>4, <4>2, <5>2, <5>3
      <4> QED
        BY <4>1, <4>2
    <3>4. CASE k = n
      <4>1. x = r /\ ok
        <5>1. x = r
          BY <1>5, <3>4
        <5>2. ~(k \in Q[k].awaits /\ ~ok)
          BY <1>5, <2>1, <2>3, <3>1, <3>4, AfterFields
        <5>3. k \in Q[k].awaits
          BY <1>5, <2>1, <2>2, <3>1, <3>4, <5>1 DEF Requested
        <5> QED
          BY <5>1, <5>2, <5>3
      <4> QED
        BY <1>5, <1>8, <3>4, <4>1
    <3> QED
      BY <2>1, <3>1, <3>2, <3>3, <3>4 DEF Requested
  <2>4. ASSUME settings'[k].outcome = "ANSWERED"
        PROVE  storedSetting'[x] >= k
    <3>1. CASE Q[k].outcome = "ANSWERED"
      BY <2>1, <2>2, <3>1 DEF Requested
    <3>2. CASE Q[k].outcome = "WAITING"
      <4>1. ok /\ Q[k].awaits = {n}
        BY <1>5, <2>1, <2>4, <3>2, AfterFields
      <4>2. CASE S[x] >= k
        BY <2>1, <2>2, <4>2
      <4>3. CASE k \in Q[k].awaits
        <5>1. k = n /\ x = r
          BY <1>5, <4>1, <4>3
        <5> QED
          BY <1>5, <1>8, <4>1, <5>1
      <4> QED
        BY <2>1, <3>2, <4>2, <4>3 DEF Requested
    <3> QED
      BY <1>5, <2>1, <2>4, <3>1, <3>2, AfterFields
  <2> QED
    BY <2>2, <2>3, <2>4 DEF Requested
<1>15. SettingsTypeOK' /\ Len(settings') <= MaxSettings
  BY <1>1, <1>4, <1>7, <1>8, <1>11 DEF SettingsTypeOK, Setting
<1> QED
  BY <1>12, <1>13, <1>14, <1>15 DEF SettingsInv

(* A start answers nobody, and what it finds stored has only grown.          *)
LEMMA StartStep ==
  ASSUME SettingsInv, StartWithSettings
  PROVE  SettingsInv'
<1> DEFINE P == pendingWrites
           Q == settings
           S == storedSetting
           Lost(k) == [Q[k] EXCEPT !.awaits = {},
                                   !.outcome = IF @ = "WAITING" THEN "LOST" ELSE @]
<1>1. /\ Q \in Seq(Setting) /\ Len(Q) <= MaxSettings /\ Len(Q) \in Nat
      /\ DOMAIN Q = 1..Len(Q)
      /\ P \in [LiveRules -> Seq(1..MaxSettings)]
      /\ liveSetting \in [LiveRules -> 0..MaxSettings]
      /\ storedSetting \in [LiveRules -> 0..MaxSettings]
      /\ MaxSettings \in Nat
  BY SettingsAssumption DEF SettingsInv, SettingsTypeOK, Setting
<1>2. PICK landed \in SUBSET {r \in LiveRules : P[r] # << >>} :
        storedSetting' = [r \in LiveRules |-> IF r \in landed THEN Head(P[r]) ELSE S[r]]
  BY DEF StartWithSettings
<1>3. /\ initialized' \in BOOLEAN
      /\ liveSetting' = [r \in LiveRules |-> IF initialized' THEN storedSetting'[r] ELSE 0]
      /\ pendingWrites' = [r \in LiveRules |-> << >>]
      /\ settings' = [k \in DOMAIN Q |-> Lost(k)]
  BY DEF StartWithSettings
<1>4. ASSUME NEW r \in LiveRules
      PROVE  storedSetting'[r] \in 0..Len(Q) /\ storedSetting'[r] >= S[r]
  <2>1. S[r] \in 0..Len(Q)
    BY DEF SettingsInv, InForce
  <2>2. CASE r \in landed
    <3>1. P[r] \in Seq(1..MaxSettings) /\ P[r] # << >>
      BY <1>1, <1>2, <2>2
    <3>2. 1 \in DOMAIN P[r] /\ Head(P[r]) = P[r][1]
      BY <3>1, EmptySeq
    <3>3. P[r][1] \in 1..Len(Q) /\ S[r] < P[r][1]
      BY <1>1, <3>2 DEF SettingsInv, Queued
    <3> QED
      BY <1>1, <1>2, <2>1, <2>2, <3>2, <3>3
  <2>3. CASE r \notin landed
    BY <1>1, <1>2, <2>1, <2>3
  <2> QED
    BY <2>2, <2>3
<1>5. ASSUME NEW k \in 1..Len(Q)
      PROVE  /\ settings'[k] \in Setting /\ settings'[k].rule = Q[k].rule
             /\ settings'[k].outcome # "WAITING"
             /\ settings'[k].outcome = "ANSWERED" => Q[k].outcome = "ANSWERED"
             /\ Q[k].rule \in LiveRules
  <2>1. Q[k] \in Setting /\ settings'[k] = Lost(k)
    BY <1>1, <1>3, ElementOfSeq
  <2> QED
    BY <2>1 DEF Setting
<1>6. settings' \in Seq(Setting) /\ Len(settings') = Len(Q) /\ DOMAIN settings' = 1..Len(Q)
  <2> DEFINE l == Len(Q)
  <2>1. settings' = [k \in 1..l |-> settings'[k]]
    BY <1>1, <1>3
  <2>2. settings' \in [1..l -> Setting] /\ l \in Nat
    BY <1>1, <1>5, <2>1
  <2> HIDE DEF l
  <2>3. settings' \in Seq(Setting) /\ DOMAIN settings' = 1..l /\ Len(settings') = l
    BY <2>2
  <2> QED
    BY <2>3 DEF l
<1>7. \A r \in LiveRules : pendingWrites'[r] = << >>
  BY <1>3
<1>8. \A r \in LiveRules : Queued(r)'
  BY <1>7, EmptySeq DEF Queued
<1>9. ASSUME NEW r \in LiveRules
      PROVE  InForce(r)'
  <2>1. liveSetting'[r] = IF initialized' THEN storedSetting'[r] ELSE 0
    BY <1>3
  <2>2. storedSetting'[r] \in 0..Len(Q) /\ storedSetting'[r] \in Int
    BY <1>1, <1>4
  <2>3. {storedSetting'[r], liveSetting'[r]} \subseteq 0..Len(settings')
    BY <1>1, <1>6, <2>1, <2>2
  <2>4. initialized' => storedSetting'[r] = liveSetting'[r]
    BY <2>1
  <2>5. liveSetting'[r] # 0 => storedSetting'[r] = liveSetting'[r]
    BY <2>1
  <2> QED
    BY <2>2, <2>3, <2>4, <2>5 DEF InForce
<1>10. ASSUME NEW k \in DOMAIN settings'
       PROVE  Requested(k)'
  <2>1. k \in 1..Len(Q) /\ Requested(k)
    BY <1>1, <1>6 DEF SettingsInv
  <2> DEFINE r == Q[k].rule
  <2>2. /\ r \in LiveRules /\ settings'[k].rule = r
        /\ settings'[k].outcome # "WAITING"
        /\ settings'[k].outcome = "ANSWERED" => Q[k].outcome = "ANSWERED"
    BY <1>5, <2>1
  <2>3. storedSetting'[r] >= S[r] /\ S[r] \in Int /\ storedSetting'[r] \in Int
    BY <1>1, <1>4, <2>2
  <2>4. Q[k].outcome = "ANSWERED" => S[r] >= k
    BY <2>1 DEF Requested
  <2> HIDE DEF r
  <2>5. settings'[k].outcome = "ANSWERED" => storedSetting'[r] >= k
    BY <2>1, <2>2, <2>3, <2>4
  <2> QED
    BY <2>2, <2>5 DEF Requested
<1>11. SettingsTypeOK' /\ Len(settings') <= MaxSettings
  <2>1. \A r \in LiveRules : storedSetting'[r] \in 0..MaxSettings
    BY <1>1, <1>4
  <2>2. storedSetting' \in [LiveRules -> 0..MaxSettings]
    BY <1>2, <2>1
  <2>3. liveSetting' \in [LiveRules -> 0..MaxSettings]
    <3>1. \A r \in LiveRules :
            (IF initialized' THEN storedSetting'[r] ELSE 0) \in 0..MaxSettings
      BY <1>1, <2>1
    <3> QED
      BY <1>3, <3>1
  <2>4. pendingWrites' \in [LiveRules -> Seq(1..MaxSettings)]
    BY <1>3, EmptySeq
  <2> QED
    BY <1>1, <1>6, <2>2, <2>3, <2>4 DEF SettingsTypeOK, Setting
<1> QED
  BY <1>8, <1>9, <1>10, <1>11 DEF SettingsInv

LEMMA SettingsStep == SettingsInv /\ [SettingsNext]_settingsVars => SettingsInv'
<1> SUFFICES ASSUME SettingsInv, [SettingsNext]_settingsVars PROVE SettingsInv'
  OBVIOUS
<1>1. CASE UNCHANGED settingsVars
  BY <1>1 DEF settingsVars, SettingsInv, SettingsTypeOK, Queued, InForce, Requested
<1>2. ASSUME NEW r \in LiveRules, Configure(r)
      PROVE  SettingsInv'
  BY <1>2, ConfigureStep
<1>3. ASSUME NEW r \in LiveRules, NEW i \in UnderWay(r)
      PROVE  i = 1 /\ pendingWrites[r] # << >>
  <2>1. i = 1 /\ 1 \in DOMAIN pendingWrites[r]
    BY <1>3 DEF UnderWay
  <2> QED
    BY <2>1, EmptySeq
<1>4. ASSUME NEW r \in LiveRules, WriteSetting(r)
      PROVE  SettingsInv'
  BY <1>3, <1>4, SettleStep DEF WriteSetting
<1>5. ASSUME NEW r \in LiveRules, SettingFails(r)
      PROVE  SettingsInv'
  BY <1>3, <1>5, SettleStep DEF SettingFails
<1>6. CASE StartWithSettings
  BY <1>6, StartStep
<1> QED
  BY <1>1, <1>2, <1>4, <1>5, <1>6 DEF SettingsNext

(* A setting the administrator was told of stays (configureRule,             *)
(* flushPersistence, initialize): it is stored or replaced by a later one,   *)
(* and in force or replaced unless the last start could not read the table;  *)
(* and a setting in force that is neither stored nor queued was refused.     *)
THEOREM SettingsStay == SettingsSpec => []AnsweredSettingsStay
<1>1. SettingsInv => AnsweredSettingsStay
  <2> SUFFICES ASSUME SettingsInv PROVE AnsweredSettingsStay
    OBVIOUS
  <2>1. ASSUME NEW n \in DOMAIN settings, settings[n].outcome = "ANSWERED"
        PROVE  LET r == settings[n].rule
               IN  storedSetting[r] >= n /\ (initialized => liveSetting[r] >= n)
    <3> DEFINE r == settings[n].rule
    <3>1. storedSetting[r] >= n
      BY <2>1 DEF SettingsInv, Requested
    <3>2. r \in LiveRules /\ n \in Int
      <4>1. settings \in Seq(Setting)
        BY DEF SettingsInv, SettingsTypeOK, Setting
      <4>2. n \in 1..Len(settings)
        BY <4>1
      <4>3. settings[n] \in Setting
        BY <4>1, <4>2, ElementOfSeq
      <4> QED
        BY <4>2, <4>3 DEF Setting
    <3>3. storedSetting[r] \in Int /\ liveSetting[r] \in Int
      BY <3>2, SettingsAssumption DEF SettingsInv, SettingsTypeOK
    <3>4. initialized => storedSetting[r] <= liveSetting[r]
      BY <3>2 DEF SettingsInv, InForce
    <3> HIDE DEF r
    <3>5. initialized => liveSetting[r] >= n
      BY <3>1, <3>2, <3>3, <3>4
    <3> QED
      BY <3>1, <3>5 DEF r
  <2>2. ASSUME NEW r \in LiveRules
        PROVE  LET n == liveSetting[r]
               IN  /\ initialized => storedSetting[r] <= n
                   /\ n # 0 /\ pendingWrites[r] = << >> /\ storedSetting[r] # n =>
                        settings[n].outcome = "REFUSED"
    BY DEF SettingsInv, InForce
  <2> QED
    BY <2>1, <2>2 DEF AnsweredSettingsStay
<1> QED
  BY <1>1, SettingsInit0, SettingsStep, PTL DEF SettingsSpec

-----------------------------------------------------------------------------
(* The invoices for the tax authority *)

Awaited == {"ASKED", "ABANDONED"}
Accepted == {"SUBMITTED", "VALID", "INVALID", "REJECTED"}

(* What a request is about, by its kind and how far it is.                   *)
RequestMeets(c) ==
    LET r == request[c]
    IN  /\ r.stage = "NONE" => r = NoRequest
        /\ r.stage # "NONE" => r.uuid \in Documents /\ r.kind \in {"SUBMIT", "VERIFY", "CANCEL"}
        /\ r.kind = "SUBMIT" /\ r.stage \in Awaited =>
             portal[r.uuid] = "NONE" /\ file[r.uuid] = Unsaved
        /\ r.kind = "SUBMIT" /\ r.stage = "ANSWERED" =>
             portal[r.uuid] # "NONE" /\ r.answer \in Accepted
        /\ r.kind = "VERIFY" => portal[r.uuid] # "NONE"
        /\ r.stage = "ANSWERED" /\ r.answer # "ERROR" =>
             r.answer # "NONE" /\ r.answer \in past[r.uuid]
        /\ outages = 0 => r.stage # "ABANDONED"
        /\ outages = 0 /\ r.kind \in {"VERIFY", "CANCEL"} => file[r.uuid] # Unsaved

(* A submission has its document to itself until the portal has it.          *)
SubmitsAlone ==
    \A c, e \in Clients :
        c # e /\ request[c].kind = "SUBMIT" /\ request[c].stage \in Awaited =>
            request[e].uuid # request[c].uuid

FileMeets(d) ==
    file[d] # Unsaved =>
        /\ file[d].simulated <=> portal[d] = "NONE"
        /\ ~file[d].guessed => file[d].status \in past[d]

SentIsKept(d) ==
    outages = 0 /\ portal[d] # "NONE" =>
        file[d] # Unsaved \/ \E c \in Clients : request[c].uuid = d

(* A cancelled document is so in the file, or an older answer overwrote it,  *)
(* or an answer that says so is about to be written.                         *)
CancelIsKept(d) ==
    outages = 0 /\ portal[d] = "CANCELLED" /\ file[d] # Unsaved =>
        \/ file[d].status = "CANCELLED" \/ d \in revived
        \/ \E c \in Clients : /\ request[c].stage = "ANSWERED" /\ request[c].uuid = d
                              /\ request[c].answer = "CANCELLED"

Unconfigured ==
    outages = 0 /\ ~configured =>
        /\ \A d \in Documents : portal[d] = "NONE"
        /\ \A c \in Clients : request[c] = NoRequest

EtaInv ==
    /\ EtaTypeOK /\ SubmitsAlone /\ Unconfigured
    /\ \A c \in Clients : RequestMeets(c)
    /\ \A d \in Documents :
         /\ portal[d] # "NONE" => portal[d] \in past[d]
         /\ FileMeets(d) /\ SentIsKept(d) /\ CancelIsKept(d)

LEMMA AskKeeps ==
  ASSUME EtaInv, NEW c \in Clients, NEW d \in Documents, configured,
         NEW kind \in {"SUBMIT", "VERIFY", "CANCEL"}, Ask(c, kind, d),
         kind = "SUBMIT" => d \in Unused,
         kind \in {"VERIFY", "CANCEL"} => file[d] # Unsaved,
         kind = "VERIFY" => ~file[d].simulated
  PROVE  EtaInv'
<1> DEFINE new == [kind |-> kind, uuid |-> d, stage |-> "ASKED", answer |-> "NONE"]
<1>1. /\ request' = [request EXCEPT ![c] = new] /\ request[c] = NoRequest
      /\ UNCHANGED <<portal, file, configured, past, revived, outages>>
  BY DEF Ask
<1>2. EtaTypeOK'
  BY <1>1 DEF EtaInv, EtaTypeOK, PortalStatuses
<1>3. new.kind = kind /\ new.uuid = d /\ new.stage = "ASKED" /\ new.answer = "NONE"
  OBVIOUS
<1> HIDE DEF new
<1>4. \A e \in Clients : request'[e] = IF e = c THEN new ELSE request[e]
  BY <1>1 DEF EtaInv, EtaTypeOK
<1>5. d \in Unused => portal[d] = "NONE" /\ file[d] = Unsaved
                      /\ \A e \in Clients : request[e].uuid # d
  BY DEF Unused, Saved
<1>6. kind = "VERIFY" => portal[d] # "NONE"
  BY DEF EtaInv, FileMeets
<1>7. \A e \in Clients : RequestMeets(e)'
  BY <1>1, <1>3, <1>4, <1>5, <1>6 DEF EtaInv, RequestMeets, Awaited
<1>8. SubmitsAlone'
  BY <1>3, <1>4, <1>5 DEF EtaInv, SubmitsAlone, RequestMeets, Awaited
<1>9. Unconfigured'
  BY <1>1 DEF Unconfigured
<1>10. \A x \in Documents : SentIsKept(x)' /\ CancelIsKept(x)'
  BY <1>1, <1>4, EtaAssumption DEF EtaInv, SentIsKept, CancelIsKept, NoRequest
<1> QED
  BY <1>1, <1>2, <1>7, <1>8, <1>9, <1>10 DEF EtaInv, FileMeets

LEMMA SimulateKeeps ==
  ASSUME EtaInv, NEW d \in Documents, NEW kind \in {"SUBMIT", "VERIFY", "CANCEL"},
         Simulate(d, kind)
  PROVE  EtaInv'
<1> DEFINE new == [status    |-> IF kind = "CANCEL" THEN "CANCELLED" ELSE "VALID",
                   simulated |-> kind = "SUBMIT" \/ file[d].simulated,
                   guessed   |-> TRUE]
<1>1. /\ file' = [file EXCEPT ![d] = new]
      /\ UNCHANGED <<portal, request, configured, past, revived, outages>>
      /\ IF kind = "SUBMIT" THEN ~configured /\ d \in Unused
         ELSE d \in Saved /\ (~configured \/ (kind = "VERIFY" /\ file[d].simulated))
  BY DEF Simulate
<1>2. EtaTypeOK'
  BY <1>1 DEF EtaInv, EtaTypeOK, PortalStatuses
<1>3. /\ new # Unsaved /\ new.guessed
      /\ new.simulated <=> (kind = "SUBMIT" \/ file[d].simulated)
  BY DEF Unsaved
<1> HIDE DEF new
<1>4. \A x \in Documents : file'[x] = IF x = d THEN new ELSE file[x]
  BY <1>1 DEF EtaInv, EtaTypeOK
<1>5. /\ d \in Unused => portal[d] = "NONE" /\ \A e \in Clients : request[e].uuid # d
      /\ d \in Saved => file[d] # Unsaved
  BY DEF Unused, Saved
<1>6. outages = 0 => portal[d] = "NONE"
  BY <1>1, <1>5 DEF EtaInv, FileMeets, Unconfigured
<1>7. \A e \in Clients : RequestMeets(e)'
  BY <1>1, <1>3, <1>4, <1>5 DEF EtaInv, RequestMeets, Awaited
<1>8. SubmitsAlone' /\ Unconfigured'
  BY <1>1 DEF EtaInv, SubmitsAlone, Unconfigured
<1>9. \A x \in Documents : FileMeets(x)'
  BY <1>1, <1>3, <1>4, <1>5 DEF EtaInv, FileMeets
<1>10. \A x \in Documents : SentIsKept(x)' /\ CancelIsKept(x)'
  BY <1>1, <1>3, <1>4, <1>6 DEF EtaInv, SentIsKept, CancelIsKept
<1> QED
  BY <1>1, <1>2, <1>7, <1>8, <1>9, <1>10 DEF EtaInv

LEMMA HandleKeeps ==
  ASSUME EtaInv, NEW c \in Clients, Handle(c)
  PROVE  EtaInv'
<1> DEFINE r == request[c]
           d == request[c].uuid
<1>1. /\ r.stage \in Awaited /\ UNCHANGED <<file, configured, revived, outages>>
      /\ d \in Documents /\ r.kind \in {"SUBMIT", "VERIFY", "CANCEL"}
  BY DEF Handle, Awaited, EtaInv, RequestMeets
<1>2. PICK answer \in PortalStatuses \union {"ERROR"} :
         /\ AnsweredTo(c, answer)
         /\ answer # "ERROR" => answer # "NONE"
         /\ \/ /\ r.kind = "SUBMIT" /\ answer \in Accepted /\ Becomes(d, answer)
            \/ /\ r.kind = "VERIFY" /\ answer = portal[d] /\ UNCHANGED <<portal, past>>
            \/ /\ r.kind = "CANCEL" /\ answer = "CANCELLED" /\ portal[d] = "VALID"
               /\ Becomes(d, answer)
            \/ /\ r.kind = "CANCEL" /\ answer = "ERROR" /\ UNCHANGED <<portal, past>>
  <2>1. CASE r.kind = "SUBMIT"
    BY <2>1 DEF Handle, PortalStatuses, Accepted
  <2>2. CASE r.kind = "VERIFY"
    <3>1. portal[d] \in PortalStatuses /\ portal[d] # "NONE" /\ portal[d] # "ERROR"
      BY <1>1, <2>2 DEF EtaInv, EtaTypeOK, RequestMeets, PortalStatuses
    <3> QED
      BY <2>2, <3>1 DEF Handle
  <2>3. CASE r.kind = "CANCEL"
    BY <2>3 DEF Handle, PortalStatuses
  <2> QED
    BY <1>1, <2>1, <2>2, <2>3
<1> DEFINE new == [r EXCEPT !.stage = "ANSWERED", !.answer = answer]
<1>3. r.stage = "ASKED" => request' = [request EXCEPT ![c] = new]
  BY <1>2 DEF AnsweredTo
<1>4. r.stage = "ABANDONED" => request' = [request EXCEPT ![c] = NoRequest] /\ outages # 0
  BY <1>2 DEF AnsweredTo, EtaInv, RequestMeets
<1>5. /\ new.kind = r.kind /\ new.uuid = d /\ new.stage = "ANSWERED" /\ new.answer = answer
      /\ new \in [kind: {"NONE", "SUBMIT", "VERIFY", "CANCEL"},
                  uuid: Documents \union {NoDocument},
                  stage: {"NONE", "ASKED", "ANSWERED", "ABANDONED"},
                  answer: PortalStatuses \union {"ERROR"}]
  BY <1>1 DEF EtaInv, EtaTypeOK
<1> HIDE DEF new
<1>6. /\ \A x \in Documents : past[x] \subseteq past'[x]
      /\ \A x \in Documents : portal'[x] = portal[x] \/ (x = d /\ portal'[d] = answer)
      /\ r.kind = "VERIFY" \/ answer = "ERROR" => UNCHANGED <<portal, past>>
      /\ r.kind \in {"SUBMIT", "CANCEL"} /\ answer # "ERROR" =>
           portal'[d] = answer /\ answer \in past'[d]
  <2>1. past \in [Documents -> SUBSET PortalStatuses] /\ portal \in [Documents -> PortalStatuses]
    BY DEF EtaInv, EtaTypeOK
  <2>2. CASE r.kind = "VERIFY" \/ answer = "ERROR"
    <3>1. UNCHANGED <<portal, past>>
      BY <1>2, <2>2 DEF Accepted
    <3> QED
      BY <1>1, <2>2, <3>1
  <2>3. CASE ~(r.kind = "VERIFY" \/ answer = "ERROR")
    <3>0. Becomes(d, answer)
      BY <1>2, <2>3
    <3>1. /\ \A x \in Documents : portal'[x] = IF x = d THEN answer ELSE portal[x]
          /\ \A x \in Documents : past'[x] = IF x = d THEN past[d] \union {answer} ELSE past[x]
      BY <2>1, <3>0 DEF Becomes
    <3> QED
      BY <1>1, <2>3, <3>1
  <2> QED
    BY <2>2, <2>3
<1>7. EtaTypeOK'
  <2>1. portal' \in [Documents -> PortalStatuses] /\ past' \in [Documents -> SUBSET PortalStatuses]
    BY <1>1, <1>2 DEF Becomes, EtaInv, EtaTypeOK, PortalStatuses, Accepted
  <2>2. request' \in [Clients ->
          [kind: {"NONE", "SUBMIT", "VERIFY", "CANCEL"}, uuid: Documents \union {NoDocument},
           stage: {"NONE", "ASKED", "ANSWERED", "ABANDONED"}, answer: PortalStatuses \union {"ERROR"}]]
    BY <1>1, <1>3, <1>4, <1>5 DEF EtaInv, EtaTypeOK, NoRequest, Awaited, PortalStatuses
  <2> QED
    BY <1>1, <2>1, <2>2 DEF EtaInv, EtaTypeOK
<1>8. \A e \in Clients : request'[e] = IF e # c THEN request[e]
                                       ELSE IF r.stage = "ASKED" THEN new ELSE NoRequest
  BY <1>1, <1>3, <1>4 DEF EtaInv, EtaTypeOK, Awaited
<1>9. \A x \in Documents : portal[x] # "NONE" => portal'[x] # "NONE"
  BY <1>2, <1>6 DEF Accepted
<1>10. r.kind = "SUBMIT" => file[d] = Unsaved /\ portal[d] = "NONE"
  BY <1>1 DEF EtaInv, RequestMeets
<1>11. RequestMeets(c)'
  BY <1>1, <1>2, <1>5, <1>6, <1>8, <1>9 DEF EtaInv, RequestMeets, Awaited, NoRequest, Accepted
<1>12. ASSUME NEW e \in Clients, e # c
       PROVE  RequestMeets(e)'
  <2>1. request'[e] = request[e] /\ RequestMeets(e)
    BY <1>8, <1>12 DEF EtaInv
  <2>2. request[e].kind = "SUBMIT" /\ request[e].stage \in Awaited =>
          request[e].uuid # d /\ portal'[request[e].uuid] = portal[request[e].uuid]
    BY <1>6, <1>12, <2>1 DEF EtaInv, SubmitsAlone, RequestMeets, Awaited
  <2> QED
    BY <1>1, <1>6, <1>9, <2>1, <2>2 DEF RequestMeets, Awaited, NoRequest
<1>13. SubmitsAlone'
  BY <1>5, <1>8, EtaAssumption DEF EtaInv, SubmitsAlone, RequestMeets, NoRequest, Awaited
<1>14. Unconfigured'
  BY <1>1 DEF EtaInv, Unconfigured, NoRequest, Awaited
<1>15. ASSUME NEW x \in Documents
       PROVE  /\ portal'[x] # "NONE" => portal'[x] \in past'[x]
              /\ FileMeets(x)' /\ SentIsKept(x)' /\ CancelIsKept(x)'
  <2>1. portal'[x] # "NONE" => portal'[x] \in past'[x]
    BY <1>2, <1>6 DEF EtaInv
  <2>2. FileMeets(x)'
    BY <1>1, <1>2, <1>6, <1>9, <1>10 DEF EtaInv, FileMeets, Accepted
  <2>3. SentIsKept(x)'
    BY <1>1, <1>4, <1>5, <1>6, <1>8 DEF EtaInv, SentIsKept, Awaited
  <2>4. CancelIsKept(x)'
    BY <1>1, <1>2, <1>4, <1>5, <1>6, <1>8 DEF EtaInv, CancelIsKept, Awaited, Accepted
  <2> QED
    BY <2>1, <2>2, <2>3, <2>4
<1> QED
  BY <1>7, <1>11, <1>12, <1>13, <1>14, <1>15 DEF EtaInv

LEMMA DecideKeeps ==
  ASSUME EtaInv, NEW d \in Documents, DecideOn(d)
  PROVE  EtaInv'
<1>1. PICK status \in {"VALID", "INVALID"} : Becomes(d, status)
  BY DEF DecideOn
<1>2. portal[d] = "SUBMITTED" /\ UNCHANGED <<file, request, configured, revived, outages>>
  BY DEF DecideOn
<1>3. EtaTypeOK'
  BY <1>1, <1>2 DEF Becomes, EtaInv, EtaTypeOK, PortalStatuses
<1>4. /\ \A x \in Documents : portal'[x] = IF x = d THEN status ELSE portal[x]
      /\ \A x \in Documents : past'[x] = IF x = d THEN past[d] \union {status} ELSE past[x]
  BY <1>1 DEF Becomes, EtaInv, EtaTypeOK
<1>5. \A e \in Clients : RequestMeets(e)'
  BY <1>2, <1>4 DEF EtaInv, RequestMeets, Awaited, NoRequest
<1>6. SubmitsAlone' /\ Unconfigured'
  BY <1>2, <1>4 DEF EtaInv, SubmitsAlone, Unconfigured
<1>7. \A x \in Documents : portal'[x] # "NONE" => portal'[x] \in past'[x]
  BY <1>4 DEF EtaInv
<1>8. \A x \in Documents : FileMeets(x)' /\ SentIsKept(x)' /\ CancelIsKept(x)'
  BY <1>2, <1>4 DEF EtaInv, FileMeets, SentIsKept, CancelIsKept
<1> QED
  BY <1>3, <1>5, <1>6, <1>7, <1>8 DEF EtaInv

LEMMA FinishKeeps ==
  ASSUME EtaInv, NEW c \in Clients, Finish(c)
  PROVE  EtaInv'
<1> DEFINE r == request[c]
           d == request[c].uuid
           kept == Keeps(request[c])
<1>1. /\ r.stage = "ANSWERED" /\ request' = [request EXCEPT ![c] = NoRequest]
      /\ UNCHANGED <<portal, configured, past, outages>>
      /\ d \in Documents /\ r.kind \in {"SUBMIT", "VERIFY", "CANCEL"}
      /\ file' = IF kept THEN FileWith(d, r.kind, r.answer) ELSE file
      /\ revived' = IF ~kept THEN revived
                    ELSE IF r.answer # "CANCELLED" /\ portal[d] = "CANCELLED"
                    THEN revived \union {d} ELSE revived \ {d}
  BY DEF Finish, EtaInv, RequestMeets
<1> DEFINE status == IF r.kind = "SUBMIT" THEN Normalized(r.answer) ELSE r.answer
           new == [status |-> status, simulated |-> file[d].simulated,
                   guessed |-> status # r.answer]
<1>2. /\ r.answer \in PortalStatuses \union {"ERROR"} /\ file[d].simulated \in BOOLEAN
      /\ r.answer # "ERROR" => r.answer # "NONE" /\ r.answer \in past[d]
      /\ r.kind = "SUBMIT" => portal[d] # "NONE" /\ r.answer \in Accepted
      /\ kept => r.answer # "ERROR" /\ (r.kind = "SUBMIT" \/ file[d] # Unsaved)
      /\ ~kept => r.answer = "ERROR" \/ (r.kind \in {"VERIFY", "CANCEL"} /\ file[d] = Unsaved)
  BY <1>1 DEF EtaInv, EtaTypeOK, RequestMeets, Keeps, Saved
<1>3. kept => file' = [file EXCEPT ![d] = new]
  BY <1>1 DEF FileWith
<1>4. kept => /\ new.status = status /\ new.simulated = file[d].simulated
              /\ status \in PortalStatuses /\ status # "NONE"
              /\ new # Unsaved /\ (~new.guessed => status \in past[d])
              /\ new \in [status: PortalStatuses, simulated: BOOLEAN, guessed: BOOLEAN]
              /\ (r.answer = "CANCELLED" => status = "CANCELLED")
  BY <1>2 DEF Normalized, PortalStatuses, Unsaved, Accepted
<1> HIDE DEF new, status, kept
<1>5. \A x \in Documents : file'[x] = IF kept /\ x = d THEN new ELSE file[x]
  BY <1>1, <1>3 DEF EtaInv, EtaTypeOK
<1>6. \A e \in Clients : request'[e] = IF e = c THEN NoRequest ELSE request[e]
  BY <1>1 DEF EtaInv, EtaTypeOK
<1>7. EtaTypeOK'
  <2>1. file' \in [Documents -> [status: PortalStatuses, simulated: BOOLEAN, guessed: BOOLEAN]]
    BY <1>1, <1>3, <1>4 DEF EtaInv, EtaTypeOK
  <2>2. request' \in [Clients ->
          [kind: {"NONE", "SUBMIT", "VERIFY", "CANCEL"}, uuid: Documents \union {NoDocument},
           stage: {"NONE", "ASKED", "ANSWERED", "ABANDONED"}, answer: PortalStatuses \union {"ERROR"}]]
    BY <1>1 DEF EtaInv, EtaTypeOK, NoRequest, PortalStatuses
  <2>3. revived' \subseteq Documents
    BY <1>1 DEF EtaInv, EtaTypeOK
  <2> QED
    BY <1>1, <2>1, <2>2, <2>3 DEF EtaInv, EtaTypeOK
<1>8. RequestMeets(c)'
  BY <1>6 DEF RequestMeets, NoRequest, Awaited
<1>9. ASSUME NEW e \in Clients, e # c
      PROVE  RequestMeets(e)'
  <2>1. request'[e] = request[e] /\ RequestMeets(e)
    BY <1>6, <1>9 DEF EtaInv
  <2>2. request[e].kind = "SUBMIT" /\ request[e].stage \in Awaited => request[e].uuid # d
    BY <1>9 DEF EtaInv, SubmitsAlone
  <2> QED
    BY <1>1, <1>4, <1>5, <2>1, <2>2 DEF RequestMeets, Awaited, NoRequest
<1>10. SubmitsAlone'
  BY <1>6, EtaAssumption DEF EtaInv, SubmitsAlone, RequestMeets, NoRequest, Awaited
<1>11. Unconfigured'
  BY <1>1, <1>6 DEF EtaInv, Unconfigured
<1>12. ASSUME NEW x \in Documents
       PROVE  FileMeets(x)' /\ SentIsKept(x)' /\ CancelIsKept(x)'
  <2>1. file[d] = Unsaved => file[d].simulated = FALSE
    BY DEF Unsaved
  <2>2. FileMeets(x)'
    BY <1>1, <1>2, <1>4, <1>5, <2>1 DEF EtaInv, FileMeets
  <2>3. outages = 0 /\ ~kept => file[d] # Unsaved
    BY <1>1, <1>2 DEF EtaInv, RequestMeets, Accepted
  <2>4. SentIsKept(x)'
    BY <1>1, <1>4, <1>5, <1>6, <2>3 DEF EtaInv, SentIsKept
  <2>5. CancelIsKept(x)'
    <3>1. CASE kept /\ x = d
      BY <1>1, <1>4, <1>5, <3>1 DEF CancelIsKept
    <3>2. CASE ~kept \/ x # d
      <4>1. /\ file'[x] = file[x] /\ portal'[x] = portal[x] /\ outages' = outages
            /\ x \in revived => x \in revived'
        BY <1>1, <1>5, <3>2
      <4>2. outages = 0 /\ ~kept => r.answer = "ERROR"
        BY <1>2, <2>3
      <4>3. ASSUME NEW e \in Clients, request[e].stage = "ANSWERED", request[e].uuid = x,
                   request[e].answer = "CANCELLED", outages = 0
            PROVE  request'[e] = request[e]
        BY <1>6, <3>2, <4>2, <4>3
      <4>4. CancelIsKept(x)
        BY DEF EtaInv
      <4>5. SUFFICES ASSUME outages' = 0, portal'[x] = "CANCELLED", file'[x] # Unsaved
                     PROVE  \/ file'[x].status = "CANCELLED" \/ x \in revived'
                            \/ \E e \in Clients : /\ request'[e].stage = "ANSWERED"
                                                  /\ request'[e].uuid = x
                                                  /\ request'[e].answer = "CANCELLED"
        BY DEF CancelIsKept
      <4>6. CASE file[x].status = "CANCELLED" \/ x \in revived
        BY <4>1, <4>6
      <4>7. CASE \E e \in Clients : /\ request[e].stage = "ANSWERED" /\ request[e].uuid = x
                                    /\ request[e].answer = "CANCELLED"
        BY <4>1, <4>3, <4>5, <4>7
      <4> QED
        BY <4>1, <4>4, <4>5, <4>6, <4>7 DEF CancelIsKept
    <3> QED
      BY <3>1, <3>2
  <2> QED
    BY <2>2, <2>4, <2>5
<1> QED
  BY <1>1, <1>7, <1>8, <1>9, <1>10, <1>11, <1>12 DEF EtaInv

Requests ==
    [kind: {"NONE", "SUBMIT", "VERIFY", "CANCEL"}, uuid: Documents \union {NoDocument},
     stage: {"NONE", "ASKED", "ANSWERED", "ABANDONED"}, answer: PortalStatuses \union {"ERROR"}]
Records == [status: PortalStatuses, simulated: BOOLEAN, guessed: BOOLEAN]
GivenUp(r) == [r EXCEPT !.stage = "ABANDONED"]

LEMMA RequestRecords ==
  /\ NoRequest \in Requests /\ Unsaved \in Records
  /\ \A r \in Requests : /\ GivenUp(r) \in Requests /\ GivenUp(r).stage = "ABANDONED"
                         /\ GivenUp(r).kind = r.kind /\ GivenUp(r).uuid = r.uuid
                         /\ GivenUp(r).answer = r.answer
BY DEF NoRequest, Unsaved, Requests, Records, GivenUp, PortalStatuses

(* After an outage, what is said of none does not count.                     *)
LEMMA OutageKeeps ==
  ASSUME EtaInv, Outage, UNCHANGED <<portal, past, revived>>,
         EtaTypeOK',
         file' \in {file, [d \in Documents |-> Unsaved]},
         \A c \in Clients :
            \/ request'[c] = request[c] \/ request'[c] = NoRequest
            \/ request[c].stage = "ASKED" /\ request'[c] = GivenUp(request[c])
  PROVE  EtaInv'
<1>1. outages' # 0
  BY DEF Outage, EtaInv, EtaTypeOK
<1>2. \A x \in Documents : file'[x] = file[x] \/ file'[x] = Unsaved
  OBVIOUS
<1>3. \A c \in Clients :
         request'[c] # NoRequest => /\ request'[c].kind = request[c].kind
                                    /\ request'[c].uuid = request[c].uuid
                                    /\ request'[c].answer = request[c].answer
                                    /\ \/ request'[c].stage = request[c].stage
                                       \/ /\ request[c].stage = "ASKED"
                                          /\ request'[c].stage = "ABANDONED"
  <2>1. \A c \in Clients : request[c] \in Requests
    BY DEF EtaInv, EtaTypeOK, Requests
  <2> QED
    BY <2>1, RequestRecords
<1>4. ASSUME NEW c \in Clients
      PROVE  RequestMeets(c)'
  <2>1. CASE request'[c] = NoRequest
    BY <2>1 DEF RequestMeets, NoRequest, Awaited
  <2>2. CASE request'[c] # NoRequest
    <3>1. /\ request[c].stage # "NONE" /\ request[c].uuid \in Documents
          /\ request[c].kind \in {"SUBMIT", "VERIFY", "CANCEL"}
          /\ request'[c].kind = request[c].kind /\ request'[c].uuid = request[c].uuid
          /\ request'[c].answer = request[c].answer
          /\ \/ request'[c].stage = request[c].stage
             \/ request[c].stage = "ASKED" /\ request'[c].stage = "ABANDONED"
      BY <1>3, <2>2 DEF EtaInv, RequestMeets
    <3>2. RequestMeets(c)
      BY DEF EtaInv
    <3>3. /\ portal' = portal /\ past' = past
          /\ file'[request[c].uuid] = file[request[c].uuid] \/ file'[request[c].uuid] = Unsaved
      BY <1>2, <3>1
    <3>4. request'[c].stage # "NONE"
      BY <3>1
    <3>5. request'[c].kind = "SUBMIT" /\ request'[c].stage \in Awaited =>
             portal'[request'[c].uuid] = "NONE" /\ file'[request'[c].uuid] = Unsaved
      BY <3>1, <3>2, <3>3 DEF RequestMeets, Awaited
    <3>6. request'[c].stage = "ANSWERED" =>
             /\ request'[c].kind = "SUBMIT" =>
                  portal'[request'[c].uuid] # "NONE" /\ request'[c].answer \in Accepted
             /\ request'[c].answer # "ERROR" =>
                  request'[c].answer # "NONE" /\ request'[c].answer \in past'[request'[c].uuid]
      BY <3>1, <3>2, <3>3 DEF RequestMeets
    <3>7. /\ request'[c].kind = "VERIFY" => portal'[request'[c].uuid] # "NONE"
          /\ request'[c].uuid \in Documents /\ request'[c].kind \in {"SUBMIT", "VERIFY", "CANCEL"}
      BY <3>1, <3>2, <3>3 DEF RequestMeets
    <3> QED
      BY <1>1, <3>4, <3>5, <3>6, <3>7 DEF RequestMeets
  <2> QED
    BY <2>1, <2>2
<1>5. SubmitsAlone'
  BY <1>3, EtaAssumption DEF EtaInv, SubmitsAlone, RequestMeets, NoRequest, Awaited
<1>6. Unconfigured' /\ \A x \in Documents : SentIsKept(x)' /\ CancelIsKept(x)'
  BY <1>1 DEF Unconfigured, SentIsKept, CancelIsKept
<1>7. \A x \in Documents : FileMeets(x)'
  BY <1>2 DEF EtaInv, FileMeets
<1> QED
  BY <1>4, <1>5, <1>6, <1>7 DEF EtaInv

LEMMA StopWaitingKeeps ==
  ASSUME EtaInv, NEW c \in Clients, StopWaiting(c)
  PROVE  EtaInv'
<1>1. /\ Outage /\ UNCHANGED <<portal, file, configured, past, revived>>
      /\ \/ /\ request[c].stage = "ASKED"
            /\ request' = [request EXCEPT ![c] = GivenUp(request[c])]
         \/ request' = [request EXCEPT ![c] = NoRequest]
  BY DEF StopWaiting, GivenUp
<1>2. request \in [Clients -> Requests]
  BY DEF EtaInv, EtaTypeOK, Requests
<1>3. request' \in [Clients -> Requests]
  BY <1>1, <1>2, RequestRecords
<1>4. EtaTypeOK'
  BY <1>1, <1>3 DEF EtaInv, EtaTypeOK, Requests, Outage
<1>5. \A e \in Clients :
         \/ request'[e] = request[e] \/ request'[e] = NoRequest
         \/ request[e].stage = "ASKED" /\ request'[e] = GivenUp(request[e])
  BY <1>1, <1>2
<1> QED
  BY <1>1, <1>4, <1>5, OutageKeeps

LEMMA StopKeeps ==
  ASSUME EtaInv, Stop
  PROVE  EtaInv'
<1>1. /\ Outage /\ UNCHANGED <<portal, past, revived>> /\ configured' \in BOOLEAN
      /\ file' \in {file, [d \in Documents |-> Unsaved]}
      /\ request' = [c \in Clients |->
           IF request[c].stage = "ASKED" THEN GivenUp(request[c])
           ELSE IF request[c].stage = "ABANDONED" THEN request[c] ELSE NoRequest]
  BY DEF Stop, GivenUp
<1>2. /\ request \in [Clients -> Requests]
      /\ file \in [Documents -> Records]
  BY DEF EtaInv, EtaTypeOK, Requests, Records
<1>3. request' \in [Clients -> Requests] /\ file' \in [Documents -> Records]
  BY <1>1, <1>2, RequestRecords
<1>4. EtaTypeOK'
  BY <1>1, <1>3 DEF EtaInv, EtaTypeOK, Requests, Records, Outage
<1>5. \A e \in Clients :
         \/ request'[e] = request[e] \/ request'[e] = NoRequest
         \/ request[e].stage = "ASKED" /\ request'[e] = GivenUp(request[e])
  BY <1>1
<1> QED
  BY <1>1, <1>4, <1>5, OutageKeeps

(* "So that invoices sent are not lost": what the portal has accepted is in  *)
(* the file or about to be, and what the file says of a document the portal  *)
(* has said of it, but for the statuses the service made up and for what an  *)
(* older answer, an outage or a stop of the process overwrote (etaStore,     *)
(* etaService). A submission has its document to itself; an answer that says *)
(* cancelled is written by the one who read it.                              *)
THEOREM EtaIsSound == EtaSpec => [](EtaTypeOK /\ EtaSound)
<1>1. EtaInit => EtaInv
  <2> SUFFICES ASSUME EtaInit PROVE EtaInv
    OBVIOUS
  <2>1. EtaTypeOK
    BY DEF EtaInit, EtaTypeOK, PortalStatuses, Unsaved, NoRequest
  <2>2. \A c \in Clients : request[c] = NoRequest
    BY DEF EtaInit
  <2>3. \A d \in Documents : portal[d] = "NONE" /\ file[d] = Unsaved
    BY DEF EtaInit
  <2>4. /\ \A c \in Clients : RequestMeets(c)
        /\ SubmitsAlone
    BY <2>2 DEF RequestMeets, SubmitsAlone, NoRequest, Awaited
  <2> QED
    BY <2>1, <2>2, <2>3, <2>4 DEF EtaInv, Unconfigured, FileMeets, SentIsKept, CancelIsKept
<1>2. EtaInv /\ [EtaNext]_etaVars => EtaInv'
  <2> SUFFICES ASSUME EtaInv, [EtaNext]_etaVars PROVE EtaInv'
    OBVIOUS
  <2>1. ASSUME NEW d \in Documents, NEW c \in Clients, Submit(c, d) \/ Verify(c, d) \/ Cancel(c, d)
        PROVE  EtaInv'
    <3>1. CASE Submit(c, d)
      BY <3>1, AskKeeps DEF Submit
    <3>2. CASE Verify(c, d)
      BY <3>2, AskKeeps DEF Verify, Saved
    <3>3. CASE Cancel(c, d)
      BY <3>3, AskKeeps DEF Cancel, Saved
    <3> QED
      BY <2>1, <3>1, <3>2, <3>3
  <2>2. ASSUME NEW d \in Documents, NEW kind \in {"SUBMIT", "VERIFY", "CANCEL"},
               Simulate(d, kind)
        PROVE  EtaInv'
    BY <2>2, SimulateKeeps
  <2>3. ASSUME NEW d \in Documents, DecideOn(d)
        PROVE  EtaInv'
    BY <2>3, DecideKeeps
  <2>4. ASSUME NEW c \in Clients, Handle(c) \/ StopWaiting(c) \/ Finish(c)
        PROVE  EtaInv'
    BY <2>4, HandleKeeps, StopWaitingKeeps, FinishKeeps
  <2>5. CASE Stop
    BY <2>5, StopKeeps
  <2>6. CASE UNCHANGED etaVars
    BY <2>6 DEF etaVars, EtaInv, EtaTypeOK, RequestMeets, SubmitsAlone, Unconfigured,
                FileMeets, SentIsKept, CancelIsKept
  <2> QED
    BY <2>1, <2>2, <2>3, <2>4, <2>5, <2>6 DEF EtaNext
<1>3. EtaInv => EtaTypeOK /\ EtaSound
  <2> SUFFICES ASSUME EtaInv PROVE EtaTypeOK /\ EtaSound
    OBVIOUS
  <2>1. \A d \in Documents : d \in Saved <=> file[d] # Unsaved
    BY DEF Saved
  <2>2. SentAreKept
    BY <2>1 DEF EtaInv, FileMeets, SentIsKept, SentAreKept, Saved
  <2>3. StatusesAreTrue
    BY <2>1 DEF EtaInv, FileMeets, CancelIsKept, StatusesAreTrue, Saved
  <2> QED
    BY <2>2, <2>3 DEF EtaSound, EtaInv
<1> QED
  BY <1>1, <1>2, <1>3, PTL DEF EtaSpec
===============================================================================
