--------------------------- MODULE Platform_proofs ---------------------------
(***************************************************************************)
(* Proofs about the parts of the platform.  A part is proved about by its  *)
(* own Init and Next, for any concurrency or for requests that do not      *)
(* overlap, as its property says; a behaviour of Platform that is of this  *)
(* part takes no other steps.                                              *)
(***************************************************************************)
EXTENDS Platform, Sequences, FiniteSetTheorems, WellFoundedInduction, TLAPS

-----------------------------------------------------------------------------
(* A behaviour is of one part.                                             *)

LEMMA PartStays == [Next]_vars => part' = part
BY DEF Next, vars, Only, RidersStep, SessionsStep, CodesStep, AddressesStep, BasketsStep,
       CampaignsStep, MenusStep, OptionsStep, ListingsStep, HoursStep, OffersStep, TicketsStep,
       NoticesStep, LiveStep

LEMMA CodesOnly == part = "codes" /\ [Next]_vars => [P!Next]_(P!vars)
BY DEF Next, vars, Only, RidersStep, SessionsStep, CodesStep, AddressesStep, BasketsStep,
       CampaignsStep, MenusStep, OptionsStep, ListingsStep, HoursStep, OffersStep, TicketsStep,
       NoticesStep, LiveStep, codes, P!vars, P!tables

-----------------------------------------------------------------------------
(* Requests of a part that do not overlap.                                 *)

\* At most one request is under way.
Alone == \A g, h \in Handlers : req[g] # Idle /\ req[h] # Idle => g = h

RequestsKept == req = [h \in Handlers |-> req[h]]

\* The step is of h, which goes on with r, and nobody else is under way.
OnlyMoves(h, r) ==
    /\ RequestsKept' /\ Alone'
    /\ req'[h] = r
    /\ \A g \in Handlers \ {h} : req[g] = Idle /\ req'[g] = Idle

LEMMA BeginsAlone ==
    ASSUME RequestsKept, NEW h \in Handlers, NEW r, Begin(h, r), ~ overlapped'
    PROVE  OnlyMoves(h, r) /\ ~ overlapped /\ req[h] = Idle
<1>1. ~ overlapped /\ \A g \in Handlers : req[g] = Idle
  BY Zenon DEF Begin
<1>2. RequestsKept' /\ \A g \in Handlers : req'[g] = IF g = h THEN r ELSE req[g]
  BY DEF Begin, RequestsKept
<1> QED BY <1>1, <1>2 DEF OnlyMoves, Alone

LEMMA GoesOnAlone ==
    ASSUME RequestsKept, Alone, NEW h \in Handlers, NEW r, Continue(h, r), req[h].kind # "idle"
    PROVE  OnlyMoves(h, r)
<1>1. \A g \in Handlers \ {h} : req[g] = Idle
  BY DEF Alone, Idle
<1>2. RequestsKept' /\ \A g \in Handlers : req'[g] = IF g = h THEN r ELSE req[g]
  BY DEF Continue, RequestsKept
<1> QED BY <1>1, <1>2 DEF OnlyMoves, Alone

LEMMA RestartsAlone ==
    ASSUME Restart
    PROVE  /\ RequestsKept' /\ Alone' /\ \A h \in Handlers : req'[h] = Idle
           /\ UNCHANGED overlapped
BY DEF Restart, RequestsKept, Alone

\* A counter goes up by one.
LEMMA OneMore ==
    ASSUME NEW set, NEW f \in [set -> Nat], NEW x
    PROVE  /\ [f EXCEPT ![x] = @ + 1] \in [set -> Nat]
           /\ \A d \in set : [f EXCEPT ![x] = @ + 1][d] = IF d = x THEN f[d] + 1 ELSE f[d]
<1>1. \A d \in set : [f EXCEPT ![x] = @ + 1][d] = IF d = x THEN f[d] + 1 ELSE f[d]
  OBVIOUS
<1>2. \A d \in set : (IF d = x THEN f[d] + 1 ELSE f[d]) \in Nat
  OBVIOUS
<1>3. \A d \in set : [f EXCEPT ![x] = @ + 1][d] \in Nat
  BY <1>1, <1>2
<1>4. DOMAIN [f EXCEPT ![x] = @ + 1] = set
  OBVIOUS
<1>5. [f EXCEPT ![x] = @ + 1] = [d \in set |-> [f EXCEPT ![x] = @ + 1][d]]
  BY <1>4
<1> QED BY <1>1, <1>3, <1>5

-----------------------------------------------------------------------------
(* PhoneCodes: the texts of a day.  A send that was counted is a text of   *)
(* that day to come, even when the counter was reset in between.           *)

PaysFor(r, d) == r.kind \in {"arm", "store", "text"} /\ r.day = d

Paying(d) == {h \in Handlers : PaysFor(req[h], d)}

TextsTyped ==
    /\ RequestsKept
    /\ daily \in [count : Nat, ends : BOOLEAN]
    /\ day \in Nat
    /\ texts \in [P!CodeDays -> Nat]
    /\ \A h \in Handlers : req[h].kind \in {"arm", "store", "text"} =>
        req[h] \in [kind : {"arm", "store", "text"}, day : 1 .. day]

\* What the day's counter has let through, sent or to be sent, is within it and
\* within the limit; tomorrow nothing is sent yet.
TextsPaid ==
    \A d \in P!CodeDays :
        /\ texts[d] + Cardinality(Paying(d)) <= OTP_DAILY_LIMIT
        /\ d = day => texts[d] + Cardinality(Paying(d)) <= daily.count
        /\ d > day => texts[d] = 0

TextsInv == TextsTyped /\ day > 0 /\ TextsPaid

LEMMA PayingCounted ==
    ASSUME NEW d
    PROVE  IsFiniteSet(Paying(d)) /\ Cardinality(Paying(d)) \in Nat
BY PlatformAssumption, FS_Subset, FS_CardinalityType DEF Paying

\* One request goes on with r: it may come to pay for a text of d, or no longer.
LEMMA PayerGoesOn ==
    ASSUME RequestsKept, NEW h \in Handlers, NEW r, req' = [req EXCEPT ![h] = r], NEW d
    PROVE  /\ (PaysFor(r, d) <=> PaysFor(req[h], d)) => Paying(d)' = Paying(d)
           /\ PaysFor(r, d) /\ ~ PaysFor(req[h], d)
                => Cardinality(Paying(d)') = Cardinality(Paying(d)) + 1
           /\ ~ PaysFor(r, d) => Cardinality(Paying(d)') <= Cardinality(Paying(d))
           /\ ~ PaysFor(r, d) /\ PaysFor(req[h], d)
                => Cardinality(Paying(d)') = Cardinality(Paying(d)) - 1
<1>1. \A g \in Handlers : req'[g] = IF g = h THEN r ELSE req[g]
  BY DEF RequestsKept
<1>2. (PaysFor(r, d) <=> PaysFor(req[h], d)) => Paying(d)' = Paying(d)
  BY <1>1 DEF Paying
<1>3. PaysFor(r, d) /\ ~ PaysFor(req[h], d)
        => h \notin Paying(d) /\ Paying(d)' = Paying(d) \cup {h}
  BY <1>1 DEF Paying
<1>4. ~ PaysFor(r, d) /\ PaysFor(req[h], d)
        => h \in Paying(d) /\ Paying(d)' = Paying(d) \ {h}
  BY <1>1 DEF Paying
<1>5. IsFiniteSet(Paying(d)) /\ Cardinality(Paying(d)) \in Nat
  BY PayingCounted
<1>6. PaysFor(r, d) /\ ~ PaysFor(req[h], d)
        => Cardinality(Paying(d)') = Cardinality(Paying(d)) + 1
  BY <1>3, <1>5, FS_AddElement
<1>7. ~ PaysFor(r, d) /\ PaysFor(req[h], d)
        => Cardinality(Paying(d)') = Cardinality(Paying(d)) - 1
  BY <1>4, <1>5, FS_RemoveElement
<1> QED BY <1>2, <1>5, <1>6, <1>7

\* A request that does not pay for a text neither before nor after.
LEMMA TextsStay ==
    ASSUME TextsInv, UNCHANGED <<day, texts>>, NEW h \in Handlers, NEW r,
           daily' \in [count : Nat, ends : BOOLEAN], daily'.count >= daily.count,
           req' = [req EXCEPT ![h] = r],
           r.kind \in {"arm", "store", "text"} =>
                /\ r \in [kind : {"arm", "store", "text"}, day : 1 .. day]
                /\ req[h].kind \in {"arm", "store", "text"} /\ r.day = req[h].day
    PROVE  TextsInv'
<1>1. RequestsKept' /\ \A g \in Handlers : req'[g] = IF g = h THEN r ELSE req[g]
  BY DEF TextsInv, TextsTyped, RequestsKept
<1>2. TextsTyped'
  BY <1>1 DEF TextsInv, TextsTyped, P!CodeDays
<1>3. ASSUME NEW d \in P!CodeDays
      PROVE  Cardinality(Paying(d)') <= Cardinality(Paying(d)) /\ Cardinality(Paying(d)') \in Nat
             /\ Cardinality(Paying(d)) \in Nat
  <2>1. PaysFor(r, d) => PaysFor(req[h], d)
    BY DEF PaysFor
  <2>2. RequestsKept
    BY DEF TextsInv, TextsTyped
  <2>3. Cardinality(Paying(d)) \in Nat
    BY PayingCounted
  <2>4. Paying(d)' = Paying(d) \/ Cardinality(Paying(d)') = Cardinality(Paying(d)) - 1
        \/ Cardinality(Paying(d)') = Cardinality(Paying(d))
    BY <2>1, <2>2, PayerGoesOn
  <2>5. IsFiniteSet(Paying(d)')
    BY PlatformAssumption, FS_Subset DEF Paying
  <2>6. Cardinality(Paying(d)') \in Nat
    BY <2>5, FS_CardinalityType
  <2> QED BY <2>3, <2>4, <2>6
<1>4. TextsPaid'
  <2> SUFFICES ASSUME NEW d \in P!CodeDays
               PROVE  /\ texts[d] + Cardinality(Paying(d)') <= OTP_DAILY_LIMIT
                      /\ d = day => texts[d] + Cardinality(Paying(d)') <= daily'.count
                      /\ d > day => texts[d] = 0
    BY DEF TextsPaid, P!CodeDays
  <2>1. /\ texts[d] \in Nat /\ OTP_DAILY_LIMIT \in Nat
        /\ daily.count \in Nat /\ daily'.count \in Nat
    BY PlatformAssumption DEF TextsInv, TextsTyped
  <2> QED BY <1>3, <2>1 DEF TextsInv, TextsPaid
<1> QED BY <1>2, <1>4 DEF TextsInv

\* One more text is counted: it is one of today, within the limit.
LEMMA SendCounted ==
    ASSUME TextsInv, NEW h \in Handlers, P!CountSend(h)
    PROVE  TextsInv'
<1>1. /\ req[h].kind = "count" /\ UNCHANGED <<day, texts>>
      /\ daily' = [daily EXCEPT !.count = @ + 1]
      /\ daily \in [count : Nat, ends : BOOLEAN] /\ day \in Nat \ {0}
      /\ RequestsKept /\ texts \in [P!CodeDays -> Nat] /\ OTP_DAILY_LIMIT \in Nat
  BY PlatformAssumption DEF P!CountSend, TextsInv, TextsTyped
<1>2. /\ daily' \in [count : Nat, ends : BOOLEAN] /\ daily'.count = daily.count + 1
      /\ daily'.count >= daily.count
  BY <1>1
<1>3. CASE ~ P!WithinLimit(daily.count + 1)
  <2>1. req' = [req EXCEPT ![h] = Idle]
    BY <1>3 DEF P!CountSend, P!Finish, P!Continue, P!Idle, Idle
  <2> QED BY <1>1, <1>2, <2>1, TextsStay DEF Idle
<1>4. CASE P!WithinLimit(daily.count + 1)
  <2> PICK r : r = [kind |-> IF daily.count = 0 THEN "arm" ELSE "store", day |-> day]
    OBVIOUS
  <2>1. req' = [req EXCEPT ![h] = r]
    BY <1>4 DEF P!CountSend, P!Continue
  <2>2. r \in [kind : {"arm", "store", "text"}, day : 1 .. day] /\ r.day = day
    BY <1>1
  <2>3. RequestsKept' /\ \A g \in Handlers : req'[g] = IF g = h THEN r ELSE req[g]
    BY <1>1, <2>1 DEF RequestsKept
  <2>4. TextsTyped'
    BY <1>1, <1>2, <2>2, <2>3 DEF TextsInv, TextsTyped, P!CodeDays
  <2>5. ASSUME NEW d \in P!CodeDays
        PROVE  /\ texts[d] + Cardinality(Paying(d)') <= OTP_DAILY_LIMIT
               /\ d = day => texts[d] + Cardinality(Paying(d)') <= daily'.count
               /\ d > day => texts[d] = 0
    <3>1. ~ PaysFor(req[h], d) /\ (PaysFor(r, d) <=> d = day)
      BY <1>1, <2>2 DEF PaysFor
    <3>2. Cardinality(Paying(d)) \in Nat /\ texts[d] \in Nat
      BY <1>1, PayingCounted
    <3>3. /\ texts[d] + Cardinality(Paying(d)) <= OTP_DAILY_LIMIT
          /\ d = day => texts[d] + Cardinality(Paying(d)) <= daily.count
          /\ d > day => texts[d] = 0
      BY DEF TextsInv, TextsPaid
    <3>4. CASE d = day
      <4>1. Cardinality(Paying(d)') = Cardinality(Paying(d)) + 1
        BY <1>1, <2>1, <3>1, <3>4, PayerGoesOn
      <4>2. daily.count + 1 <= OTP_DAILY_LIMIT /\ daily.count \in Nat
        BY <1>1, <1>4 DEF P!WithinLimit
      <4> QED BY <1>1, <1>2, <3>2, <3>3, <3>4, <4>1, <4>2
    <3>5. CASE d # day
      <4>1. (PaysFor(r, d) <=> PaysFor(req[h], d)) /\ RequestsKept
        BY <1>1, <3>1, <3>5
      <4>2. Paying(d)' = Paying(d)
        BY <2>1, <4>1, PayerGoesOn
      <4> QED BY <3>3, <3>5, <4>2
    <3> QED BY <3>4, <3>5
  <2>6. TextsPaid'
    BY <1>1, <2>5 DEF TextsPaid, P!CodeDays
  <2> QED BY <1>1, <2>4, <2>6 DEF TextsInv
<1> QED BY <1>3, <1>4

\* The text that was to come is sent.
LEMMA TextSent ==
    ASSUME TextsInv, NEW h \in Handlers, P!SendText(h)
    PROVE  TextsInv'
<1>1. /\ req[h].kind = "text" /\ UNCHANGED <<day, daily>>
      /\ texts' = [texts EXCEPT ![req[h].day] = @ + 1]
      /\ req' = [req EXCEPT ![h] = Idle]
      /\ RequestsKept /\ texts \in [P!CodeDays -> Nat] /\ OTP_DAILY_LIMIT \in Nat
      /\ daily.count \in Nat /\ req[h].day \in 1 .. day /\ day \in Nat
  BY PlatformAssumption
     DEF P!SendText, P!Finish, P!Continue, P!Idle, Idle, TextsInv, TextsTyped
<1>2. RequestsKept' /\ \A g \in Handlers : req'[g] = IF g = h THEN Idle ELSE req[g]
  BY <1>1 DEF RequestsKept
<1>3. /\ texts' \in [P!CodeDays -> Nat]
      /\ \A d \in P!CodeDays : texts'[d] = IF d = req[h].day THEN texts[d] + 1 ELSE texts[d]
  BY <1>1, OneMore
<1>4. TextsTyped'
  BY <1>1, <1>2, <1>3 DEF TextsInv, TextsTyped, P!CodeDays, Idle
<1>5. ASSUME NEW d \in P!CodeDays
      PROVE  /\ texts'[d] + Cardinality(Paying(d)') <= OTP_DAILY_LIMIT
             /\ d = day => texts'[d] + Cardinality(Paying(d)') <= daily.count
             /\ d > day => texts'[d] = 0
  <2>1. ~ PaysFor(Idle, d) /\ (PaysFor(req[h], d) <=> d = req[h].day)
    BY <1>1 DEF PaysFor, Idle
  <2>2. Cardinality(Paying(d)) \in Nat /\ texts[d] \in Nat /\ d \in Nat
    BY <1>1, PayingCounted DEF P!CodeDays
  <2>3. texts'[d] + Cardinality(Paying(d)') = texts[d] + Cardinality(Paying(d))
    <3>1. CASE d = req[h].day
      <4>1. Cardinality(Paying(d)') = Cardinality(Paying(d)) - 1
        BY <1>1, <2>1, <3>1, PayerGoesOn
      <4> QED BY <1>3, <2>2, <3>1, <4>1
    <3>2. CASE d # req[h].day
      <4>1. Paying(d)' = Paying(d)
        BY <1>1, <2>1, <3>2, PayerGoesOn
      <4> QED BY <1>3, <3>2, <4>1
    <3> QED BY <3>1, <3>2
  <2>4. d > day => texts'[d] = texts[d]
    BY <1>1, <1>3, <2>2
  <2> QED BY <2>3, <2>4 DEF TextsInv, TextsPaid
<1>6. TextsPaid'
  BY <1>1, <1>5 DEF TextsPaid, P!CodeDays
<1> QED BY <1>1, <1>4, <1>6 DEF TextsInv

\* The counter goes with its day.
LEMMA DayEnded ==
    ASSUME TextsInv, P!DayEnds
    PROVE  TextsInv'
<1>1. /\ day' = day + 1 /\ daily' = [count |-> 0, ends |-> FALSE] /\ UNCHANGED <<texts, req>>
      /\ day \in Nat \ {0} /\ texts \in [P!CodeDays -> Nat]
  BY DEF P!DayEnds, P!NoCount, TextsInv, TextsTyped
<1>2. TextsTyped'
  BY <1>1 DEF TextsInv, TextsTyped, RequestsKept, P!CodeDays
<1>3. ASSUME NEW d \in P!CodeDays
      PROVE  /\ texts[d] + Cardinality(Paying(d)') <= OTP_DAILY_LIMIT
             /\ d = day + 1 => texts[d] + Cardinality(Paying(d)') <= 0
             /\ d > day + 1 => texts[d] = 0
  <2>1. Paying(d)' = Paying(d) /\ d \in Nat
    BY <1>1 DEF Paying, P!CodeDays
  <2>2. ASSUME d = day + 1 PROVE Paying(d) = {}
    <3>1. ASSUME NEW h \in Handlers, PaysFor(req[h], d) PROVE FALSE
      <4>1. req[h].day \in 1 .. day
        BY <3>1 DEF PaysFor, TextsInv, TextsTyped
      <4> QED BY <1>1, <2>2, <3>1, <4>1 DEF PaysFor
    <3> QED BY <3>1 DEF Paying
  <2>3. d = day + 1 => texts[d] + Cardinality(Paying(d)) = 0
    BY <1>1, <2>2, FS_EmptySet DEF TextsInv, TextsPaid
  <2> QED BY <1>1, <2>1, <2>3 DEF TextsInv, TextsPaid
<1>4. TextsPaid'
  BY <1>1, <1>3 DEF TextsPaid, P!CodeDays
<1> QED BY <1>1, <1>2, <1>4 DEF TextsInv

\* Texts to come are forgotten with their requests.
LEMMA TextsForgotten ==
    ASSUME TextsInv, UNCHANGED <<daily, day, texts>>, req' = [h \in Handlers |-> Idle]
    PROVE  TextsInv'
<1>1. \A d : Paying(d)' = {}
  BY DEF Paying, PaysFor, Idle
<1>2. \A d \in P!CodeDays : Cardinality(Paying(d)) \in Nat /\ Cardinality(Paying(d)') = 0
  BY <1>1, PayingCounted, FS_EmptySet
<1>3. TextsTyped'
  BY DEF TextsInv, TextsTyped, RequestsKept, P!CodeDays, Idle
<1>4. /\ texts \in [P!CodeDays -> Nat] /\ OTP_DAILY_LIMIT \in Nat /\ daily.count \in Nat
  BY PlatformAssumption DEF TextsInv, TextsTyped
<1>5. TextsPaid'
  BY <1>2, <1>4 DEF TextsInv, TextsPaid, P!CodeDays
<1> QED BY <1>3, <1>5 DEF TextsInv

LEMMA TextsStart == P!Init => TextsInv
<1> SUFFICES ASSUME P!Init PROVE TextsInv
  OBVIOUS
<1>1. TextsTyped /\ day = 1 /\ daily.count = 0
  BY DEF P!Init, P!NoCount, P!NoRequests, P!Idle, TextsTyped, RequestsKept, P!CodeDays
<1>2. \A d \in P!CodeDays : texts[d] = 0 /\ Paying(d) = {}
  BY DEF P!Init, P!NoRequests, P!Idle, Paying, PaysFor, P!CodeDays
<1>3. \A d \in P!CodeDays : texts[d] = 0 /\ Cardinality(Paying(d)) = 0
  BY <1>2, FS_EmptySet
<1>4. OTP_DAILY_LIMIT \in Nat
  BY PlatformAssumption
<1>5. TextsPaid
  BY <1>1, <1>3, <1>4 DEF TextsPaid
<1> QED BY <1>1, <1>5 DEF TextsInv

LEMMA TextsKept == TextsInv /\ [P!Next]_(P!vars) => TextsInv'
<1> SUFFICES ASSUME TextsInv, [P!Next]_(P!vars) PROVE TextsInv'
  OBVIOUS
<1>0. /\ daily \in [count : Nat, ends : BOOLEAN] /\ daily.count >= daily.count
      /\ \A h \in Handlers : req[h].kind \in {"arm", "store", "text"} =>
            req[h] \in [kind : {"arm", "store", "text"}, day : 1 .. day]
  BY DEF TextsInv, TextsTyped
<1>1. ASSUME NEW h \in Handlers, P!Send(h) PROVE TextsInv'
  BY <1>0, <1>1, TextsStay DEF P!Send, P!Begin
<1>2. ASSUME NEW h \in Handlers, P!ArmDay(h) PROVE TextsInv'
  <2>1. daily' \in [count : Nat, ends : BOOLEAN] /\ daily'.count >= daily.count
    BY <1>0, <1>2 DEF P!ArmDay
  <2> QED BY <1>0, <1>2, <2>1, TextsStay DEF P!ArmDay, P!Continue
<1>3. ASSUME NEW h \in Handlers, P!StoreCode(h) PROVE TextsInv'
  BY <1>0, <1>3, TextsStay DEF P!StoreCode, P!Continue
<1>4. ASSUME NEW h \in Handlers, P!TextFails(h) PROVE TextsInv'
  BY <1>0, <1>4, TextsStay DEF P!TextFails, P!Finish, P!Continue, P!Idle
<1>5. ASSUME NEW h \in Handlers, NEW right \in BOOLEAN, P!Verify(h, right) PROVE TextsInv'
  <2> PICK r : r = [kind |-> IF P!Burned(code) THEN "burn"
                             ELSE IF right THEN "spend" ELSE "wrong", stored |-> code]
    OBVIOUS
  <2>1. r.kind \in {"burn", "spend", "wrong"}
    OBVIOUS
  <2> QED BY <1>0, <1>5, <2>1, TextsStay DEF P!Verify, P!Begin, P!tables
<1>6. ASSUME NEW h \in Handlers, P!DeleteCode(h) PROVE TextsInv'
  BY <1>0, <1>6, TextsStay DEF P!DeleteCode, P!Finish, P!Continue, P!Idle
<1>7. ASSUME NEW h \in Handlers, P!ReadLifetime(h) PROVE TextsInv'
  <2>1. CASE code = NULL
    BY <1>0, <1>7, <2>1, TextsStay DEF P!ReadLifetime, P!Answer, P!Finish, P!Continue, P!Idle
  <2>2. CASE code # NULL
    <3> PICK r : r = [req[h] EXCEPT !.kind = "recount"]
      OBVIOUS
    <3>1. r.kind \notin {"arm", "store", "text"}
      BY <1>7 DEF P!ReadLifetime
    <3> QED BY <1>0, <1>7, <2>2, <3>1, TextsStay DEF P!ReadLifetime, P!Continue
  <2> QED BY <2>1, <2>2
<1>8. ASSUME NEW h \in Handlers, P!WriteBack(h) PROVE TextsInv'
  BY <1>0, <1>8, TextsStay DEF P!WriteBack, P!Answer, P!Finish, P!Continue, P!Idle
<1>9. ASSUME P!CooldownLapses \/ P!CodeLapses \/ UNCHANGED P!vars PROVE TextsInv'
  BY <1>9 DEF P!CooldownLapses, P!CodeLapses, P!vars, P!tables, TextsInv, TextsTyped, TextsPaid,
     RequestsKept, Paying, PaysFor, P!CodeDays
<1>10. ASSUME P!Restart /\ UNCHANGED P!tables PROVE TextsInv'
  BY <1>10, TextsForgotten DEF P!Restart, P!tables, P!Idle, Idle
<1>11. ASSUME NEW h \in Handlers, P!VerifyFixed(h) PROVE TextsInv'
  BY <1>0, <1>11, TextsStay DEF P!VerifyFixed, P!Begin, P!tables
<1> QED BY <1>1, <1>2, <1>3, <1>4, <1>5, <1>6, <1>7, <1>8, <1>9, <1>10, <1>11, SendCounted,
           TextSent, DayEnded DEF P!Next, P!Proceed

-----------------------------------------------------------------------------
(* PhoneCodes: the tries at a code.  While nobody else is under way, what  *)
(* a try has read of the code is what is stored, and what was answered.    *)

TriesTyped ==
    /\ RequestsKept
    /\ made \in 0 .. LastCode
    /\ tried \in [P!CodeIds -> Nat] /\ accepted \in [P!CodeIds -> Nat]

\* The code x counts the wrong tries at it, and let nobody in yet.
Truthful(x) ==
    /\ x \in [id : 1 .. made, attempts : 0 .. OTP_MAX_ATTEMPTS]
    /\ tried[x.id] = x.attempts /\ accepted[x.id] = 0

\* What the request r read of a code is still so.
TriedInTime(r) ==
    /\ r.kind = "spend" => Truthful(r.stored)
    /\ r.kind \in {"wrong", "recount"} =>
        /\ "kind" \in DOMAIN r
        /\ Truthful(r.stored) /\ r.stored.attempts < OTP_MAX_ATTEMPTS

TriesKnown ==
    /\ Alone
    /\ code # NULL => Truthful(code)
    /\ \A h \in Handlers : TriedInTime(req[h])
    /\ \A c \in P!CodeIds :
        /\ tried[c] <= OTP_MAX_ATTEMPTS /\ accepted[c] <= 1
        /\ c > made => tried[c] = 0 /\ accepted[c] = 0

TriesInv == TriesTyped /\ (~ overlapped => TriesKnown)

LEMMA TriesStart == P!Init => TriesInv
<1> SUFFICES ASSUME P!Init PROVE TriesInv
  OBVIOUS
<1>1. LastCode \in Nat /\ OTP_MAX_ATTEMPTS \in Nat \ {0}
  BY PlatformAssumption
<1> QED BY <1>1 DEF P!Init, P!NoRequests, P!Idle, Idle, RequestsKept, Alone, P!CodeIds, TriesInv,
           TriesTyped, TriesKnown, TriedInTime

\* No code is made, tried or accepted.
LEMMA TriesStay ==
    ASSUME TriesInv, UNCHANGED <<made, tried, accepted>>, RequestsKept',
           code' \in {code, NULL},
           ~ overlapped' =>
                ~ overlapped /\ Alone' /\ \A h \in Handlers :
                    TriedInTime(req'[h]) \/ req'[h] \in {Idle, req[h]}
    PROVE  TriesInv'
<1>1. TriesTyped'
  BY DEF TriesInv, TriesTyped, P!CodeIds
<1>2. \A x : Truthful(x) => Truthful(x)'
  BY DEF Truthful
<1>3. ASSUME ~ overlapped' PROVE TriesKnown'
  <2>1. TriesKnown /\ Alone'
    BY <1>3 DEF TriesInv
  <2>2. ASSUME NEW h \in Handlers PROVE TriedInTime(req[h])'
    <3>1. TriedInTime(req'[h])
      BY <1>3, <2>1 DEF TriesKnown, TriedInTime, Idle
    <3> QED BY <1>2, <3>1 DEF TriedInTime
  <2>3. code' # NULL => Truthful(code)'
    BY <1>2, <2>1 DEF TriesKnown
  <2> QED BY <2>1, <2>2, <2>3 DEF TriesKnown, P!CodeIds
<1> QED BY <1>1, <1>3 DEF TriesInv

\* So it is when one handler goes on with what is in time.
LEMMA TriesGoOn ==
    ASSUME TriesInv, UNCHANGED <<made, tried, accepted>>, code' \in {code, NULL},
           NEW h \in Handlers, NEW r,
           Begin(h, r) \/ (Continue(h, r) /\ req[h].kind # "idle"),
           ~ overlapped' /\ TriesKnown => TriedInTime(r)
    PROVE  TriesInv'
<1>1. RequestsKept'
  BY DEF TriesInv, TriesTyped, RequestsKept, Begin, Continue
<1>2. ASSUME ~ overlapped'
      PROVE  ~ overlapped /\ Alone' /\ \A g \in Handlers :
                    TriedInTime(req'[g]) \/ req'[g] \in {Idle, req[g]}
  <2>1. ~ overlapped /\ TriesKnown /\ OnlyMoves(h, r)
    <3>1. CASE Begin(h, r)
      BY <1>2, <3>1, BeginsAlone DEF TriesInv, TriesTyped
    <3>2. CASE Continue(h, r) /\ req[h].kind # "idle"
      <4>1. ~ overlapped
        BY <1>2, <3>2 DEF Continue
      <4> QED BY <3>2, <4>1, GoesOnAlone DEF TriesInv, TriesTyped, TriesKnown
    <3> QED BY <3>1, <3>2
  <2>2. TriedInTime(r)
    BY <1>2, <2>1
  <2> QED BY <2>1, <2>2 DEF OnlyMoves
<1> QED BY <1>1, <1>2, TriesStay

\* A code is made, with a number of its own.
LEMMA CodeStored ==
    ASSUME TextsInv, TriesInv, NEW h \in Handlers, P!StoreCode(h)
    PROVE  TriesInv'
<1> PICK r : r = [req[h] EXCEPT !.kind = "text"]
  OBVIOUS
<1>1. /\ req[h].kind = "store" /\ made < LastCode /\ made' = made + 1
      /\ code' = [id |-> made + 1, attempts |-> 0]
      /\ Continue(h, r) /\ UNCHANGED <<tried, accepted>>
      /\ LastCode \in Nat /\ OTP_MAX_ATTEMPTS \in Nat
      /\ made \in 0 .. LastCode /\ r.kind = "text"
  BY PlatformAssumption DEF P!StoreCode, P!Continue, Continue, TriesInv, TriesTyped, TextsInv,
     TextsTyped
<1>2. TriesTyped'
  <2>1. made' \in 0 .. LastCode /\ RequestsKept'
    BY <1>1 DEF TriesInv, TriesTyped, RequestsKept, Continue
  <2> QED BY <1>1, <2>1 DEF TriesInv, TriesTyped, P!CodeIds
<1>3. ASSUME ~ overlapped' PROVE TriesKnown'
  <2>1. TriesKnown /\ OnlyMoves(h, r)
    BY <1>1, <1>3, GoesOnAlone DEF TriesInv, TriesTyped, TriesKnown, Continue
  <2>2. Truthful(code)'
    BY <1>1, <2>1 DEF Truthful, TriesKnown, P!CodeIds
  <2>3. ASSUME NEW g \in Handlers PROVE TriedInTime(req[g])'
    <3>1. CASE g = h
      BY <1>1, <2>1, <3>1 DEF TriedInTime, OnlyMoves
    <3>2. CASE g # h
      BY <2>1, <3>2 DEF TriedInTime, OnlyMoves, Idle
    <3> QED BY <3>1, <3>2
  <2> QED BY <1>1, <2>1, <2>2, <2>3 DEF TriesKnown, OnlyMoves, P!CodeIds
<1> QED BY <1>2, <1>3 DEF TriesInv

\* Nobody is left to answer.
LEMMA NoneLeft ==
    ASSUME NEW h \in Handlers, OnlyMoves(h, Idle)
    PROVE  Alone' /\ \A g \in Handlers : TriedInTime(req[g])'
BY DEF OnlyMoves, TriedInTime, Idle

\* A wrong try is answered, and is counted if the code is written back.
LEMMA WrongAnswered ==
    ASSUME TriesInv, NEW h \in Handlers, req[h].kind \in {"wrong", "recount"}, P!Answer(h),
           UNCHANGED <<made, accepted>>,
           code' = NULL \/ code' = P!Counted(req[h].stored)
    PROVE  TriesInv'
<1> PICK x : x = req[h].stored
  OBVIOUS
<1>1. /\ Continue(h, Idle) /\ tried' = [tried EXCEPT ![x.id] = @ + 1]
      /\ tried \in [P!CodeIds -> Nat] /\ accepted \in [P!CodeIds -> Nat]
      /\ LastCode \in Nat /\ OTP_MAX_ATTEMPTS \in Nat /\ made \in 0 .. LastCode
  BY PlatformAssumption DEF P!Answer, P!Finish, P!Continue, P!Idle, Continue, Idle, TriesInv,
     TriesTyped
<1>2. TriesTyped'
  <2>1. [tried EXCEPT ![x.id] = @ + 1] \in [P!CodeIds -> Nat]
    BY <1>1, OneMore
  <2> QED BY <1>1, <2>1 DEF TriesInv, TriesTyped, RequestsKept, Continue, P!CodeIds
<1>3. ASSUME ~ overlapped' PROVE TriesKnown'
  <2>1. TriesKnown /\ OnlyMoves(h, Idle) /\ Truthful(x) /\ x.attempts < OTP_MAX_ATTEMPTS
    BY <1>1, <1>3, GoesOnAlone DEF TriesInv, TriesTyped, TriesKnown, TriedInTime, Continue
  <2>2. /\ x \in [id : 1 .. made, attempts : 0 .. OTP_MAX_ATTEMPTS] /\ x.id \in P!CodeIds
        /\ x.id <= made /\ tried[x.id] = x.attempts /\ accepted[x.id] = 0
    BY <1>1, <2>1 DEF Truthful, P!CodeIds
  <2>3. \A c \in P!CodeIds : tried'[c] = IF c = x.id THEN x.attempts + 1 ELSE tried[c]
    BY <1>1, <2>2
  <2>4. code' # NULL => Truthful(code)'
    <3>1. SUFFICES ASSUME code' = [x EXCEPT !.attempts = @ + 1] PROVE Truthful(code)'
      BY DEF P!Counted
    <3>2. code' \in [id : 1 .. made, attempts : 0 .. OTP_MAX_ATTEMPTS]
          /\ code'.id = x.id /\ code'.attempts = x.attempts + 1
      BY <1>1, <2>1, <2>2, <3>1
    <3> QED BY <2>2, <2>3, <3>2 DEF Truthful
  <2>5. \A c \in P!CodeIds : /\ tried'[c] <= OTP_MAX_ATTEMPTS /\ accepted[c] <= 1
                             /\ c > made => tried'[c] = 0 /\ accepted[c] = 0
    BY <1>1, <2>1, <2>2, <2>3 DEF TriesKnown, P!CodeIds
  <2> QED BY <2>1, <2>4, <2>5, NoneLeft DEF TriesKnown, P!CodeIds
<1> QED BY <1>2, <1>3 DEF TriesInv

\* The code lets somebody in, and is no more.
LEMMA CodeAccepted ==
    ASSUME TriesInv, NEW h \in Handlers, req[h].kind = "spend", P!DeleteCode(h)
    PROVE  TriesInv'
<1> PICK x : x = req[h].stored
  OBVIOUS
<1>1. /\ Continue(h, Idle) /\ accepted' = [accepted EXCEPT ![x.id] = @ + 1]
      /\ code' = NULL /\ UNCHANGED <<made, tried>>
      /\ tried \in [P!CodeIds -> Nat] /\ accepted \in [P!CodeIds -> Nat]
      /\ LastCode \in Nat /\ OTP_MAX_ATTEMPTS \in Nat /\ made \in 0 .. LastCode
  BY PlatformAssumption DEF P!DeleteCode, P!Finish, P!Continue, P!Idle, Continue, Idle,
     TriesInv, TriesTyped
<1>2. TriesTyped'
  <2>1. [accepted EXCEPT ![x.id] = @ + 1] \in [P!CodeIds -> Nat]
    BY <1>1, OneMore
  <2> QED BY <1>1, <2>1 DEF TriesInv, TriesTyped, RequestsKept, Continue, P!CodeIds
<1>3. ASSUME ~ overlapped' PROVE TriesKnown'
  <2>1. TriesKnown /\ OnlyMoves(h, Idle) /\ Truthful(x)
    BY <1>1, <1>3, GoesOnAlone DEF TriesInv, TriesTyped, TriesKnown, TriedInTime, Continue
  <2>2. x.id \in P!CodeIds /\ x.id <= made /\ accepted[x.id] = 0
    BY <1>1, <2>1 DEF Truthful, P!CodeIds
  <2>3. \A c \in P!CodeIds : accepted'[c] = IF c = x.id THEN 1 ELSE accepted[c]
    BY <1>1, <2>2
  <2>4. \A c \in P!CodeIds : /\ tried[c] <= OTP_MAX_ATTEMPTS /\ accepted'[c] <= 1
                             /\ c > made => tried[c] = 0 /\ accepted'[c] = 0
    BY <1>1, <2>1, <2>2, <2>3 DEF TriesKnown, P!CodeIds
  <2> QED BY <1>1, <2>1, <2>4, NoneLeft DEF TriesKnown, P!CodeIds
<1> QED BY <1>2, <1>3 DEF TriesInv

LEMMA TriesKept == TextsInv /\ TriesInv /\ [P!Next]_(P!vars) => TriesInv'
<1> SUFFICES ASSUME TextsInv, TriesInv, [P!Next]_(P!vars) PROVE TriesInv'
  OBVIOUS
<1>0. \A h \in Handlers : req[h].kind \in {"arm", "store", "text"} =>
            req[h] \in [kind : {"arm", "store", "text"}, day : 1 .. day]
  BY DEF TextsInv, TextsTyped
<1> USE DEF P!Begin, P!Finish, P!Continue, P!Idle, Begin, Continue, Idle
<1>1. ASSUME NEW h \in Handlers, P!Send(h) PROVE TriesInv'
  BY <1>1, TriesGoOn DEF P!Send, TriedInTime
<1>2. ASSUME NEW h \in Handlers, P!CountSend(h) PROVE TriesInv'
  <2> PICK r : r = [kind |-> IF daily.count = 0 THEN "arm" ELSE "store", day |-> day]
    OBVIOUS
  <2>1. Continue(h, Idle) \/ Continue(h, r)
    BY <1>2 DEF P!CountSend
  <2>2. TriedInTime(Idle) /\ TriedInTime(r)
    BY DEF TriedInTime
  <2>3. req[h].kind # "idle" /\ UNCHANGED <<code, made, tried, accepted>>
    BY <1>2 DEF P!CountSend
  <2> QED BY <2>1, <2>2, <2>3, TriesGoOn
<1>3. ASSUME NEW h \in Handlers, P!ArmDay(h) PROVE TriesInv'
  BY <1>0, <1>3, TriesGoOn DEF P!ArmDay, TriedInTime
<1>4. ASSUME NEW h \in Handlers, P!SendText(h) \/ P!TextFails(h) PROVE TriesInv'
  BY <1>4, TriesGoOn DEF P!SendText, P!TextFails, TriedInTime
<1>5. ASSUME NEW h \in Handlers, NEW right \in BOOLEAN, P!Verify(h, right) PROVE TriesInv'
  <2> PICK k : k = IF P!Burned(code) THEN "burn" ELSE IF right THEN "spend" ELSE "wrong"
    OBVIOUS
  <2> PICK r : r = [kind |-> k, stored |-> code]
    OBVIOUS
  <2>0. k # "recount" /\ (k \in {"spend", "wrong"} => ~ P!Burned(code))
    OBVIOUS
  <2>1. /\ r.stored = code /\ "kind" \in DOMAIN r /\ r.kind # "recount"
        /\ r.kind \in {"spend", "wrong"} => ~ P!Burned(code)
    BY <2>0
  <2>2. ~ overlapped' /\ TriesKnown => TriedInTime(r)
    <3> SUFFICES ASSUME TriesKnown PROVE TriedInTime(r)
      OBVIOUS
    <3>1. Truthful(code)
      BY <1>5 DEF P!Verify, TriesKnown
    <3>2. code.attempts \in Nat /\ OTP_MAX_ATTEMPTS \in Nat
      BY <3>1, PlatformAssumption DEF Truthful
    <3> QED BY <2>1, <3>1, <3>2 DEF TriedInTime, P!Burned
  <2>3. Begin(h, r) /\ UNCHANGED <<code, made, tried, accepted>>
    BY <1>5 DEF P!Verify, P!tables
  <2> QED BY <2>2, <2>3, TriesGoOn
<1>6. ASSUME NEW h \in Handlers, P!DeleteCode(h) PROVE TriesInv'
  <2>1. CASE req[h].kind = "spend"
    BY <1>6, <2>1, CodeAccepted
  <2>2. CASE req[h].kind \in {"burn", "fixed"}
    BY <1>6, <2>2, TriesGoOn DEF P!DeleteCode, TriedInTime
  <2> QED BY <1>6, <2>1, <2>2 DEF P!DeleteCode
<1>7. ASSUME NEW h \in Handlers, P!ReadLifetime(h) PROVE TriesInv'
  <2>1. CASE code = NULL
    BY <1>7, <2>1, WrongAnswered DEF P!ReadLifetime
  <2>2. CASE code # NULL
    <3> PICK r : r = [req[h] EXCEPT !.kind = "recount"]
      OBVIOUS
    <3>1. Continue(h, r) /\ UNCHANGED <<code, made, tried, accepted>> /\ req[h].kind = "wrong"
      BY <1>7, <2>2 DEF P!ReadLifetime
    <3>2. TriesKnown => TriedInTime(r)
      BY <3>1 DEF TriesKnown, TriedInTime
    <3> QED BY <3>1, <3>2, TriesGoOn
  <2> QED BY <2>1, <2>2
<1>8. ASSUME NEW h \in Handlers, P!WriteBack(h) PROVE TriesInv'
  BY <1>8, WrongAnswered DEF P!WriteBack
<1>9. ASSUME P!CooldownLapses \/ P!CodeLapses \/ P!DayEnds \/ UNCHANGED P!vars PROVE TriesInv'
  <2>1. /\ UNCHANGED <<made, tried, accepted, req, overlapped>> /\ code' \in {code, NULL}
        /\ RequestsKept' /\ (~ overlapped => Alone')
    BY <1>9 DEF P!CooldownLapses, P!CodeLapses, P!DayEnds, P!vars, P!tables, TriesInv, TriesTyped,
       TriesKnown, RequestsKept, Alone
  <2> QED BY <2>1, TriesStay
<1>10. ASSUME P!Restart /\ UNCHANGED P!tables PROVE TriesInv'
  <2>1. Restart
    BY <1>10 DEF P!Restart, Restart
  <2> QED BY <1>10, <2>1, RestartsAlone, TriesStay DEF P!tables
<1>11. ASSUME NEW h \in Handlers, P!VerifyFixed(h) PROVE TriesInv'
  BY <1>11, TriesGoOn DEF P!VerifyFixed, P!tables, TriedInTime
<1> QED BY <1>1, <1>2, <1>3, <1>4, <1>5, <1>6, <1>7, <1>8, <1>9, <1>10, <1>11, CodeStored
        DEF P!Next, P!Proceed

\* However sends overlap, fail or die half way, no day's counter pays for more
\* texts than the limit; one at a time, nobody is told of more wrong tries at a
\* code than its attempts, and no code lets anybody in twice.
THEOREM CodesStayWithinLimits == Spec => []CodesWithinLimits
<1> DEFINE Inv == part = "codes" => TextsInv /\ TriesInv
<1>1. Init => Inv
  BY TextsStart, TriesStart DEF Init
<1>2. Inv /\ [Next]_vars => Inv'
  BY PartStays, CodesOnly, TextsKept, TriesKept
<1>3. Inv => CodesWithinLimits
  <2> SUFFICES ASSUME TextsInv, TriesInv PROVE P!TextsWithinLimit /\ P!TriesWithinLimit
    BY DEF CodesWithinLimits
  <2>1. \A d \in P!CodeDays : texts[d] \in Nat /\ Cardinality(Paying(d)) \in Nat
    BY PayingCounted DEF TextsInv, TextsTyped
  <2>2. OTP_DAILY_LIMIT \in Nat
    BY PlatformAssumption
  <2>3. P!TextsWithinLimit
    BY <2>1, <2>2 DEF TextsInv, TextsPaid, P!TextsWithinLimit
  <2>4. P!TriesWithinLimit
    BY DEF TriesInv, TriesKnown, P!TriesWithinLimit
  <2> QED BY <2>3, <2>4
<1> QED BY <1>1, <1>2, <1>3, PTL DEF Spec

-----------------------------------------------------------------------------
(* Sessions: what was ended stays ended.  While nobody else is under way,  *)
(* what a request has read of a session is still so, and a session that    *)
(* was ended has no live token left.                                       *)

LEMMA SessionsOnly == part = "sessions" /\ [Next]_vars => [S!Next]_(S!vars)
BY DEF Next, vars, Only, RidersStep, SessionsStep, CodesStep, AddressesStep, BasketsStep,
       CampaignsStep, MenusStep, OptionsStep, ListingsStep, HoursStep, OffersStep, TicketsStep,
       NoticesStep, LiveStep, sessions, S!vars, S!tables

SessionRows == [user : Users, session : SessionIds, live : BOOLEAN]

SessionsTyped ==
    /\ tokens \in [S!RefreshTokens -> SessionRows \cup {NULL}]
    /\ \E n \in Nat : S!Issued = 1 .. n
    /\ access \in [SessionIds -> {"none", "early", "late"}]
    /\ ended \in [SessionIds -> {"no", "revoked", "denied"}]

\* The session s was started and has no live token.
Spent(s) ==
    /\ s \in S!Started
    /\ \A t \in S!Issued : tokens[t].session = s => ~ tokens[t].live

EndedAreSpent ==
    \A s \in SessionIds :
        /\ ended[s] # "no" => Spent(s)
        /\ ended[s] = "denied" => access[s] = "none" \/ (access[s] = "early" /\ s \in denied)

\* What the request r has read of accounts and sessions is still so.
SessionInTime(r) ==
    /\ r.kind = "sign-in" => r.user \in Users
    /\ r.kind \in {"load", "replace", "rotate"} =>
        /\ "kind" \in DOMAIN r
        /\ r.token \in S!Issued /\ ended[tokens[r.token].session] = "no"
    /\ r.kind = "revoke" => r.sessions \subseteq S!Started
    /\ r.kind \in {"account", "sweep"} => r.user \in Users

SessionsKnown ==
    Alone /\ SessionsTyped /\ EndedAreSpent /\ \A h \in Handlers : SessionInTime(req[h])

SessionsInv == RequestsKept /\ (~ overlapped => SessionsKnown)

LEMMA SessionsStart == S!Init => SessionsInv
<1> SUFFICES ASSUME S!Init PROVE SessionsInv
  OBVIOUS
<1>1. S!Issued = 1 .. 0
  BY DEF S!Init, S!Issued
<1>2. SessionsTyped
  BY <1>1 DEF S!Init, SessionsTyped
<1>3. EndedAreSpent
  BY DEF S!Init, EndedAreSpent
<1> QED BY <1>2, <1>3 DEF S!Init, S!NoRequests, S!Idle, Idle, RequestsKept, Alone, SessionsInv,
           SessionsKnown, SessionInTime

\* A session of somebody's is somebody's.
LEMMA StartedSessions ==
    /\ \A u \in Users : S!SessionsOf(u) \subseteq S!Started
    /\ \A s \in S!Started : S!UserOf(s) \in Users /\ s \in S!SessionsOf(S!UserOf(s))
    /\ SessionsTyped => \A t \in S!Issued : tokens[t].user \in Users /\
            tokens[t].session \in S!SessionsOf(tokens[t].user) \cap SessionIds
<1>1. \A s \in S!Started : S!UserOf(s) \in Users /\ s \in S!SessionsOf(S!UserOf(s))
  BY DEF S!Started, S!UserOf
<1>2. SessionsTyped => \A t \in S!Issued : tokens[t] \in SessionRows
  BY DEF SessionsTyped, S!Issued
<1>3. SessionsTyped => \A t \in S!Issued : tokens[t].user \in Users /\
            tokens[t].session \in S!SessionsOf(tokens[t].user) \cap SessionIds
  BY <1>2 DEF SessionRows, S!SessionsOf
<1> QED BY <1>1, <1>3 DEF S!Started

\* The one request under way goes on with r, which is in time of the new tables.
LEMMA SessionServed ==
    ASSUME NEW h \in Handlers, NEW r, OnlyMoves(h, r), SessionInTime(r)', SessionsTyped',
           EndedAreSpent'
    PROVE  SessionsKnown'
<1>1. ASSUME NEW g \in Handlers PROVE SessionInTime(req[g])'
  <2>1. CASE g = h
    BY <2>1 DEF OnlyMoves, SessionInTime
  <2>2. CASE g # h
    BY <2>2 DEF OnlyMoves, SessionInTime, Idle
  <2> QED BY <2>1, <2>2
<1> QED BY <1>1 DEF SessionsKnown, OnlyMoves

\* A request that begins or goes on and writes nothing about sessions.
LEMMA SessionGoesOn ==
    ASSUME SessionsInv, UNCHANGED <<tokens, access, denied, ended>>, NEW h \in Handlers, NEW r,
           Begin(h, r) \/ (Continue(h, r) /\ req[h].kind # "idle"),
           ~ overlapped' /\ SessionsKnown => SessionInTime(r)
    PROVE  SessionsInv'
<1>1. RequestsKept'
  BY DEF SessionsInv, RequestsKept, Begin, Continue
<1>2. ASSUME ~ overlapped' PROVE SessionsKnown'
  <2>1. SessionsKnown /\ OnlyMoves(h, r)
    <3>1. CASE Begin(h, r)
      BY <1>2, <3>1, BeginsAlone DEF SessionsInv
    <3>2. CASE Continue(h, r) /\ req[h].kind # "idle"
      <4>1. ~ overlapped
        BY <1>2, <3>2 DEF Continue
      <4> QED BY <3>2, <4>1, GoesOnAlone DEF SessionsInv, SessionsKnown
    <3> QED BY <3>1, <3>2
  <2>2. SessionInTime(r)' /\ SessionsTyped' /\ EndedAreSpent'
    BY <1>2, <2>1 DEF SessionInTime, SessionsTyped, EndedAreSpent, Spent, S!Issued, S!Started,
       S!SessionsOf, SessionsKnown
  <2> QED BY <2>1, <2>2, SessionServed
<1> QED BY <1>1, <1>2 DEF SessionsInv

\* A request that writes: what is to be shown of the tables.
LEMMA SessionWrites ==
    ASSUME SessionsInv, NEW h \in Handlers, NEW r, Continue(h, r), req[h].kind # "idle",
           SessionsKnown => SessionInTime(r)' /\ SessionsTyped' /\ EndedAreSpent'
    PROVE  SessionsInv'
<1>1. RequestsKept'
  BY DEF SessionsInv, RequestsKept, Continue
<1>2. ASSUME ~ overlapped' PROVE SessionsKnown'
  <2>1. SessionsKnown /\ OnlyMoves(h, r)
    BY <1>2, GoesOnAlone DEF SessionsInv, SessionsKnown, Continue
  <2> QED BY <2>1, SessionServed
<1> QED BY <1>1, <1>2 DEF SessionsInv

\* A token is created after the others.
LEMMA TokenCreated ==
    ASSUME SessionsTyped, NEW u \in Users, NEW s \in SessionIds, S!CreateToken(u, s)
    PROVE  /\ tokens' \in [S!RefreshTokens -> SessionRows \cup {NULL}]
           /\ \E n \in Nat : S!Issued' = 1 .. n
           /\ \E t \in S!RefreshTokens \ S!Issued :
                /\ S!Issued' = S!Issued \cup {t}
                /\ tokens' = [tokens EXCEPT ![t] = [user |-> u, session |-> s, live |-> TRUE]]
<1> PICK n \in Nat : S!Issued = 1 .. n
  BY DEF SessionsTyped
<1> PICK t \in Nat : t = n + 1
  OBVIOUS
<1>1. Cardinality(S!Issued) + 1 = t
  <2>1. Cardinality(1 .. n) = n
    BY FS_Interval
  <2> QED BY <2>1
<1>2. /\ t \in S!RefreshTokens /\ t \notin S!Issued
      /\ tokens' = [tokens EXCEPT ![t] = [user |-> u, session |-> s, live |-> TRUE]]
  <2>1. t \notin S!Issued
    OBVIOUS
  <2> PICK c : c = Cardinality(S!Issued) + 1
    OBVIOUS
  <2>2. c \in S!RefreshTokens
    BY DEF S!CreateToken, S!Cardinality, Cardinality
  <2>3. tokens' = [tokens EXCEPT ![c] = [user |-> u, session |-> s, live |-> TRUE]]
    BY DEF S!CreateToken, S!Cardinality, Cardinality
  <2>4. c = t
    BY <1>1
  <2> QED BY <2>1, <2>2, <2>3, <2>4
<1>3. [user |-> u, session |-> s, live |-> TRUE] \in SessionRows
  BY DEF SessionRows
<1>4. tokens' \in [S!RefreshTokens -> SessionRows \cup {NULL}]
  BY <1>2, <1>3 DEF SessionsTyped
<1>5. [user |-> u, session |-> s, live |-> TRUE] # NULL
  BY <1>3, RowsAssumption DEF SessionRows
<1>6. S!Issued' = S!Issued \cup {t}
  BY <1>2, <1>5 DEF S!Issued, SessionsTyped
<1>7. S!Issued' = 1 .. t
  BY <1>6
<1> QED BY <1>2, <1>4, <1>6, <1>7

\* Sessions that were started, and spent, are so while their tokens stay what they are.
LEMMA TokensStay ==
    ASSUME SessionsTyped, S!Issued' = S!Issued,
           \A t \in S!Issued : /\ tokens'[t].user = tokens[t].user
                               /\ tokens'[t].session = tokens[t].session
                               /\ tokens'[t].live => tokens[t].live
    PROVE  /\ S!Started' = S!Started
           /\ \A u \in Users : S!SessionsOf(u)' = S!SessionsOf(u)
           /\ \A s : Spent(s) => Spent(s)'
<1>1. \A u \in Users : S!SessionsOf(u)' = S!SessionsOf(u)
  BY DEF S!SessionsOf
<1>2. S!Started' = S!Started
  BY <1>1 DEF S!Started
<1> QED BY <1>1, <1>2 DEF Spent

\* A sign-in opens a session that nobody had.
LEMMA SignInCommitted ==
    ASSUME SessionsInv, NEW h \in Handlers, S!CommitSignIn(h)
    PROVE  SessionsInv'
<1> USE DEF S!Finish, S!Continue, S!Idle
<1>1. ASSUME SessionsKnown PROVE SessionInTime(Idle)' /\ SessionsTyped' /\ EndedAreSpent'
  <2>1. PICK s \in SessionIds \ S!Started : S!CreateToken(req[h].user, s) /\ S!Mint(s)
    BY DEF S!CommitSignIn
  <2>2. req[h].user \in Users
    BY <1>1 DEF SessionsKnown, SessionInTime, S!CommitSignIn
  <2> PICK u \in Users : u = req[h].user
    BY <2>2
  <2>3. PICK t \in S!RefreshTokens \ S!Issued :
            /\ S!Issued' = S!Issued \cup {t}
            /\ tokens' = [tokens EXCEPT ![t] = [user |-> u, session |-> s, live |-> TRUE]]
    BY <1>1, <2>1, TokenCreated DEF SessionsKnown
  <2>4. SessionsTyped'
    BY <1>1, <2>1, TokenCreated DEF SessionsKnown, SessionsTyped, S!Mint, S!CommitSignIn
  <2>5. \A i \in S!Issued : tokens'[i] = tokens[i]
    BY <1>1, <2>3 DEF SessionsKnown, SessionsTyped
  <2>6. tokens'[t].session = s
    BY <1>1, <2>3 DEF SessionsKnown, SessionsTyped
  <2>7. \A v \in Users : S!SessionsOf(v) \subseteq S!SessionsOf(v)'
    BY <2>3, <2>5 DEF S!SessionsOf
  <2>8. S!Started \subseteq S!Started'
    BY <2>7 DEF S!Started
  <2>9. \A x : Spent(x) => Spent(x)'
    BY <2>1, <2>3, <2>5, <2>6, <2>8 DEF Spent
  <2>10. ended[s] = "no" /\ \A x \in SessionIds \ {s} : access'[x] = access[x]
    BY <1>1, <2>1 DEF SessionsKnown, SessionsTyped, EndedAreSpent, Spent, S!Mint
  <2>11. EndedAreSpent'
    BY <1>1, <2>9, <2>10 DEF SessionsKnown, EndedAreSpent, S!CommitSignIn
  <2> QED BY <2>4, <2>11 DEF SessionInTime, Idle
<1>2. Continue(h, Idle) /\ req[h].kind # "idle"
  BY DEF S!CommitSignIn, Continue, Idle
<1> QED BY <1>1, <1>2, SessionWrites

\* A refresh creates its replacement in a session that was not ended.
LEMMA ReplacementCreated ==
    ASSUME SessionsInv, NEW h \in Handlers, S!CreateReplacement(h)
    PROVE  SessionsInv'
<1> PICK r : r = [req[h] EXCEPT !.kind = "rotate"]
  OBVIOUS
<1>1. ASSUME SessionsKnown PROVE SessionInTime(r)' /\ SessionsTyped' /\ EndedAreSpent'
  <2> PICK i : i = req[h].token
    OBVIOUS
  <2>1. i \in S!Issued /\ ended[tokens[i].session] = "no" /\ r.kind = "rotate" /\ r.token = i
        /\ "kind" \in DOMAIN r
    BY <1>1 DEF SessionsKnown, SessionInTime, S!CreateReplacement
  <2>2. tokens[i].user \in Users /\ tokens[i].session \in SessionIds
    BY <1>1, <2>1, StartedSessions DEF SessionsKnown
  <2> PICK u \in Users, s \in SessionIds : u = tokens[i].user /\ s = tokens[i].session
    BY <2>2
  <2>3. S!CreateToken(u, s)
    BY DEF S!CreateReplacement
  <2>4. PICK t \in S!RefreshTokens \ S!Issued :
            /\ S!Issued' = S!Issued \cup {t}
            /\ tokens' = [tokens EXCEPT ![t] = [user |-> u, session |-> s, live |-> TRUE]]
    BY <1>1, <2>3, TokenCreated DEF SessionsKnown
  <2>5. SessionsTyped'
    BY <1>1, <2>3, TokenCreated DEF SessionsKnown, SessionsTyped, S!CreateReplacement
  <2>6. \A j \in S!Issued : tokens'[j] = tokens[j]
    BY <1>1, <2>4 DEF SessionsKnown, SessionsTyped
  <2>7. tokens'[t].session = s
    BY <1>1, <2>4 DEF SessionsKnown, SessionsTyped
  <2>8. \A v \in Users : S!SessionsOf(v) \subseteq S!SessionsOf(v)'
    BY <2>4, <2>6 DEF S!SessionsOf
  <2>9. S!Started \subseteq S!Started'
    BY <2>8 DEF S!Started
  <2>10. \A x : x # s /\ Spent(x) => Spent(x)'
    BY <2>4, <2>6, <2>7, <2>9 DEF Spent
  <2>11. EndedAreSpent'
    BY <1>1, <2>1, <2>10 DEF SessionsKnown, EndedAreSpent, S!CreateReplacement
  <2>12. SessionInTime(r)'
    BY <2>1, <2>4, <2>6 DEF SessionInTime, S!CreateReplacement
  <2> QED BY <2>5, <2>11, <2>12
<1>2. Continue(h, r) /\ req[h].kind # "idle"
  BY DEF S!CreateReplacement, S!Continue, Continue
<1> QED BY <1>1, <1>2, SessionWrites

LEMMA Rotated ==
    ASSUME SessionsInv, NEW h \in Handlers, S!Rotate(h)
    PROVE  SessionsInv'
<1> USE DEF S!Finish, S!Continue, S!Idle
<1>1. ASSUME SessionsKnown PROVE SessionInTime(Idle)' /\ SessionsTyped' /\ EndedAreSpent'
  <2> PICK i : i = req[h].token
    OBVIOUS
  <2>1. i \in S!Issued /\ ended[tokens[i].session] = "no"
    BY <1>1 DEF SessionsKnown, SessionInTime, S!Rotate
  <2>2. tokens[i] \in SessionRows
    BY <1>1, <2>1 DEF SessionsKnown, SessionsTyped, S!Issued
  <2> PICK s \in SessionIds : s = tokens[i].session
    BY <2>2 DEF SessionRows
  <2>3. tokens' = [tokens EXCEPT ![i] = [tokens[i] EXCEPT !.live = FALSE]] /\ S!Mint(s)
    BY DEF S!Rotate
  <2>4. [tokens[i] EXCEPT !.live = FALSE] \in SessionRows
    BY <2>2 DEF SessionRows
  <2>5. tokens' \in [S!RefreshTokens -> SessionRows \cup {NULL}]
    BY <1>1, <2>3, <2>4 DEF SessionsKnown, SessionsTyped
  <2>6. tokens'[i] # NULL /\ \A j \in S!RefreshTokens \ {i} : tokens'[j] = tokens[j]
    BY <1>1, <2>1, <2>3, <2>4, RowsAssumption DEF SessionsKnown, SessionsTyped, SessionRows,
       S!Issued
  <2>7. S!Issued' = S!Issued
    BY <2>1, <2>6 DEF S!Issued
  <2>8. \A j \in S!Issued : /\ tokens'[j].user = tokens[j].user
                            /\ tokens'[j].session = tokens[j].session
                            /\ tokens'[j].live => tokens[j].live
    <3>1. tokens'[i] = [tokens[i] EXCEPT !.live = FALSE]
      BY <1>1, <2>1, <2>3 DEF SessionsKnown, SessionsTyped, S!Issued
    <3> QED BY <2>1, <2>2, <2>6, <3>1 DEF S!Issued, SessionRows
  <2>9. \A x : Spent(x) => Spent(x)'
    BY <1>1, <2>7, <2>8, TokensStay DEF SessionsKnown
  <2>10. SessionsTyped'
    BY <1>1, <2>3, <2>5, <2>7 DEF SessionsKnown, SessionsTyped, S!Mint, S!Rotate
  <2>11. \A x \in SessionIds \ {s} : access'[x] = access[x]
    BY <1>1, <2>3 DEF SessionsKnown, SessionsTyped, S!Mint
  <2>12. EndedAreSpent'
    BY <1>1, <2>1, <2>9, <2>11 DEF SessionsKnown, EndedAreSpent, S!Rotate
  <2> QED BY <2>10, <2>12 DEF SessionInTime, Idle
<1>2. Continue(h, Idle) /\ req[h].kind # "idle"
  BY DEF S!Rotate, Continue, Idle
<1> QED BY <1>1, <1>2, SessionWrites

LEMMA TokensRevoked ==
    ASSUME SessionsInv, NEW h \in Handlers, S!RevokeTokens(h)
    PROVE  SessionsInv'
<1> PICK gone, deny : gone = req[h].sessions /\ deny = req[h].deny
  OBVIOUS
<1> PICK r : r = IF deny = {} THEN Idle ELSE [kind |-> "deny", sessions |-> deny]
  OBVIOUS
<1>1. /\ Continue(h, r) /\ req[h].kind = "revoke"
      /\ S!Revoke(gone) /\ UNCHANGED <<access, denied>>
      /\ ended' = [s \in SessionIds |->
            IF s \in gone /\ ended[s] = "no" THEN "revoked" ELSE ended[s]]
  BY DEF S!RevokeTokens, S!Finish, S!Continue, S!Idle, Continue, Idle
<1>2. ASSUME SessionsKnown PROVE SessionInTime(r)' /\ SessionsTyped' /\ EndedAreSpent'
  <2>1. gone \subseteq S!Started
    BY <1>1, <1>2 DEF SessionsKnown, SessionInTime
  <2>2. \A t \in S!Issued :
            tokens[t] \in SessionRows /\ [tokens[t] EXCEPT !.live = FALSE] \in SessionRows
    BY <1>2 DEF SessionsKnown, SessionsTyped, S!Issued, SessionRows
  <2>3. /\ tokens' \in [S!RefreshTokens -> SessionRows \cup {NULL}]
        /\ \A t \in S!Issued : tokens'[t] =
                IF tokens[t].session \in gone THEN [tokens[t] EXCEPT !.live = FALSE] ELSE tokens[t]
        /\ \A t \in S!RefreshTokens \ S!Issued : tokens'[t] = tokens[t]
    BY <1>1, <1>2, <2>2 DEF SessionsKnown, SessionsTyped, S!Revoke, S!Issued
  <2>4. \A t \in S!Issued : tokens'[t] # NULL
    BY <2>2, <2>3, RowsAssumption DEF SessionRows
  <2>5. S!Issued' = S!Issued
    BY <2>3, <2>4 DEF S!Issued
  <2>6. \A t \in S!Issued : /\ tokens'[t].user = tokens[t].user
                            /\ tokens'[t].session = tokens[t].session
                            /\ tokens'[t].live => tokens[t].live
                            /\ tokens[t].session \in gone => ~ tokens'[t].live
    BY <2>2, <2>3 DEF SessionRows
  <2>7. S!Started' = S!Started /\ \A s : Spent(s) => Spent(s)'
    BY <1>2, <2>5, <2>6, TokensStay DEF SessionsKnown
  <2>8. \A s \in gone : Spent(s)'
    BY <2>1, <2>5, <2>6, <2>7 DEF Spent
  <2>9. SessionsTyped'
    BY <1>1, <1>2, <2>3, <2>5 DEF SessionsKnown, SessionsTyped
  <2>10. EndedAreSpent'
    BY <1>1, <1>2, <2>7, <2>8 DEF SessionsKnown, SessionsTyped, EndedAreSpent
  <2>11. SessionInTime(r)'
    BY DEF SessionInTime, Idle
  <2> QED BY <2>9, <2>10, <2>11
<1> QED BY <1>1, <1>2, SessionWrites

LEMMA SessionsDenied ==
    ASSUME SessionsInv, NEW h \in Handlers, S!RevokeSession(h)
    PROVE  SessionsInv'
<1> PICK gone : gone = req[h].sessions
  OBVIOUS
<1>1. /\ Continue(h, Idle) /\ req[h].kind = "deny" /\ UNCHANGED tokens
      /\ denied' = denied \cup gone
      /\ access' = [s \in SessionIds |->
            IF s \in gone /\ access[s] = "late" THEN "early" ELSE access[s]]
      /\ ended' = [s \in SessionIds |->
            IF s \in gone /\ ended[s] = "revoked" THEN "denied" ELSE ended[s]]
  BY DEF S!RevokeSession, S!Finish, S!Continue, S!Idle, Continue, Idle
<1>2. ASSUME SessionsKnown PROVE SessionInTime(Idle)' /\ SessionsTyped' /\ EndedAreSpent'
  <2>1. \A s \in SessionIds : ended[s] = "revoked" => Spent(s)
    BY <1>2 DEF SessionsKnown, EndedAreSpent
  <2>2. \A s : Spent(s) => Spent(s)'
    BY <1>1 DEF Spent, S!Started, S!SessionsOf, S!Issued
  <2>3. SessionsTyped'
    BY <1>1, <1>2 DEF SessionsKnown, SessionsTyped, S!Issued
  <2>4. EndedAreSpent'
    BY <1>1, <1>2, <2>1, <2>2 DEF SessionsKnown, SessionsTyped, EndedAreSpent
  <2> QED BY <2>3, <2>4 DEF SessionInTime, Idle
<1> QED BY <1>1, <1>2, SessionWrites

\* Time passes, or nothing happens, or the process restarts.
LEMMA SessionsAge ==
    ASSUME SessionsInv,
           \/ \E s \in SessionIds : S!AccessExpires(s) \/ S!DenialLapses(s)
           \/ Restart /\ UNCHANGED S!tables
           \/ UNCHANGED S!vars
    PROVE  SessionsInv'
<1>1. UNCHANGED <<tokens, ended>>
  BY DEF S!AccessExpires, S!DenialLapses, S!tables, S!vars
<1>2. \A x : Spent(x) => Spent(x)'
  BY <1>1 DEF Spent, S!Started, S!SessionsOf, S!Issued
<1>3. SessionsTyped /\ EndedAreSpent => SessionsTyped' /\ EndedAreSpent'
  <2>1. CASE UNCHANGED <<access, denied>>
    BY <1>1, <1>2, <2>1 DEF SessionsTyped, EndedAreSpent, S!Issued
  <2>2. CASE \E s \in SessionIds : S!AccessExpires(s)
    <3> PICK s \in SessionIds : S!AccessExpires(s)
      BY <2>2
    <3>1. SessionsTyped => SessionsTyped'
      BY <1>1 DEF SessionsTyped, S!Issued, S!AccessExpires
    <3>2. SessionsTyped => access'[s] = "none" /\ \A x \in SessionIds \ {s} : access'[x] = access[x]
      BY DEF SessionsTyped, S!AccessExpires
    <3>3. UNCHANGED denied
      BY DEF S!AccessExpires
    <3> QED BY <1>1, <1>2, <3>1, <3>2, <3>3 DEF EndedAreSpent
  <2>3. CASE \E s \in SessionIds : S!DenialLapses(s)
    <3> PICK s \in SessionIds : S!DenialLapses(s)
      BY <2>3
    <3>1. UNCHANGED access /\ denied' = denied \ {s} /\ access[s] # "early"
      BY DEF S!DenialLapses
    <3> QED BY <1>1, <1>2, <3>1 DEF SessionsTyped, EndedAreSpent, S!Issued
  <2> QED BY <2>1, <2>2, <2>3 DEF S!tables, S!vars
<1>4. CASE Restart
  <2>1. /\ RequestsKept' /\ Alone' /\ \A h \in Handlers : req'[h] = Idle
        /\ UNCHANGED overlapped
    BY <1>4, RestartsAlone
  <2>2. \A h \in Handlers : SessionInTime(req[h])'
    BY <2>1 DEF SessionInTime, Idle
  <2> QED BY <1>3, <2>1, <2>2 DEF SessionsInv, SessionsKnown
<1>5. CASE UNCHANGED <<req, overlapped>>
  <2>1. \A h \in Handlers : SessionInTime(req[h]) => SessionInTime(req[h])'
    BY <1>1, <1>2, <1>5 DEF SessionInTime, S!Started, S!SessionsOf, S!Issued
  <2>2. RequestsKept' /\ (Alone => Alone')
    BY <1>5 DEF SessionsInv, RequestsKept, Alone
  <2> QED BY <1>3, <1>5, <2>1, <2>2 DEF SessionsInv, SessionsKnown
<1> QED BY <1>4, <1>5 DEF S!AccessExpires, S!DenialLapses, S!vars

LEMMA SessionsKept == SessionsInv /\ [S!Next]_(S!vars) => SessionsInv'
<1> SUFFICES ASSUME SessionsInv, [S!Next]_(S!vars) PROVE SessionsInv'
  OBVIOUS
<1> USE DEF S!Begin, S!Finish, S!Continue, S!Idle, Begin, Continue, Idle
<1>1. ASSUME NEW h \in Handlers, NEW u \in Users, S!SignIn(h, u) PROVE SessionsInv'
  BY <1>1, SessionGoesOn DEF S!SignIn, S!Start, S!tables, SessionInTime
<1>2. ASSUME NEW h \in Handlers, NEW t \in S!RefreshTokens, S!Refresh(h, t) PROVE SessionsInv'
  <2> PICK r : r = IF S!Spendable(t) THEN [kind |-> "load", token |-> t]
                   ELSE [kind |-> "revoke", sessions |-> {tokens[t].session},
                         deny |-> {tokens[t].session}]
    OBVIOUS
  <2>1. Begin(h, r) /\ UNCHANGED S!tables /\ t \in S!Issued
    BY <1>2 DEF S!Refresh, S!Start
  <2>2. SessionsKnown => SessionInTime(r)
    <3> SUFFICES ASSUME SessionsKnown PROVE SessionInTime(r)
      OBVIOUS
    <3>1. tokens[t].session \in SessionIds /\ tokens[t].session \in S!Started
      BY <2>1, StartedSessions DEF SessionsKnown
    <3>2. CASE S!Spendable(t)
      <4>1. ended[tokens[t].session] = "no"
        BY <2>1, <3>1, <3>2 DEF SessionsKnown, EndedAreSpent, Spent, S!Spendable
      <4> QED BY <2>1, <3>2, <4>1 DEF SessionInTime
    <3>3. CASE ~ S!Spendable(t)
      BY <3>1, <3>3 DEF SessionInTime
    <3> QED BY <3>2, <3>3
  <2> QED BY <2>1, <2>2, SessionGoesOn DEF S!tables
<1>3. ASSUME NEW h \in Handlers, S!LoadUser(h) PROVE SessionsInv'
  <2> PICK t : t = req[h].token
    OBVIOUS
  <2> PICK r : r = IF users[tokens[t].user] = "ACTIVE" THEN [req[h] EXCEPT !.kind = "replace"]
                   ELSE [kind |-> "revoke", sessions |-> {tokens[t].session}, deny |-> {}]
    OBVIOUS
  <2>1. Continue(h, r) /\ UNCHANGED S!tables /\ req[h].kind = "load"
    BY <1>3 DEF S!LoadUser
  <2>2. SessionsKnown => SessionInTime(r)
    <3> SUFFICES ASSUME SessionsKnown PROVE SessionInTime(r)
      OBVIOUS
    <3>1. t \in S!Issued /\ ended[tokens[t].session] = "no" /\ "kind" \in DOMAIN req[h]
      BY <2>1 DEF SessionsKnown, SessionInTime
    <3>2. tokens[t].session \in S!Started
      BY <3>1, StartedSessions DEF SessionsKnown
    <3> QED BY <3>1, <3>2 DEF SessionInTime
  <2> QED BY <2>1, <2>2, SessionGoesOn DEF S!tables
<1>4. ASSUME NEW h \in Handlers, NEW s \in S!Started, NEW revoked \in S!LogoutRevokes(s),
             S!Logout(h, s, revoked)
      PROVE  SessionsInv'
  <2> PICK r : r = [kind |-> "revoke", sessions |-> revoked, deny |-> {s}]
    OBVIOUS
  <2>1. revoked \subseteq S!Started
    BY StartedSessions DEF S!LogoutRevokes
  <2>2. SessionInTime(r)
    BY <2>1 DEF SessionInTime
  <2> QED BY <1>4, <2>2, SessionGoesOn DEF S!Logout, S!Start, S!tables
<1>5. ASSUME NEW h \in Handlers, NEW u \in Users, S!SignOutEverywhere(h, u) PROVE SessionsInv'
  <2> PICK r : r = [kind |-> "revoke", sessions |-> S!SessionsOf(u), deny |-> {}]
    OBVIOUS
  <2>1. SessionInTime(r)
    BY StartedSessions DEF SessionInTime
  <2> QED BY <1>5, <2>1, SessionGoesOn DEF S!SignOutEverywhere, S!Start, S!tables
<1>6. ASSUME NEW h \in Handlers, NEW u \in Users, NEW to \in S!UserStatuses,
             S!ChangeStatus(h, u, to)
      PROVE  SessionsInv'
  <2> PICK r : r = [kind |-> "account", user |-> u, to |-> to, deny |-> {}]
    OBVIOUS
  <2>1. SessionInTime(r)
    BY DEF SessionInTime
  <2> QED BY <1>6, <2>1, SessionGoesOn DEF S!ChangeStatus, S!Start, S!tables
<1>7. ASSUME NEW h \in Handlers, NEW s \in S!Started, S!DeleteMyAccount(h, s) PROVE SessionsInv'
  <2> PICK r : r = [kind |-> "account", user |-> S!UserOf(s), to |-> "ERASED", deny |-> {s}]
    OBVIOUS
  <2>1. SessionInTime(r)
    BY StartedSessions DEF SessionInTime
  <2> QED BY <1>7, <2>1, SessionGoesOn DEF S!DeleteMyAccount, S!Start, S!tables
<1>8. ASSUME NEW h \in Handlers, S!CommitAccount(h) PROVE SessionsInv'
  <2> PICK r : r = IF req[h].to = "ACTIVE" THEN Idle
                   ELSE [kind |-> "sweep", user |-> req[h].user, deny |-> req[h].deny]
    OBVIOUS
  <2>1. /\ Continue(h, r) /\ UNCHANGED <<tokens, access, denied, ended>>
        /\ req[h].kind = "account"
    BY <1>8 DEF S!CommitAccount
  <2>2. SessionsKnown => SessionInTime(r)
    BY <2>1 DEF SessionsKnown, SessionInTime
  <2> QED BY <2>1, <2>2, SessionGoesOn
<1>9. ASSUME NEW h \in Handlers, S!RevokeAll(h) PROVE SessionsInv'
  <2> PICK r : r = [kind |-> "revoke", sessions |-> S!SessionsOf(req[h].user),
                    deny |-> req[h].deny]
    OBVIOUS
  <2>1. Continue(h, r) /\ UNCHANGED S!tables /\ req[h].kind = "sweep"
    BY <1>9 DEF S!RevokeAll
  <2>2. SessionsKnown => SessionInTime(r)
    BY <2>1, StartedSessions DEF SessionsKnown, SessionInTime
  <2> QED BY <2>1, <2>2, SessionGoesOn DEF S!tables
<1>10. ASSUME \/ \E s \in SessionIds : S!AccessExpires(s) \/ S!DenialLapses(s)
              \/ S!Restart /\ UNCHANGED S!tables
              \/ UNCHANGED S!vars
       PROVE  SessionsInv'
  BY <1>10, SessionsAge DEF S!Restart, Restart
<1> QED BY <1>1, <1>2, <1>3, <1>4, <1>5, <1>6, <1>7, <1>8, <1>9, <1>10, SignInCommitted,
           ReplacementCreated, Rotated, TokensRevoked, SessionsDenied
        DEF S!Next, S!Proceed, S!Request

\* One request at a time, and wherever the process dies, a session whose tokens
\* were revoked mints no further token, and one that was then denied as well
\* opens no door.  Of a session that a sign-out denied without revoking it,
\* it says nothing.
THEOREM EndedSessionsStayEnded == Spec => []SignedOutStaysOut
<1> DEFINE Inv == part = "sessions" => SessionsInv
<1>1. Init => Inv
  BY SessionsStart DEF Init
<1>2. Inv /\ [Next]_vars => Inv'
  BY PartStays, SessionsOnly, SessionsKept
<1>3. Inv => SignedOutStaysOut
  BY DEF SignedOutStaysOut, S!SignedOutStaysOut, S!Authenticated, SessionsInv, SessionsKnown,
     EndedAreSpent, Spent
<1> QED BY <1>1, <1>2, <1>3, PTL DEF Spec

-----------------------------------------------------------------------------
(* Live: who watches catches up.  Of a socket in the order's room that was *)
(* not told the present status, nor that its read failed, some request     *)
(* owes it: the announcement of that status, or an answer that is still to *)
(* read it, or has read it.                                                *)

LEMMA LiveOnly == part = "live" /\ [Next]_vars => [L!Next]_(L!vars)
BY DEF Next, vars, Only, RidersStep, SessionsStep, CodesStep, AddressesStep, BasketsStep,
       CampaignsStep, MenusStep, OptionsStep, ListingsStep, HoursStep, OffersStep, TicketsStep,
       NoticesStep, LiveStep, feed, L!vars, L!feed

Connected == Watchers \cup Couriers

LiveTyped ==
    /\ RequestsKept
    /\ stage \in Nat \ {0}
    /\ driver # NULL => driver \in carried
    /\ shown \subseteq carried
    /\ sockets \in [L!Sockets -> Connected \cup {UNUSED, NULL}]

\* Who has a part in what the room is about, or had.
MayWatch(u, room) ==
    u \in IF room = "order" THEN {"ADMIN", "CUSTOMER", "OWNER"} \cup carried
          ELSE {"ADMIN", "OWNER", "KITCHEN"}

LiveRequest(r) ==
    /\ r.kind \in {"asked", "allowed"} =>
        /\ r \in [kind : {"asked", "allowed"}, socket : L!Sockets, user : Connected,
                  room : {"order", "restaurant"}]
        /\ sockets[r.socket] \in {r.user, NULL}
        /\ r.kind = "allowed" => MayWatch(r.user, r.room)
    /\ r.kind \in {"report", "position"} =>
        /\ "kind" \in DOMAIN r /\ r.rider # NULL
        /\ r.kind = "position" => r.rider \in carried
    /\ r.kind \in {"joined", "snapshot"} => "socket" \in DOMAIN r

RoomsKept ==
    \A s \in L!Sockets, room \in {"order", "restaurant"} : <<s, room>> \in joined =>
        sockets[s] # UNUSED /\ (sockets[s] # NULL => MayWatch(sockets[s], room))

Owes(r, s) ==
    \/ r.kind = "announce" /\ r.stage = stage
    \/ r.kind = "joined" /\ r.socket = s
    \/ r.kind = "snapshot" /\ r.socket = s /\ r.stage = stage

CaughtUp ==
    \A s \in L!InRoom("order") :
        \/ stage \in heard[s] \/ L!Untold(stage) \in heard[s]
        \/ \E h \in Handlers : Owes(req[h], s)

LiveInv ==
    LiveTyped /\ (\A h \in Handlers : LiveRequest(req[h])) /\ RoomsKept /\ CaughtUp

LEMMA LiveStart == L!Init => LiveInv
BY DEF L!Init, L!NoRequests, L!Idle, RequestsKept, LiveInv, LiveTyped, LiveRequest, RoomsKept,
       CaughtUp, L!InRoom, L!Open, L!Sockets

\* Sockets only open once and close once, and whoever carried the order did.
FeedAges ==
    /\ sockets' \in [L!Sockets -> Connected \cup {UNUSED, NULL}]
    /\ \A s \in L!Sockets : sockets[s] # UNUSED => sockets'[s] \in {sockets[s], NULL}
    /\ carried \subseteq carried'

LEMMA RequestsAge ==
    ASSUME FeedAges, NEW r, LiveRequest(r)
    PROVE  LiveRequest(r)'
<1>1. \A u, room : MayWatch(u, room) => MayWatch(u, room)'
  BY DEF FeedAges, MayWatch
<1>2. CASE r.kind \in {"asked", "allowed"}
  <2>1. /\ r \in [kind : {"asked", "allowed"}, socket : L!Sockets, user : Connected,
                  room : {"order", "restaurant"}]
        /\ sockets[r.socket] \in {r.user, NULL}
        /\ r.kind = "allowed" => MayWatch(r.user, r.room)
    BY <1>2 DEF LiveRequest
  <2>2. sockets[r.socket] # UNUSED
    BY <2>1, PlatformAssumption DEF Connected
  <2>3. sockets'[r.socket] \in {r.user, NULL}
    BY <2>1, <2>2 DEF FeedAges
  <2> QED BY <1>1, <1>2, <2>1, <2>3 DEF LiveRequest
<1>3. CASE r.kind \notin {"asked", "allowed"}
  BY <1>3 DEF LiveRequest, FeedAges
<1> QED BY <1>2, <1>3

\* Nobody joins.
LEMMA RoomsAge ==
    ASSUME FeedAges, RoomsKept,
           \A s \in L!Sockets, room \in {"order", "restaurant"} :
                <<s, room>> \in joined' => <<s, room>> \in joined
    PROVE  RoomsKept'
<1>1. \A u, room : MayWatch(u, room) => MayWatch(u, room)'
  BY DEF FeedAges, MayWatch
<1>2. ASSUME NEW s \in L!Sockets, NEW room \in {"order", "restaurant"}, <<s, room>> \in joined'
      PROVE  sockets'[s] # UNUSED /\ (sockets'[s] # NULL => MayWatch(sockets[s], room)')
  <2>1. sockets[s] # UNUSED /\ (sockets[s] # NULL => MayWatch(sockets[s], room))
    BY <1>2 DEF RoomsKept
  <2>2. sockets'[s] \in {sockets[s], NULL} /\ NULL # UNUSED
    BY <2>1, PlatformAssumption DEF FeedAges
  <2> QED BY <1>1, <2>1, <2>2
<1> QED BY <1>2 DEF RoomsKept

\* The request of h goes on with r.
GoesTo(h, r) == req' = [req EXCEPT ![h] = r]

\* The request of h goes on with r, and the feed ages.
LEMMA LiveGoesOn ==
    ASSUME LiveInv, FeedAges, NEW h \in Handlers, NEW r, GoesTo(h, r),
           LiveRequest(r)
    PROVE  /\ RequestsKept'
           /\ \A g \in Handlers : req'[g] = IF g = h THEN r ELSE req[g]
           /\ \A g \in Handlers : LiveRequest(req[g])'
<1>1. RequestsKept' /\ \A g \in Handlers : req'[g] = IF g = h THEN r ELSE req[g]
  BY DEF GoesTo, LiveInv, LiveTyped, RequestsKept
<1>2. ASSUME NEW g \in Handlers PROVE LiveRequest(req[g])'
  <2>1. PICK x : x = req'[g]
    OBVIOUS
  <2>2. LiveRequest(x)'
    BY <1>1, <2>1, RequestsAge DEF LiveInv
  <2> QED BY <2>1, <2>2 DEF LiveRequest
<1> QED BY <1>1, <1>2

\* What is owed to those who are in the room stays owed or is told them.
LEMMA CatchingUp ==
    ASSUME LiveInv, UNCHANGED stage,
           \A s \in L!InRoom("order")' :
                /\ s \in L!InRoom("order") /\ heard[s] \subseteq heard'[s]
                /\ \A h \in Handlers : Owes(req[h], s) =>
                        \/ stage \in heard'[s] \/ L!Untold(stage) \in heard'[s]
                        \/ \E g \in Handlers : Owes(req'[g], s)
    PROVE  CaughtUp'
<1>1. \A g, s : Owes(req'[g], s) => Owes(req[g], s)'
  BY DEF Owes
<1>2. L!Untold(stage)' = L!Untold(stage)
  BY DEF L!Untold
<1> QED BY <1>1, <1>2 DEF LiveInv, CaughtUp

\* A step about which the room need not know.
LEMMA LiveStays ==
    ASSUME LiveInv, FeedAges, UNCHANGED <<stage, heard>>,
           NEW h \in Handlers, NEW r, GoesTo(h, r),
           \A s \in L!InRoom("order") : Owes(req[h], s) => Owes(r, s),
           LiveRequest(r),
           L!InRoom("order")' \subseteq L!InRoom("order"),
           RoomsKept',
           driver' # NULL => driver' \in carried', shown' \subseteq carried'
    PROVE  LiveInv'
<1>1. /\ RequestsKept'
      /\ \A g \in Handlers : req'[g] = IF g = h THEN r ELSE req[g]
      /\ \A g \in Handlers : LiveRequest(req[g])'
  BY LiveGoesOn
<1>2. LiveTyped'
  BY <1>1 DEF LiveInv, LiveTyped, FeedAges
<1>3. CaughtUp'
  <2>1. \A s \in L!InRoom("order"), g \in Handlers : Owes(req[g], s) =>
            \E k \in Handlers : Owes(req'[k], s)
    BY <1>1
  <2> QED BY <2>1, CatchingUp
<1> QED BY <1>1, <1>2, <1>3 DEF LiveInv

\* No status but the last is one of an order that waits for its payment.
NeverHeld ==
    \A i \in Nat \ {0} : i < Len(Journey) => Journey[i] # "PENDING_PAYMENT"

LEMMA StatusAdvances ==
    ASSUME LiveInv, NeverHeld, NEW h \in Handlers, L!Advance(h)
    PROVE  LiveInv'
<1> PICK r : r = [kind |-> "announce", stage |-> stage + 1, rider |-> driver]
  OBVIOUS
<1>1. Journey[stage] # "PENDING_PAYMENT"
  BY DEF LiveInv, LiveTyped, NeverHeld, L!Advance
<1>2. /\ stage' = stage + 1 /\ GoesTo(h, r)
      /\ UNCHANGED <<driver, sockets, state, joined, heard, carried, shown>>
  BY <1>1 DEF GoesTo, L!Advance, L!Begin
<1>3. FeedAges
  BY <1>2 DEF LiveInv, LiveTyped, FeedAges
<1>4. /\ RequestsKept' /\ \A g \in Handlers : LiveRequest(req[g])'
      /\ req'[h] = r
  <2>1. LiveRequest(r)
    BY DEF LiveRequest
  <2> QED BY <1>2, <1>3, <2>1, LiveGoesOn
<1>5. LiveTyped'
  BY <1>2, <1>4 DEF LiveInv, LiveTyped
<1>6. RoomsKept'
  BY <1>2, <1>3, RoomsAge DEF LiveInv
<1>7. CaughtUp'
  <2>1. \A s : Owes(req[h], s)'
    BY <1>2, <1>4 DEF Owes
  <2> QED BY <2>1 DEF CaughtUp
<1> QED BY <1>4, <1>5, <1>6, <1>7 DEF LiveInv

\* Whoever is in the room is told.
LEMMA StatusAnnounced ==
    ASSUME LiveInv, NEW h \in Handlers, L!Announce(h)
    PROVE  LiveInv'
<1>1. /\ GoesTo(h, Idle) /\ req[h].kind = "announce"
      /\ UNCHANGED <<stage, driver, sockets, joined, carried, shown>>
      /\ \A s \in L!InRoom("order") : heard'[s] = heard[s] \cup {req[h].stage}
  BY DEF GoesTo, L!Announce, L!Finish, L!Continue, L!Idle, Idle, L!Told, L!InRoom, L!Open
<1>2. FeedAges
  BY <1>1 DEF LiveInv, LiveTyped, FeedAges
<1>3. /\ RequestsKept' /\ \A g \in Handlers : LiveRequest(req[g])'
      /\ \A g \in Handlers \ {h} : req'[g] = req[g]
  <2>1. LiveRequest(Idle)
    BY DEF LiveRequest, Idle
  <2> QED BY <1>1, <1>2, <2>1, LiveGoesOn
<1>4. LiveTyped' /\ RoomsKept'
  BY <1>1, <1>2, <1>3, RoomsAge DEF LiveInv, LiveTyped
<1>5. CaughtUp'
  <2>1. L!InRoom("order")' = L!InRoom("order")
    BY <1>1 DEF L!InRoom, L!Open
  <2>2. ASSUME NEW s \in L!InRoom("order"), NEW g \in Handlers, Owes(req[g], s)
        PROVE  stage \in heard'[s] \/ \E k \in Handlers : Owes(req'[k], s)
    <3>1. CASE g = h
      BY <1>1, <2>2, <3>1 DEF Owes
    <3>2. CASE g # h
      BY <1>3, <2>2, <3>2
    <3> QED BY <3>1, <3>2
  <2> QED BY <1>1, <2>1, <2>2, CatchingUp
<1> QED BY <1>3, <1>4, <1>5 DEF LiveInv

\* The snapshot is told to whoever asked, if he is still there.
LEMMA SnapshotAnswered ==
    ASSUME LiveInv, NEW h \in Handlers, L!Answer(h)
    PROVE  LiveInv'
<1>1. /\ GoesTo(h, Idle) /\ req[h].kind = "snapshot"
      /\ UNCHANGED <<stage, driver, sockets, joined, carried, shown>>
      /\ \A s \in L!InRoom("order") :
            heard'[s] = IF s = req[h].socket THEN heard[s] \cup {req[h].stage} ELSE heard[s]
  BY DEF GoesTo, L!Answer, L!Finish, L!Continue, L!Idle, Idle, L!Told, L!InRoom, L!Open
<1>2. FeedAges
  BY <1>1 DEF LiveInv, LiveTyped, FeedAges
<1>3. /\ RequestsKept' /\ \A g \in Handlers : LiveRequest(req[g])'
      /\ \A g \in Handlers \ {h} : req'[g] = req[g]
  <2>1. LiveRequest(Idle)
    BY DEF LiveRequest, Idle
  <2> QED BY <1>1, <1>2, <2>1, LiveGoesOn
<1>4. LiveTyped' /\ RoomsKept'
  BY <1>1, <1>2, <1>3, RoomsAge DEF LiveInv, LiveTyped
<1>5. CaughtUp'
  <2>1. L!InRoom("order")' = L!InRoom("order")
    BY <1>1 DEF L!InRoom, L!Open
  <2>2. ASSUME NEW s \in L!InRoom("order"), NEW g \in Handlers, Owes(req[g], s)
        PROVE  stage \in heard'[s] \/ \E k \in Handlers : Owes(req'[k], s)
    <3>1. CASE g = h
      BY <1>1, <2>2, <3>1 DEF Owes
    <3>2. CASE g # h
      BY <1>3, <2>2, <3>2
    <3> QED BY <3>1, <3>2
  <2> QED BY <1>1, <2>1, <2>2, CatchingUp
<1> QED BY <1>3, <1>4, <1>5 DEF LiveInv

\* Whoever asked hears that it could not be read.
LEMMA SnapshotLost ==
    ASSUME LiveInv, NEW h \in Handlers, L!SnapshotFails(h)
    PROVE  LiveInv'
<1>1. /\ GoesTo(h, Idle) /\ req[h].kind = "joined"
      /\ UNCHANGED <<stage, driver, sockets, joined, carried, shown>>
      /\ \A s \in L!InRoom("order") :
            heard'[s] = IF s = req[h].socket THEN heard[s] \cup {L!Untold(stage)} ELSE heard[s]
  BY DEF GoesTo, L!SnapshotFails, L!Finish, L!Continue, L!Idle, Idle, L!Told, L!InRoom, L!Open
<1>2. FeedAges
  BY <1>1 DEF LiveInv, LiveTyped, FeedAges
<1>3. /\ RequestsKept' /\ \A g \in Handlers : LiveRequest(req[g])'
      /\ \A g \in Handlers \ {h} : req'[g] = req[g]
  <2>1. LiveRequest(Idle)
    BY DEF LiveRequest, Idle
  <2> QED BY <1>1, <1>2, <2>1, LiveGoesOn
<1>4. LiveTyped' /\ RoomsKept'
  BY <1>1, <1>2, <1>3, RoomsAge DEF LiveInv, LiveTyped
<1>5. CaughtUp'
  <2>1. L!InRoom("order")' = L!InRoom("order")
    BY <1>1 DEF L!InRoom, L!Open
  <2>2. ASSUME NEW s \in L!InRoom("order"), NEW g \in Handlers, Owes(req[g], s)
        PROVE  L!Untold(stage) \in heard'[s] \/ \E k \in Handlers : Owes(req'[k], s)
    <3>1. CASE g = h
      BY <1>1, <2>2, <3>1 DEF Owes
    <3>2. CASE g # h
      BY <1>3, <2>2, <3>2
    <3> QED BY <3>1, <3>2
  <2> QED BY <1>1, <2>1, <2>2, CatchingUp
<1> QED BY <1>3, <1>4, <1>5 DEF LiveInv

\* Whoever may watch the order joins its room, and is owed its status.
LEMMA RoomJoined ==
    ASSUME LiveInv, NEW h \in Handlers, L!JoinRoom(h)
    PROVE  LiveInv'
<1> PICK x : x = req[h]
  OBVIOUS
<1> PICK r : r = IF x.room = "order" THEN [x EXCEPT !.kind = "joined"] ELSE Idle
  OBVIOUS
<1>1. /\ GoesTo(h, r) /\ x.kind = "allowed"
      /\ joined' = joined \cup {<<x.socket, x.room>>}
      /\ UNCHANGED <<stage, driver, sockets, heard, carried, shown>>
  BY DEF GoesTo, L!JoinRoom, L!Finish, L!Continue, L!Idle, Idle
<1>2. /\ x \in [kind : {"asked", "allowed"}, socket : L!Sockets, user : Connected,
                room : {"order", "restaurant"}]
      /\ sockets[x.socket] \in {x.user, NULL} /\ MayWatch(x.user, x.room)
  BY <1>1 DEF LiveInv, LiveRequest
<1>3. FeedAges
  BY <1>1 DEF LiveInv, LiveTyped, FeedAges
<1>4. /\ r.kind \in {"joined", "idle"} /\ (r.kind = "joined" => "socket" \in DOMAIN r)
      /\ x.room = "order" => r.kind = "joined" /\ r.socket = x.socket
  BY <1>2 DEF Idle
<1>5. /\ RequestsKept' /\ \A g \in Handlers : LiveRequest(req[g])'
      /\ \A g \in Handlers : req'[g] = IF g = h THEN r ELSE req[g]
  <2>1. LiveRequest(r)
    BY <1>4 DEF LiveRequest
  <2> QED BY <1>1, <1>3, <2>1, LiveGoesOn
<1>6. LiveTyped'
  BY <1>1, <1>5 DEF LiveInv, LiveTyped
<1>7. RoomsKept'
  <2>1. \A u, room : MayWatch(u, room) => MayWatch(u, room)'
    BY <1>1 DEF MayWatch
  <2>2. sockets[x.socket] # UNUSED
    BY <1>2, PlatformAssumption DEF Connected
  <2> QED BY <1>1, <1>2, <2>1, <2>2 DEF LiveInv, RoomsKept
<1>8. CaughtUp'
  <2>1. ASSUME NEW s \in L!InRoom("order")'
        PROVE  \/ stage' \in heard'[s] \/ L!Untold(stage)' \in heard'[s]
               \/ \E g \in Handlers : Owes(req[g], s)'
    <3>1. CASE s = x.socket /\ x.room = "order"
      BY <1>4, <1>5, <3>1 DEF Owes
    <3>2. CASE ~ (s = x.socket /\ x.room = "order")
      <4>1. s \in L!InRoom("order")
        BY <1>1, <2>1, <3>2 DEF L!InRoom, L!Open
      <4>2. CASE stage \in heard[s] \/ L!Untold(stage) \in heard[s]
        BY <1>1, <4>2 DEF L!Untold
      <4>3. ASSUME NEW g \in Handlers, Owes(req[g], s) PROVE Owes(req[g], s)'
        <5>1. g # h
          BY <1>1, <4>3 DEF Owes
        <5> QED BY <1>1, <1>5, <4>3, <5>1 DEF Owes
      <4> QED BY <4>1, <4>2, <4>3 DEF LiveInv, CaughtUp
    <3> QED BY <3>1, <3>2
  <2> QED BY <2>1 DEF CaughtUp
<1> QED BY <1>5, <1>6, <1>7, <1>8 DEF LiveInv

\* The process dies with its sockets, or one of them closes.
LEMMA SocketsClose ==
    ASSUME LiveInv, L!Crash \/ \E s \in L!Sockets : L!handleDisconnect(s)
    PROVE  LiveInv'
<1>1. FeedAges /\ joined' \subseteq joined
      /\ UNCHANGED <<stage, driver, carried, shown>>
  BY DEF L!Crash, L!handleDisconnect, LiveInv, LiveTyped, FeedAges
<1>2. RoomsKept'
  BY <1>1, RoomsAge DEF LiveInv
<1>3. CASE L!Crash
  <2>1. RequestsKept' /\ \A h \in Handlers : LiveRequest(req[h])'
    BY <1>3 DEF L!Crash, L!Idle, RequestsKept, LiveRequest
  <2>2. LiveTyped'
    BY <1>1, <2>1 DEF LiveInv, LiveTyped, FeedAges
  <2>3. \A s \in L!Sockets : sockets'[s] = IF s \in L!Open THEN NULL ELSE sockets[s]
    BY <1>3 DEF L!Crash
  <2>4. L!Open' = {}
    BY <2>3 DEF L!Open
  <2>5. CaughtUp'
    BY <2>4 DEF CaughtUp, L!InRoom
  <2> QED BY <1>2, <2>1, <2>2, <2>5 DEF LiveInv
<1>4. ASSUME NEW s \in L!Sockets, L!handleDisconnect(s) PROVE LiveInv'
  <2>1. /\ UNCHANGED req /\ sockets' = [sockets EXCEPT ![s] = NULL]
        /\ heard' = [heard EXCEPT ![s] = {}] /\ joined' \subseteq joined
    BY <1>4 DEF L!handleDisconnect
  <2>2. \A h \in Handlers : LiveRequest(req[h])'
    <3>1. ASSUME NEW h \in Handlers PROVE LiveRequest(req[h])'
      <4>1. PICK x : x = req[h]
        OBVIOUS
      <4>2. LiveRequest(x)'
        BY <1>1, <4>1, RequestsAge DEF LiveInv
      <4> QED BY <2>1, <4>1, <4>2 DEF LiveRequest
    <3> QED BY <3>1
  <2>3. LiveTyped'
    BY <1>1, <2>1 DEF LiveInv, LiveTyped, FeedAges, RequestsKept
  <2>4. \A t \in L!InRoom("order")' : t \in L!InRoom("order") /\ heard'[t] = heard[t]
    <3>1. sockets'[s] = NULL /\ \A t \in L!Sockets \ {s} : sockets'[t] = sockets[t]
      BY <2>1 DEF LiveInv, LiveTyped
    <3> QED BY <2>1, <3>1 DEF L!InRoom, L!Open
  <2>5. CaughtUp'
    BY <1>1, <2>1, <2>4, CatchingUp
  <2> QED BY <1>2, <2>2, <2>3, <2>5 DEF LiveInv
<1> QED BY <1>3, <1>4

\* Riders come and go, somebody leaves a room, or nothing happens.
LEMMA FeedIdles ==
    ASSUME LiveInv,
           \/ \E r \in Couriers : L!TakeRun(r)
           \/ L!LeaveRun
           \/ \E s \in L!Sockets, room \in {"order", "restaurant"} : L!Unsubscribe(s, room)
           \/ UNCHANGED L!vars
    PROVE  LiveInv'
<1>1. /\ UNCHANGED <<req, stage, sockets, heard, shown>> /\ joined' \subseteq joined
      /\ carried \subseteq carried' /\ (driver' # NULL => driver' \in carried')
  BY DEF L!TakeRun, L!LeaveRun, L!Unsubscribe, L!vars, L!feed, LiveInv, LiveTyped
<1>2. FeedAges
  BY <1>1 DEF LiveInv, LiveTyped, FeedAges
<1>3. \A h \in Handlers : LiveRequest(req[h])'
  <2>1. ASSUME NEW h \in Handlers PROVE LiveRequest(req[h])'
    <3>1. PICK x : x = req[h]
      OBVIOUS
    <3>2. LiveRequest(x)'
      BY <1>2, <3>1, RequestsAge DEF LiveInv
    <3> QED BY <1>1, <3>1, <3>2 DEF LiveRequest
  <2> QED BY <2>1
<1>4. LiveTyped'
  BY <1>1, <1>2 DEF LiveInv, LiveTyped, FeedAges, RequestsKept
<1>5. RoomsKept'
  BY <1>1, <1>2, RoomsAge DEF LiveInv
<1>6. L!InRoom("order")' \subseteq L!InRoom("order")
  BY <1>1 DEF L!InRoom, L!Open
<1>7. CaughtUp'
  BY <1>1, <1>6, CatchingUp
<1> QED BY <1>3, <1>4, <1>5, <1>7 DEF LiveInv

LEMMA LiveKept == LiveInv /\ NeverHeld /\ [L!Next]_(L!vars) => LiveInv'
<1> SUFFICES ASSUME LiveInv, NeverHeld, [L!Next]_(L!vars) PROVE LiveInv'
  OBVIOUS
<1> USE DEF L!Begin, L!Finish, L!Continue, L!Idle
<1>0. UNCHANGED sockets /\ UNCHANGED carried => FeedAges
  BY DEF LiveInv, LiveTyped, FeedAges
<1>1. \A h \in Handlers : req[h].kind = "idle" => \A s : ~ Owes(req[h], s)
  BY DEF Owes
<1>2. LiveRequest(Idle)
  BY DEF LiveRequest, Idle
\* A request that owes nobody goes on and tells nobody.
<1>3. ASSUME NEW h \in Handlers, NEW r, GoesTo(h, r), LiveRequest(r), FeedAges,
             req[h].kind \notin {"announce", "joined", "snapshot"},
             UNCHANGED <<stage, driver, heard, carried>>, shown' \subseteq carried',
             L!InRoom("order")' \subseteq L!InRoom("order"), RoomsKept'
      PROVE  LiveInv'
  <2>1. \A s : ~ Owes(req[h], s)
    BY <1>3 DEF Owes
  <2>2. driver' # NULL => driver' \in carried'
    BY <1>3 DEF LiveInv, LiveTyped
  <2> QED BY <1>3, <2>1, <2>2, LiveStays
\* and neither opens a socket nor joins a room.
<1>4. ASSUME NEW h \in Handlers, NEW r, GoesTo(h, r), LiveRequest(r),
             req[h].kind \notin {"announce", "joined", "snapshot"},
             UNCHANGED <<stage, driver, sockets, joined, heard, carried>>, shown' \subseteq carried'
      PROVE  LiveInv'
  <2>1. FeedAges /\ RoomsKept' /\ L!InRoom("order")' = L!InRoom("order")
    BY <1>0, <1>4, RoomsAge DEF LiveInv, L!InRoom, L!Open
  <2> QED BY <1>3, <1>4, <2>1
<1>5. shown \subseteq carried
  BY DEF LiveInv, LiveTyped
<1>6. ASSUME NEW h \in Handlers, NEW s \in L!Sockets, NEW u \in Connected, L!Connect(h, s, u)
      PROVE  LiveInv'
  <2> PICK r : r = [kind |-> "connect", socket |-> s]
    OBVIOUS
  <2>1. /\ GoesTo(h, r) /\ req[h].kind = "idle" /\ sockets[s] = UNUSED
        /\ sockets' = [sockets EXCEPT ![s] = u]
        /\ UNCHANGED <<stage, driver, joined, heard, carried, shown>>
    BY <1>6 DEF L!Connect, L!NewSocket, GoesTo
  <2>2. FeedAges
    BY <2>1 DEF LiveInv, LiveTyped, FeedAges
  <2>3. LiveRequest(r)
    BY DEF LiveRequest
  <2>4. RoomsKept'
    BY <2>1, <2>2, RoomsAge DEF LiveInv
  <2>5. L!InRoom("order")' \subseteq L!InRoom("order")
    <3>1. <<s, "order">> \notin joined
      BY <2>1 DEF LiveInv, RoomsKept
    <3> QED BY <2>1, <3>1 DEF L!InRoom, L!Open, LiveInv, LiveTyped
  <2> QED BY <1>3, <1>5, <2>1, <2>2, <2>3, <2>4, <2>5
<1>7. ASSUME NEW h \in Handlers, L!handleConnection(h) PROVE LiveInv'
  <2>1. /\ GoesTo(h, Idle) /\ req[h].kind = "connect"
        /\ \A s, room : room # "own" => (<<s, room>> \in joined' <=> <<s, room>> \in joined)
        /\ UNCHANGED <<stage, driver, sockets, heard, carried, shown>>
    BY <1>7 DEF L!handleConnection, GoesTo, Idle
  <2>2. FeedAges
    BY <1>0, <2>1
  <2>3. RoomsKept'
    BY <2>1, <2>2, RoomsAge DEF LiveInv
  <2>4. L!InRoom("order")' = L!InRoom("order")
    BY <2>1 DEF L!InRoom, L!Open
  <2> QED BY <1>2, <1>3, <1>5, <2>1, <2>2, <2>3, <2>4
<1>8. ASSUME NEW h \in Handlers, L!RefuseConnection(h) PROVE LiveInv'
  <2>1. /\ GoesTo(h, Idle) /\ req[h].kind = "connect"
        /\ sockets' = [sockets EXCEPT ![req[h].socket] = NULL]
        /\ UNCHANGED <<stage, driver, joined, heard, carried, shown>>
    BY <1>8 DEF L!RefuseConnection, GoesTo, Idle
  <2>2. FeedAges
    BY <2>1 DEF LiveInv, LiveTyped, FeedAges
  <2>3. RoomsKept'
    BY <2>1, <2>2, RoomsAge DEF LiveInv
  <2>4. L!InRoom("order")' \subseteq L!InRoom("order")
    BY <2>1 DEF L!InRoom, L!Open, LiveInv, LiveTyped
  <2> QED BY <1>2, <1>3, <1>5, <2>1, <2>2, <2>3, <2>4
<1>9. ASSUME NEW h \in Handlers, NEW s \in L!Sockets, NEW room \in {"order", "restaurant"},
             L!Subscribe(h, s, room)
      PROVE  LiveInv'
  <2> PICK r : r = [kind |-> "asked", socket |-> s, user |-> sockets[s], room |-> room]
    OBVIOUS
  <2>1. GoesTo(h, r) /\ UNCHANGED L!feed /\ req[h].kind = "idle" /\ s \in L!Open
    BY <1>9 DEF L!Subscribe, GoesTo
  <2>2. LiveRequest(r)
    BY <2>1 DEF LiveRequest, LiveInv, LiveTyped, L!Open
  <2> QED BY <1>4, <1>5, <2>1, <2>2 DEF L!feed
<1>10. ASSUME NEW h \in Handlers, L!CheckAccess(h) PROVE LiveInv'
  <2> PICK x : x = req[h]
    OBVIOUS
  <2> PICK r : r = IF L!MayJoin(x.user, x.room) THEN [x EXCEPT !.kind = "allowed"] ELSE Idle
    OBVIOUS
  <2>1. GoesTo(h, r) /\ UNCHANGED L!feed /\ x.kind = "asked"
    BY <1>10 DEF L!CheckAccess, GoesTo, Idle
  <2>2. LiveRequest(r)
    <3>1. /\ x \in [kind : {"asked", "allowed"}, socket : L!Sockets, user : Connected,
                    room : {"order", "restaurant"}]
          /\ sockets[x.socket] \in {x.user, NULL}
      BY <2>1 DEF LiveInv, LiveRequest
    <3>2. x.user # NULL
      BY <3>1, PlatformAssumption DEF Connected
    <3>3. L!MayJoin(x.user, x.room) => MayWatch(x.user, x.room)
      BY <3>1, <3>2 DEF L!MayJoin, L!canAccessOrder, L!canAccessRestaurant, L!isStaff, MayWatch,
         LiveInv, LiveTyped
    <3>4. CASE L!MayJoin(x.user, x.room)
      BY <3>1, <3>3, <3>4 DEF LiveRequest
    <3>5. CASE ~ L!MayJoin(x.user, x.room)
      BY <1>2, <3>5
    <3> QED BY <3>4, <3>5
  <2> QED BY <1>4, <1>5, <2>1, <2>2 DEF L!feed
<1>11. ASSUME NEW h \in Handlers, L!buildSnapshot(h) PROVE LiveInv'
  <2> PICK r : r = [kind |-> "snapshot", socket |-> req[h].socket, stage |-> stage]
    OBVIOUS
  <2>1. GoesTo(h, r) /\ UNCHANGED L!feed /\ req[h].kind = "joined"
    BY <1>11 DEF L!buildSnapshot, GoesTo
  <2>2. LiveRequest(r) /\ \A s : Owes(req[h], s) => Owes(r, s)
    BY <2>1 DEF LiveRequest, Owes
  <2>3. FeedAges /\ RoomsKept' /\ L!InRoom("order")' = L!InRoom("order")
    BY <1>0, <2>1, RoomsAge DEF LiveInv, L!InRoom, L!Open, L!feed
  <2>4. (driver' # NULL => driver' \in carried') /\ shown' \subseteq carried'
    BY <2>1 DEF LiveInv, LiveTyped, L!feed
  <2> QED BY <2>1, <2>2, <2>3, <2>4, LiveStays DEF L!feed
<1>12. ASSUME NEW h \in Handlers, NEW x \in Connected \ {NULL},
              L!Begin(h, [kind |-> "report", rider |-> x]), UNCHANGED L!feed
       PROVE  LiveInv'
  <2> PICK r : r = [kind |-> "report", rider |-> x]
    OBVIOUS
  <2>1. GoesTo(h, r) /\ req[h].kind = "idle"
    BY <1>12 DEF GoesTo
  <2>2. LiveRequest(r)
    BY DEF LiveRequest
  <2> QED BY <1>4, <1>5, <1>12, <2>1, <2>2 DEF L!feed
<1>13. ASSUME NEW h \in Handlers, L!FindRun(h) PROVE LiveInv'
  <2> PICK x : x = req[h]
    OBVIOUS
  <2> PICK r : r = IF L!activeOrderForDriver(x.rider) THEN [x EXCEPT !.kind = "position"] ELSE Idle
    OBVIOUS
  <2>1. GoesTo(h, r) /\ UNCHANGED L!feed /\ x.kind = "report"
    BY <1>13 DEF L!FindRun, GoesTo, Idle
  <2>2. LiveRequest(r)
    <3>1. "kind" \in DOMAIN x /\ x.rider # NULL
      BY <2>1 DEF LiveInv, LiveRequest
    <3>2. L!activeOrderForDriver(x.rider) => x.rider \in carried
      BY <3>1 DEF L!activeOrderForDriver, LiveInv, LiveTyped
    <3> QED BY <1>2, <2>1, <3>1, <3>2 DEF LiveRequest
  <2> QED BY <1>4, <1>5, <2>1, <2>2 DEF L!feed
<1>14. ASSUME NEW h \in Handlers, L!riderMoved(h) PROVE LiveInv'
  <2>1. /\ GoesTo(h, Idle) /\ req[h].kind = "position"
        /\ shown' = shown \cup {req[h].rider}
        /\ UNCHANGED <<stage, driver, sockets, joined, heard, carried>>
    BY <1>14 DEF L!riderMoved, GoesTo, Idle
  <2>2. req[h].rider \in carried
    BY <2>1 DEF LiveInv, LiveRequest
  <2> QED BY <1>2, <1>4, <1>5, <2>1, <2>2
<1>15. \A r \in Connected : r # NULL
  BY PlatformAssumption DEF Connected
<1>16. ASSUME NEW h \in Handlers,
              \/ \E s \in L!Sockets : L!reportLocation(h, s)
              \/ \E r \in Couriers : L!UpdateLocation(h, r)
       PROVE  LiveInv'
  BY <1>12, <1>15, <1>16 DEF L!reportLocation, L!UpdateLocation, Connected
<1> QED BY <1>6, <1>7, <1>8, <1>9, <1>10, <1>11, <1>13, <1>14, <1>16, StatusAdvances,
           StatusAnnounced, SnapshotAnswered, SnapshotLost, RoomJoined, SocketsClose, FeedIdles
        DEF L!Next, Connected

\* Of an order that does not wait for its payment, whoever watches it knows its
\* present status, is about to be told, or was told that it could not be read,
\* however joining, announcing, dropping and crashing interleave; no position but
\* a carrier's was ever shown, and nobody is in a room who had no part in what it
\* is about.
THEOREM WatchersKnowTheStatus == NeverHeld => (Spec => []WatchersAreServed)
<1> SUFFICES ASSUME NeverHeld PROVE Spec => []WatchersAreServed
  OBVIOUS
<1> DEFINE Inv == part = "live" => LiveInv
<1>1. Init => Inv
  BY LiveStart DEF Init
<1>2. Inv /\ [Next]_vars => Inv'
  BY PartStays, LiveOnly, LiveKept
<1>3. Inv => WatchersAreServed
  <2> SUFFICES ASSUME LiveInv PROVE L!WatchersCatchUp /\ L!OwnOrdersOnly
    BY DEF WatchersAreServed
  <2>1. L!WatchersCatchUp
    <3> SUFFICES ASSUME NEW s \in L!InRoom("order"), stage \notin heard[s],
                        L!Untold(stage) \notin heard[s],
                        NEW h \in Handlers, Owes(req[h], s)
                 PROVE  \/ L!Waiting(s)
                        \/ req[h].kind = "announce" /\ req[h].stage = stage
      BY DEF LiveInv, CaughtUp, L!WatchersCatchUp
    <3>1. LiveRequest(req[h])
      BY DEF LiveInv
    <3> QED BY <3>1 DEF Owes, L!Waiting, LiveRequest
  <2>2. L!OwnOrdersOnly
    BY DEF LiveInv, LiveTyped, RoomsKept, MayWatch, L!OwnOrdersOnly, L!InRoom, L!Open
  <2> QED BY <2>1, <2>2
<1> QED BY <1>1, <1>2, <1>3, PTL DEF Spec

-----------------------------------------------------------------------------
(* Campaigns: a page is beyond everyone reached, up to the cursor, and     *)
(* what a delivery counted bears out whom it reached.                      *)

LEMMA CampaignsOnly == part = "campaigns" /\ [Next]_vars => [C!Next]_(C!vars)
BY DEF Next, vars, Only, RidersStep, SessionsStep, CodesStep, AddressesStep, BasketsStep,
       CampaignsStep, MenusStep, OptionsStep, ListingsStep, HoursStep, OffersStep, TicketsStep,
       NoticesStep, LiveStep, campaigns, C!vars

LEMMA CampaignCounts == \A set : C!Cardinality(set) = Cardinality(set)
BY DEF C!Cardinality, Cardinality

\* A finite set of numbers has a greatest one.
LEMMA Greatest ==
    ASSUME NEW set, set \subseteq C!Everyone, set # {}
    PROVE  \E x \in set : \A y \in set : y <= x
<1> DEFINE Gaps == {LastRecipient - u : u \in set}
<1>1. LastRecipient \in Nat
  BY PlatformAssumption
<1>2. Gaps \subseteq Nat /\ Gaps # {}
  <2>1. \A u \in set : u \in 1 .. LastRecipient
    BY DEF C!Everyone
  <2>2. \A u \in set : LastRecipient - u \in Nat
    BY <1>1, <2>1
  <2> QED BY <2>2
<1>3. PICK g \in Gaps : \A v \in Gaps : ~ (<<v, g>> \in OpToRel(<, Nat))
  BY <1>2, NatLessThanWellFounded, WFMin, Zenon
<1>4. \A v \in Gaps : ~ (v < g)
  BY <1>2, <1>3 DEF OpToRel
<1>5. PICK x \in set : g = LastRecipient - x
  OBVIOUS
<1>6. ASSUME NEW y \in set PROVE y <= x
  <2>1. LastRecipient - y \in Gaps
    OBVIOUS
  <2>2. ~ (LastRecipient - y < LastRecipient - x)
    BY <1>4, <1>5, <2>1
  <2>3. x \in Int /\ y \in Int
    BY DEF C!Everyone
  <2> HIDE DEF Gaps
  <2> QED BY <1>1, <2>2, <2>3
<1> QED BY <1>6

Reached(b) == {u \in C!Everyone : reached[b][u] > 0}

\* A count that misses nobody reached in the inbox, and is not zero if anybody
\* at all was reached.
BearsOut(count, us) ==
    /\ count \in Nat /\ count >= Cardinality(us \cap InboxOn)
    /\ count = 0 <=> us = {}

Unsent == {"none", "DRAFT", "SCHEDULED", "CANCELLED"}

Counted(counts) == "deliveredCount" \in DOMAIN counts

\* What is recorded of a campaign, and whom it reached.
Recorded(b) ==
    /\ \/ broadcasts[b] = C!NoBroadcast
       \/ /\ broadcasts[b] = [status |-> broadcasts[b].status, counts |-> broadcasts[b].counts]
          /\ broadcasts[b].status \in C!BroadcastStatuses
          /\ Counted(broadcasts[b].counts)
    /\ reached[b] \in [C!Everyone -> Nat]
    /\ \A u \in C!Everyone : reached[b][u] <= IF u \in C!OptedOut THEN 0 ELSE 1
    /\ broadcasts[b].status \in Unsent => \A u \in C!Everyone : reached[b][u] = 0
    /\ broadcasts[b].status = "SENT" => BearsOut(broadcasts[b].counts.deliveredCount, Reached(b))

CampaignRequest(r) ==
    /\ r.kind \in {"idle", "reschedule", "cancel", "deliver", "page", "push", "count", "close"}
    /\ r.kind \in {"reschedule", "cancel"} => r.broadcast \in Broadcasts /\ C!Editable(r.broadcast)
    /\ r.kind \in {"deliver", "page", "push", "count", "close"} =>
        r.due \subseteq Broadcasts /\ \A b \in r.due : C!Editable(b)
    /\ r.kind \in {"page", "push", "count", "close"} =>
        /\ r.broadcast \in Broadcasts /\ broadcasts[r.broadcast].status = "SENDING"
        /\ Counted(r.total)
        /\ r.total.deliveredCount = broadcasts[r.broadcast].counts.deliveredCount
    /\ r.kind \in {"page", "close"} =>
        /\ r = [kind |-> r.kind, broadcast |-> r.broadcast, due |-> r.due, total |-> r.total,
                cursor |-> r.cursor]
        /\ r.cursor \in Nat /\ \A u \in Reached(r.broadcast) : u <= r.cursor
        /\ BearsOut(r.total.deliveredCount, Reached(r.broadcast))
    /\ r.kind \in {"push", "count"} =>
        /\ r.batch \subseteq C!Everyone /\ r.batch # {}
        /\ \A u \in Reached(r.broadcast) : \E v \in r.batch : u <= v
    /\ r.kind = "push" =>
        /\ r.batch \cap InboxOn \subseteq Reached(r.broadcast)
        /\ Reached(r.broadcast) \cap r.batch \subseteq InboxOn
        /\ BearsOut(r.total.deliveredCount, Reached(r.broadcast) \ r.batch)
    /\ r.kind = "count" =>
        BearsOut(r.total.deliveredCount + r.added.deliveredCount, Reached(r.broadcast))

CampaignsRecorded ==
    /\ audience \subseteq C!Everyone
    /\ broadcasts = [b \in Broadcasts |-> broadcasts[b]]
    /\ reached = [b \in Broadcasts |-> reached[b]]
    /\ \A b \in Broadcasts : Recorded(b)

CampaignsKnown ==
    /\ Alone /\ CampaignsRecorded
    /\ \A h \in Handlers : CampaignRequest(req[h])

CampaignsInv == RequestsKept /\ (~ overlapped => CampaignsKnown)

LEMMA CampaignsStart == C!Init => CampaignsInv
<1> SUFFICES ASSUME C!Init PROVE CampaignsInv
  OBVIOUS
<1>1. RequestsKept /\ Alone /\ \A h \in Handlers : req[h] = Idle
  BY DEF C!Init, C!NoRequests, C!Idle, Idle, RequestsKept, Alone
<1>2. CampaignRequest(Idle)
  BY DEF CampaignRequest, Idle
<1>3. \A b \in Broadcasts : Recorded(b)
  BY DEF C!Init, Recorded, C!NoBroadcast
<1>4. CampaignsRecorded
  BY <1>3 DEF C!Init, CampaignsRecorded
<1> QED BY <1>1, <1>2, <1>4 DEF CampaignsInv, CampaignsKnown

\* A request goes on, and what it and the tables then say fits together.
LEMMA CampaignGoesOn ==
    ASSUME CampaignsInv, NEW h \in Handlers, NEW r,
           Begin(h, r) \/ (Continue(h, r) /\ req[h].kind # "idle"),
           CampaignsKnown => CampaignsRecorded' /\ CampaignRequest(r)'
    PROVE  CampaignsInv'
<1>1. RequestsKept'
  BY DEF Begin, Continue, RequestsKept, CampaignsInv
<1>2. ASSUME ~ overlapped' PROVE CampaignsKnown'
  <2>1. CampaignsKnown /\ OnlyMoves(h, r)
    <3>1. CASE Begin(h, r)
      BY <1>2, <3>1, BeginsAlone DEF CampaignsInv
    <3>2. CASE Continue(h, r) /\ req[h].kind # "idle"
      <4>1. ~ overlapped
        BY <1>2, <3>2 DEF Continue
      <4> QED BY <3>2, <4>1, GoesOnAlone DEF CampaignsInv, CampaignsKnown
    <3> QED BY <3>1, <3>2
  <2>2. CampaignRequest(Idle)'
    BY DEF CampaignRequest, Idle
  <2>3. ASSUME NEW g \in Handlers PROVE CampaignRequest(req[g])'
    <3>1. CASE g = h
      <4>1. req'[g] = r
        BY <2>1, <3>1 DEF OnlyMoves
      <4> QED BY <2>1, <4>1 DEF CampaignRequest
    <3>2. CASE g # h
      <4>1. req'[g] = Idle
        BY <2>1, <3>2 DEF OnlyMoves
      <4> QED BY <2>2, <4>1 DEF CampaignRequest
    <3> QED BY <3>1, <3>2
  <2> QED BY <2>1, <2>3 DEF CampaignsKnown, OnlyMoves
<1> QED BY <1>1, <1>2 DEF CampaignsInv

\* A campaign's record is written, and the others are what they were.
LEMMA CampaignWritten ==
    ASSUME CampaignsRecorded, NEW b \in Broadcasts, NEW x,
           broadcasts' = [broadcasts EXCEPT ![b] = x], Recorded(b)', UNCHANGED <<audience, reached>>
    PROVE  CampaignsRecorded'
<1>1. ASSUME NEW c \in Broadcasts PROVE Recorded(c)'
  <2>1. CASE c = b
    BY <2>1
  <2>2. CASE c # b
    <3>1. broadcasts'[c] = broadcasts[c] /\ reached'[c] = reached[c] /\ Recorded(c)
      BY <2>2 DEF CampaignsRecorded
    <3> QED BY <3>1 DEF Recorded, Reached
  <2> QED BY <2>1, <2>2
<1> QED BY <1>1 DEF CampaignsRecorded

\* Of a campaign that is sent, everyone on the next page is still to be reached.
LEMMA PageIsBeyond ==
    ASSUME CampaignsRecorded, NEW cursor \in Nat, NEW u \in C!Page(cursor)
    PROVE  u \in C!Everyone /\ u > cursor
<1> DEFINE from == {v \in audience : v >= cursor}
<1>1. \A v \in from : v \in C!Everyone /\ v \in Nat /\ v >= 1 /\ v >= cursor
  BY PlatformAssumption DEF C!Everyone, CampaignsRecorded
<1>2. u \in from
  BY DEF C!Page, C!Lowest
<1>3. CASE cursor # 0
  <2>1. u \notin C!Lowest(from, 1)
    BY <1>3 DEF C!Page, C!Lowest
  <2>2. u # cursor
    <3> SUFFICES ASSUME u = cursor PROVE FALSE
      OBVIOUS
    <3>1. {v \in from : v < u} = {}
      BY <1>1
    <3>2. C!Cardinality({v \in from : v < u}) = 0
      BY <3>1, CampaignCounts, FS_EmptySet
    <3> QED BY <1>2, <2>1, <3>2 DEF C!Lowest
  <2> QED BY <1>1, <1>2, <2>2
<1> QED BY <1>1, <1>2, <1>3

LEMMA EveryoneIsFinite ==
    ASSUME NEW set, set \subseteq C!Everyone
    PROVE  IsFiniteSet(set) /\ Cardinality(set) \in Nat
<1>1. IsFiniteSet(C!Everyone)
  BY PlatformAssumption, FS_Interval DEF C!Everyone
<1> QED BY <1>1, FS_Subset, FS_CardinalityType

\* Some of those whose turn it is are reached, and none of them was before.
LEMMA MoreReached ==
    ASSUME CampaignsRecorded, NEW b \in Broadcasts, broadcasts[b].status = "SENDING",
           NEW us, us \subseteq C!Everyone \ C!OptedOut, us \cap Reached(b) = {}, C!Reach(b, us),
           UNCHANGED <<broadcasts, audience>>
    PROVE  CampaignsRecorded' /\ Reached(b)' = Reached(b) \cup us
<1>1. Recorded(b) /\ reached[b] \in [C!Everyone -> Nat]
  BY DEF CampaignsRecorded, Recorded
<1>2. /\ \A c \in Broadcasts \ {b} : reached'[c] = reached[c]
      /\ reached'[b] = [u \in C!Everyone |-> IF u \in us THEN reached[b][u] + 1 ELSE reached[b][u]]
      /\ reached' = [c \in Broadcasts |-> reached'[c]]
  BY DEF CampaignsRecorded, C!Reach
<1>3. \A u \in us : reached[b][u] = 0
  BY <1>1 DEF Reached
<1>4. Reached(b)' = Reached(b) \cup us
  BY <1>1, <1>2, <1>3 DEF Reached
<1>5. reached'[b] \in [C!Everyone -> Nat]
  BY <1>1, <1>2
<1>6. \A u \in C!Everyone : reached'[b][u] <= IF u \in C!OptedOut THEN 0 ELSE 1
  <2>1. \A u \in C!Everyone : reached[b][u] <= IF u \in C!OptedOut THEN 0 ELSE 1
    BY <1>1 DEF Recorded
  <2> QED BY <1>1, <1>2, <1>3, <2>1
<1>7. Recorded(b)'
  BY <1>1, <1>5, <1>6 DEF Recorded, Unsent
<1>8. ASSUME NEW c \in Broadcasts \ {b} PROVE Recorded(c)'
  <2>1. broadcasts'[c] = broadcasts[c] /\ reached'[c] = reached[c] /\ Recorded(c)
    BY <1>2 DEF CampaignsRecorded
  <2> QED BY <2>1 DEF Recorded, Reached
<1> QED BY <1>2, <1>4, <1>7, <1>8 DEF CampaignsRecorded

LEMMA PageNotified ==
    ASSUME CampaignsInv, NEW h \in Handlers, C!NotifyPage(h)
    PROVE  CampaignsInv'
<1> PICK r : r = req[h]
  OBVIOUS
<1> PICK b : b = r.broadcast
  OBVIOUS
<1> PICK batch : batch = C!Page(r.cursor)
  OBVIOUS
<1>0. r.kind = "page" /\ UNCHANGED <<broadcasts, audience>>
  BY DEF C!NotifyPage
<1>1. CASE batch = {} /\ Continue(h, [r EXCEPT !.kind = "close"]) /\ UNCHANGED reached
  <2> PICK x : x = [r EXCEPT !.kind = "close"]
    OBVIOUS
  <2>1. ASSUME CampaignsKnown PROVE CampaignsRecorded' /\ CampaignRequest(x)'
    <3>1. CampaignRequest(r) /\ CampaignsRecorded
      BY <2>1 DEF CampaignsKnown
    <3>2. /\ x = [kind |-> "close", broadcast |-> b, due |-> r.due, total |-> r.total,
                  cursor |-> r.cursor]
          /\ r.broadcast = b
      BY <1>0, <3>1 DEF CampaignRequest
    <3>3. CampaignRequest(x)
      <4>1. /\ b \in Broadcasts /\ broadcasts[b].status = "SENDING" /\ Counted(r.total)
            /\ r.total.deliveredCount = broadcasts[b].counts.deliveredCount
            /\ r.due \subseteq Broadcasts /\ \A c \in r.due : C!Editable(c)
            /\ r.cursor \in Nat /\ \A u \in Reached(b) : u <= r.cursor
            /\ BearsOut(r.total.deliveredCount, Reached(b))
        BY <1>0, <3>1, <3>2 DEF CampaignRequest
      <4> QED BY <3>2, <4>1 DEF CampaignRequest
    <3>4. CampaignRequest(x)'
      BY <1>0, <1>1, <3>3 DEF CampaignRequest, C!Editable, Reached, BearsOut
    <3>5. CampaignsRecorded'
      BY <1>0, <1>1, <3>1 DEF CampaignsRecorded, Recorded, Reached
    <3> QED BY <3>4, <3>5
  <2>2. Continue(h, x) /\ req[h].kind # "idle"
    BY <1>0, <1>1
  <2> QED BY <2>1, <2>2, CampaignGoesOn
<1>2. CASE /\ batch # {} /\ C!Reach(b, batch \cap InboxOn)
           /\ Continue(h, [kind |-> "push", broadcast |-> b, due |-> r.due, total |-> r.total,
                           batch |-> batch])
  <2> PICK x : x = [kind |-> "push", broadcast |-> b, due |-> r.due, total |-> r.total,
                    batch |-> batch]
    OBVIOUS
  <2>1. ASSUME CampaignsKnown PROVE CampaignsRecorded' /\ CampaignRequest(x)'
    <3>1. /\ b \in Broadcasts /\ broadcasts[b].status = "SENDING" /\ Counted(r.total)
          /\ r.total.deliveredCount = broadcasts[b].counts.deliveredCount
          /\ r.due \subseteq Broadcasts /\ \A c \in r.due : C!Editable(c)
          /\ r.cursor \in Nat /\ \A u \in Reached(b) : u <= r.cursor
          /\ BearsOut(r.total.deliveredCount, Reached(b))
          /\ CampaignsRecorded
      BY <1>0, <2>1 DEF CampaignsKnown, CampaignRequest
    <3>2. \A u \in batch : u \in C!Everyone /\ u > r.cursor
      BY <3>1, PageIsBeyond
    <3>3. \A u \in C!Everyone : u \in Nat
      BY DEF C!Everyone
    <3>4. batch \cap Reached(b) = {}
      BY <3>1, <3>2, <3>3
    <3>5. CampaignsRecorded' /\ Reached(b)' = Reached(b) \cup (batch \cap InboxOn)
      BY <1>0, <1>2, <3>1, <3>2, <3>4, MoreReached DEF C!OptedOut
    <3>6. \A u \in Reached(b)' : \E v \in batch : u <= v
      <4> SUFFICES ASSUME NEW u \in Reached(b)' PROVE \E v \in batch : u <= v
        OBVIOUS
      <4> PICK w \in batch : TRUE
        BY <1>2
      <4>1. w \in Nat /\ w > r.cursor
        BY <3>2, <3>3
      <4>2. u \in Nat /\ (u \in batch \/ u <= r.cursor)
        BY <3>1, <3>3, <3>5 DEF Reached
      <4> QED BY <3>1, <4>1, <4>2
    <3>7. Reached(b)' \ batch = Reached(b)
      BY <3>4, <3>5
    <3>8. /\ batch \cap InboxOn \subseteq Reached(b)' /\ Reached(b)' \cap batch \subseteq InboxOn
          /\ BearsOut(r.total.deliveredCount, Reached(b)' \ batch)
      BY <3>1, <3>4, <3>5, <3>7
    <3>9. \A c \in r.due : C!Editable(c)'
      BY <1>0, <3>1 DEF C!Editable
    <3>10. /\ x.kind = "push" /\ x.broadcast = b /\ x.due = r.due /\ x.total = r.total
           /\ x.batch = batch
      OBVIOUS
    <3>11. CampaignRequest(x)'
      BY <1>0, <1>2, <3>1, <3>2, <3>6, <3>8, <3>9, <3>10 DEF CampaignRequest, BearsOut
    <3> QED BY <3>5, <3>11
  <2>2. Continue(h, x) /\ req[h].kind # "idle"
    BY <1>0, <1>2
  <2> QED BY <2>1, <2>2, CampaignGoesOn
<1> QED BY <1>1, <1>2 DEF C!NotifyPage, C!Continue, Continue

\* The larger of a page's legs bears out whom either reached.
LEMMA LegsBearOut ==
    ASSUME NEW before, NEW inApp, NEW took, NEW us, NEW count,
           before \subseteq C!Everyone, inApp \subseteq InboxOn \cap C!Everyone,
           IsFiniteSet(took), us \subseteq C!Everyone \ InboxOn, took = {} => us = {},
           took # {} => us \cup inApp # {},
           BearsOut(count, before)
    PROVE  BearsOut(count + C!Larger(C!Cardinality(inApp), C!Cardinality(took)),
                    before \cup inApp \cup us)
<1> PICK larger : larger = C!Larger(Cardinality(inApp), Cardinality(took))
  OBVIOUS
<1>1. C!Larger(C!Cardinality(inApp), C!Cardinality(took)) = larger
  BY CampaignCounts
<1>2. /\ IsFiniteSet(inApp) /\ Cardinality(inApp) \in Nat /\ Cardinality(took) \in Nat
      /\ IsFiniteSet(before \cap InboxOn) /\ Cardinality(before \cap InboxOn) \in Nat
  BY EveryoneIsFinite, FS_CardinalityType
<1>3. /\ larger \in Nat /\ larger >= Cardinality(inApp)
      /\ larger = 0 <=> Cardinality(inApp) = 0 /\ Cardinality(took) = 0
  BY <1>2 DEF C!Larger
<1>4. larger = 0 <=> inApp = {} /\ took = {}
  BY <1>2, <1>3, FS_EmptySet
<1>5. (before \cup inApp \cup us) \cap InboxOn = (before \cap InboxOn) \cup inApp
  OBVIOUS
<1>6. Cardinality((before \cap InboxOn) \cup inApp) <=
            Cardinality(before \cap InboxOn) + Cardinality(inApp)
  <2>1. IsFiniteSet((before \cap InboxOn) \cap inApp)
    BY <1>2, FS_Subset
  <2>2. Cardinality((before \cap InboxOn) \cap inApp) \in Nat
    BY <2>1, FS_CardinalityType
  <2>3. Cardinality((before \cap InboxOn) \cup inApp) =
            Cardinality(before \cap InboxOn) + Cardinality(inApp)
                - Cardinality((before \cap InboxOn) \cap inApp)
    BY <1>2, FS_Union
  <2> QED BY <1>2, <2>2, <2>3
<1>7. IsFiniteSet((before \cap InboxOn) \cup inApp)
  BY <1>2, FS_Union
<1>8. Cardinality((before \cap InboxOn) \cup inApp) \in Nat
  BY <1>7, FS_CardinalityType
<1>9. count \in Nat /\ count >= Cardinality(before \cap InboxOn) /\ (count = 0 <=> before = {})
  BY DEF BearsOut
<1>10. count + larger >= Cardinality((before \cup inApp \cup us) \cap InboxOn)
  BY <1>2, <1>3, <1>5, <1>6, <1>8, <1>9
<1>11. count + larger = 0 <=> before = {} /\ inApp = {} /\ took = {}
  BY <1>3, <1>4, <1>9
<1>12. before \cup inApp \cup us = {} <=> before = {} /\ inApp = {} /\ took = {}
  OBVIOUS
<1>13. count + larger \in Nat
  BY <1>3, <1>9
<1> QED BY <1>1, <1>10, <1>11, <1>12, <1>13 DEF BearsOut

LEMMA PagePushed ==
    ASSUME CampaignsInv, NEW h \in Handlers, C!PushPage(h)
    PROVE  CampaignsInv'
<1> PICK r : r = req[h]
  OBVIOUS
<1> PICK b, batch, inApp : b = r.broadcast /\ batch = r.batch /\ inApp = batch \cap InboxOn
  OBVIOUS
<1>1. r.kind = "push" /\ UNCHANGED <<broadcasts, audience>>
  BY DEF C!PushPage
<1> DEFINE Pushed(took) == {phone[1] : phone \in took} \ inApp
<1>2. PICK took \in SUBSET ((batch \cap PushOn) \X (1 .. LastPhone)) :
        /\ C!Reach(b, Pushed(took))
        /\ C!Continue(h, [kind |-> "count", broadcast |-> b, due |-> r.due, total |-> r.total,
                batch |-> batch,
                added |-> [recipientCount |-> C!Cardinality(batch),
                           deliveredCount |->
                                C!Larger(C!Cardinality(inApp), C!Cardinality(took)),
                           skippedCount |-> C!Cardinality(batch \cap C!OptedOut)]])
  BY DEF C!PushPage
<1> PICK us : us = Pushed(took)
  OBVIOUS
<1> PICK more : more = C!Larger(C!Cardinality(inApp), C!Cardinality(took))
  OBVIOUS
<1> PICK added : added = [recipientCount |-> C!Cardinality(batch), deliveredCount |-> more,
                          skippedCount |-> C!Cardinality(batch \cap C!OptedOut)]
  OBVIOUS
<1> PICK x : x = [kind |-> "count", broadcast |-> b, due |-> r.due, total |-> r.total,
                  batch |-> batch, added |-> added]
  OBVIOUS
<1>3. Continue(h, x)
  BY <1>2 DEF C!Continue, Continue
<1>4. \A phone \in took : phone[1] \in batch \cap PushOn
  BY <1>2
<1>5. /\ us \subseteq batch \cap PushOn /\ us \cap inApp = {} /\ (took = {} => us = {})
      /\ took # {} => us \cup inApp # {}
  BY <1>4
<1> HIDE DEF Pushed
<1>6. ASSUME CampaignsKnown PROVE CampaignsRecorded' /\ CampaignRequest(x)'
  <2>1. /\ b \in Broadcasts /\ broadcasts[b].status = "SENDING" /\ Counted(r.total)
        /\ r.total.deliveredCount = broadcasts[b].counts.deliveredCount
        /\ r.due \subseteq Broadcasts /\ \A c \in r.due : C!Editable(c)
        /\ batch \subseteq C!Everyone /\ batch # {}
        /\ \A u \in Reached(b) : \E v \in batch : u <= v
        /\ inApp \subseteq Reached(b) /\ Reached(b) \cap batch \subseteq InboxOn
        /\ BearsOut(r.total.deliveredCount, Reached(b) \ batch)
        /\ CampaignsRecorded
    BY <1>1, <1>6 DEF CampaignsKnown, CampaignRequest
  <2>2. us \cap InboxOn = {} /\ us \cap Reached(b) = {} /\ us \subseteq C!Everyone \ C!OptedOut
    BY <1>5, <2>1 DEF C!OptedOut
  <2>3. CampaignsRecorded' /\ Reached(b)' = Reached(b) \cup us
    BY <1>1, <1>2, <2>1, <2>2, MoreReached
  <2>4. (Reached(b) \ batch) \cup inApp \cup us = Reached(b)'
    BY <2>1, <2>3
  <2>5. IsFiniteSet(took)
    <3>1. IsFiniteSet(batch \cap PushOn) /\ IsFiniteSet(1 .. LastPhone)
      <4>1. batch \cap PushOn \subseteq C!Everyone
        BY <2>1
      <4>2. IsFiniteSet(batch \cap PushOn)
        BY <4>1, EveryoneIsFinite, Zenon
      <4>3. LastPhone \in Nat
        BY PlatformAssumption
      <4>4. IsFiniteSet(1 .. LastPhone)
        BY <4>3, FS_Interval
      <4> QED BY <4>2, <4>4
    <3> PICK all : all = (batch \cap PushOn) \X (1 .. LastPhone)
      OBVIOUS
    <3>2. IsFiniteSet(all)
      BY <3>1, FS_Product, Zenon
    <3>3. took \in SUBSET all
      BY <1>2, Zenon
    <3> QED BY <3>2, <3>3, FS_Subset, Zenon
  <2>6. Reached(b) \ batch \subseteq C!Everyone
    BY DEF Reached
  <2>7. BearsOut(r.total.deliveredCount + more, Reached(b)')
    BY <1>5, <2>1, <2>2, <2>4, <2>5, <2>6, LegsBearOut
  <2>8. \A u \in Reached(b)' : \E v \in batch : u <= v
    <3>1. \A u \in us : u \in batch /\ u <= u
      BY <1>5, <2>1 DEF C!Everyone
    <3> QED BY <2>1, <2>3, <3>1
  <2>9. \A c \in r.due : C!Editable(c)'
    BY <1>1, <2>1 DEF C!Editable
  <2>10. /\ x.kind = "count" /\ x.broadcast = b /\ x.due = r.due /\ x.total = r.total
         /\ x.batch = batch /\ x.added.deliveredCount = more
    OBVIOUS
  <2>11. CampaignRequest(x)'
    BY <1>1, <2>1, <2>7, <2>8, <2>9, <2>10 DEF CampaignRequest, BearsOut
  <2> QED BY <2>3, <2>11
<1> QED BY <1>1, <1>3, <1>6, CampaignGoesOn

LEMMA CountsAdded ==
    ASSUME CampaignsInv, NEW h \in Handlers, C!AddCounts(h)
    PROVE  CampaignsInv'
<1> PICK r : r = req[h]
  OBVIOUS
<1> PICK b : b = r.broadcast
  OBVIOUS
<1> PICK last : last = CHOOSE u \in r.batch : \A v \in r.batch : v <= u
  OBVIOUS
<1> PICK total : total = C!Plus(r.total, r.added)
  OBVIOUS
<1> PICK counts : counts = C!Plus(broadcasts[b].counts, r.added)
  OBVIOUS
<1>1. /\ r.kind = "count" /\ UNCHANGED <<audience, reached>>
      /\ broadcasts' = [broadcasts EXCEPT ![b].counts = C!Plus(@, r.added)]
  BY DEF C!AddCounts
<1>2. PICK kind \in {"page", "close"} :
        Continue(h, [kind |-> kind, broadcast |-> b, due |-> r.due, total |-> total,
                     cursor |-> last])
  BY DEF C!AddCounts, C!Continue, Continue
<1> PICK x : x = [kind |-> kind, broadcast |-> b, due |-> r.due, total |-> total, cursor |-> last]
  OBVIOUS
<1>3. ASSUME CampaignsKnown PROVE CampaignsRecorded' /\ CampaignRequest(x)'
  <2>1. /\ b \in Broadcasts /\ broadcasts[b].status = "SENDING" /\ Counted(r.total)
        /\ r.total.deliveredCount = broadcasts[b].counts.deliveredCount
        /\ r.due \subseteq Broadcasts /\ \A c \in r.due : C!Editable(c)
        /\ r.batch \subseteq C!Everyone /\ r.batch # {}
        /\ \A u \in Reached(b) : \E v \in r.batch : u <= v
        /\ BearsOut(r.total.deliveredCount + r.added.deliveredCount, Reached(b))
        /\ CampaignsRecorded /\ Recorded(b)
    BY <1>1, <1>3 DEF CampaignsKnown, CampaignRequest, CampaignsRecorded
  <2>2. last \in r.batch /\ \A v \in r.batch : v <= last
    BY <2>1, Greatest
  <2>3. last \in Nat /\ \A u \in Reached(b) : u <= last
    <3>1. \A u \in C!Everyone : u \in Nat
      BY DEF C!Everyone
    <3> QED BY <2>1, <2>2, <3>1 DEF Reached
  <2>4. /\ broadcasts[b] = [status |-> "SENDING", counts |-> broadcasts[b].counts]
        /\ Counted(broadcasts[b].counts)
    BY <2>1 DEF Recorded, C!NoBroadcast
  <2>5. /\ Counted(total) /\ Counted(counts)
        /\ BearsOut(total.deliveredCount, Reached(b))
        /\ counts.deliveredCount = total.deliveredCount
    BY <2>1, <2>4 DEF C!Plus, Counted
  <2>6. broadcasts' = [broadcasts EXCEPT ![b] = [status |-> "SENDING", counts |-> counts]]
    <3>1. [broadcasts[b] EXCEPT !.counts = counts] = [status |-> "SENDING", counts |-> counts]
      BY <2>4
    <3> QED BY <1>1, <3>1
  <2>7. broadcasts'[b] = [status |-> "SENDING", counts |-> counts] /\ reached'[b] = reached[b]
    BY <1>1, <2>1, <2>6 DEF CampaignsRecorded
  <2>8. Recorded(b)'
    BY <2>1, <2>5, <2>7 DEF Recorded, Reached, Unsent, C!BroadcastStatuses
  <2>9. CampaignsRecorded'
    BY <1>1, <2>1, <2>6, <2>8, CampaignWritten
  <2>10. \A c \in r.due : C!Editable(c)'
    <3> SUFFICES ASSUME NEW c \in r.due PROVE C!Editable(c)'
      OBVIOUS
    <3>1. C!Editable(c) /\ c \in Broadcasts /\ c # b
      BY <2>1 DEF C!Editable, C!EDITABLE
    <3>2. broadcasts'[c] = broadcasts[c]
      BY <2>1, <2>6, <3>1 DEF CampaignsRecorded
    <3> QED BY <3>1, <3>2 DEF C!Editable
  <2>11. Reached(b)' = Reached(b)
    BY <2>7 DEF Reached
  <2>12. BearsOut(total.deliveredCount, Reached(b)')
    BY <2>5, <2>11
  <2>13. /\ x.kind \in {"page", "close"} /\ x.broadcast = b /\ x.due = r.due /\ x.total = total
         /\ x.cursor = last
         /\ x = [kind |-> x.kind, broadcast |-> b, due |-> r.due, total |-> total,
                 cursor |-> last]
    OBVIOUS
  <2>14. CampaignRequest(x)'
    <3>1. \A u \in Reached(b)' : u <= last
      BY <2>3, <2>11
    <3>2. broadcasts'[b].status = "SENDING" /\ total.deliveredCount = broadcasts'[b].counts.deliveredCount
      BY <2>5, <2>7
    <3>3. /\ x.broadcast \in Broadcasts /\ broadcasts'[x.broadcast].status = "SENDING"
          /\ Counted(x.total) /\ x.total.deliveredCount = broadcasts'[x.broadcast].counts.deliveredCount
          /\ x.due \subseteq Broadcasts /\ \A c \in x.due : C!Editable(c)'
      BY <2>1, <2>5, <2>10, <2>13, <3>2
    <3>4. /\ x = [kind |-> x.kind, broadcast |-> x.broadcast, due |-> x.due, total |-> x.total,
                  cursor |-> x.cursor]
          /\ x.cursor \in Nat
      BY <2>3, <2>13
    <3>5. \A u \in Reached(x.broadcast)' : u <= x.cursor
      BY <2>13, <3>1
    <3>6. BearsOut(x.total.deliveredCount, Reached(x.broadcast)')
      BY <2>12, <2>13
    <3>7. x.kind \in {"page", "close"}
      BY <2>13
    <3> QED BY <3>3, <3>4, <3>5, <3>6, <3>7 DEF CampaignRequest, BearsOut
  <2> QED BY <2>9, <2>14
<1> QED BY <1>1, <1>2, <1>3, CampaignGoesOn

\* A request that ends says nothing of any campaign.
LEMMA CampaignEnds ==
    ASSUME CampaignsInv, NEW h \in Handlers, Continue(h, Idle), req[h].kind # "idle",
           CampaignsKnown => CampaignsRecorded'
    PROVE  CampaignsInv'
<1>1. CampaignRequest(Idle)'
  BY DEF CampaignRequest, Idle
<1> QED BY <1>1, CampaignGoesOn

\* A new status of a campaign that has a record.
LEMMA StatusWritten ==
    ASSUME CampaignsRecorded, NEW b \in Broadcasts, broadcasts[b].status # "none",
           NEW status \in C!BroadcastStatuses, C!WriteStatus(b, status),
           status \in Unsent => \A u \in C!Everyone : reached[b][u] = 0,
           status = "SENT" => BearsOut(broadcasts[b].counts.deliveredCount, Reached(b))
    PROVE  /\ CampaignsRecorded'
           /\ \A c \in Broadcasts \ {b} : broadcasts'[c] = broadcasts[c]
<1> PICK counts : counts = broadcasts[b].counts
  OBVIOUS
<1>1. broadcasts[b] = [status |-> broadcasts[b].status, counts |-> counts] /\ Counted(counts)
      /\ Recorded(b)
  BY DEF CampaignsRecorded, Recorded, C!NoBroadcast
<1>2. [broadcasts[b] EXCEPT !.status = status] = [status |-> status, counts |-> counts]
  BY <1>1
<1>3. broadcasts' = [broadcasts EXCEPT ![b] = [status |-> status, counts |-> counts]]
      /\ UNCHANGED <<audience, reached>>
  BY <1>2 DEF C!WriteStatus
<1>4. broadcasts'[b] = [status |-> status, counts |-> counts] /\ reached'[b] = reached[b]
      /\ \A c \in Broadcasts \ {b} : broadcasts'[c] = broadcasts[c]
  BY <1>3 DEF CampaignsRecorded
<1>5. Recorded(b)'
  BY <1>1, <1>4 DEF Recorded, Reached, BearsOut
<1> QED BY <1>3, <1>4, <1>5, CampaignWritten

LEMMA DeliveryBegun ==
    ASSUME CampaignsInv, NEW h \in Handlers, C!BeginDelivery(h)
    PROVE  CampaignsInv'
<1> PICK b \in req[h].due :
        /\ broadcasts' = [broadcasts EXCEPT ![b] =
                [status |-> "SENDING", counts |-> C!Uncounted]]
        /\ C!Continue(h, [kind |-> "page", broadcast |-> b, cursor |-> 0,
                          total |-> C!Uncounted, due |-> req[h].due \ {b}])
  BY DEF C!BeginDelivery
<1> PICK due : due = req[h].due \ {b}
  OBVIOUS
<1> PICK x : x = [kind |-> "page", broadcast |-> b, cursor |-> 0, total |-> C!Uncounted,
                  due |-> due]
  OBVIOUS
<1>1. req[h].kind = "deliver" /\ UNCHANGED <<audience, reached>> /\ Continue(h, x)
  BY DEF C!BeginDelivery, C!Continue, Continue
<1>2. ASSUME CampaignsKnown PROVE CampaignsRecorded' /\ CampaignRequest(x)'
  <2>1. /\ req[h].due \subseteq Broadcasts /\ \A c \in req[h].due : C!Editable(c)
        /\ CampaignsRecorded /\ Recorded(b)
    BY <1>1, <1>2 DEF CampaignsKnown, CampaignRequest, CampaignsRecorded
  <2>2. \A u \in C!Everyone : reached[b][u] = 0
    BY <2>1 DEF C!Editable, C!EDITABLE, Recorded, Unsent
  <2>3. Reached(b) = {}
    BY <2>2 DEF Reached
  <2>4. Counted(C!Uncounted) /\ C!Uncounted.deliveredCount = 0
    BY DEF C!Uncounted, Counted
  <2>5. /\ broadcasts'[b] = [status |-> "SENDING", counts |-> C!Uncounted]
        /\ reached'[b] = reached[b]
        /\ \A c \in Broadcasts \ {b} : broadcasts'[c] = broadcasts[c]
    BY <1>1, <2>1 DEF CampaignsRecorded
  <2>6. Recorded(b)'
    BY <2>1, <2>2, <2>4, <2>5 DEF Recorded, Unsent, C!BroadcastStatuses
  <2>7. CampaignsRecorded'
    BY <1>1, <2>1, <2>6, CampaignWritten
  <2>8. Reached(b)' = {} /\ Cardinality({}) = 0
    BY <2>3, <2>5, FS_EmptySet DEF Reached
  <2>9. due \subseteq Broadcasts /\ \A c \in due : C!Editable(c)'
    BY <2>1, <2>5 DEF C!Editable
  <2>10. b \in Broadcasts
    BY <2>1
  <2>11. CampaignRequest(x)'
    BY <2>4, <2>5, <2>8, <2>9, <2>10 DEF CampaignRequest, BearsOut
  <2> QED BY <2>7, <2>11
<1> QED BY <1>1, <1>2, CampaignGoesOn

LEMMA DeliveryEnded ==
    ASSUME CampaignsInv, NEW h \in Handlers, C!EndDelivery(h)
    PROVE  CampaignsInv'
<1> PICK r : r = req[h]
  OBVIOUS
<1> PICK b : b = r.broadcast
  OBVIOUS
<1>1. PICK status \in {"FAILED", "SENT"} : C!WriteStatus(b, status)
  BY DEF C!EndDelivery
<1> PICK x : x = [kind |-> "deliver", due |-> r.due]
  OBVIOUS
<1>2. r.kind = "close" /\ (Continue(h, Idle) \/ Continue(h, x))
  BY DEF C!EndDelivery, C!AfterDelivery, C!Finish, C!Continue, C!Idle, Continue, Idle
<1>3. ASSUME CampaignsKnown PROVE CampaignsRecorded' /\ CampaignRequest(x)'
  <2>1. /\ b \in Broadcasts /\ broadcasts[b].status = "SENDING"
        /\ BearsOut(broadcasts[b].counts.deliveredCount, Reached(b))
        /\ r.due \subseteq Broadcasts /\ \A c \in r.due : C!Editable(c)
        /\ CampaignsRecorded
    BY <1>2, <1>3 DEF CampaignsKnown, CampaignRequest
  <2>2. CampaignsRecorded' /\ \A c \in Broadcasts \ {b} : broadcasts'[c] = broadcasts[c]
    BY <1>1, <2>1, StatusWritten DEF C!BroadcastStatuses, Unsent
  <2>3. \A c \in r.due : C!Editable(c)'
    BY <2>1, <2>2 DEF C!Editable, C!EDITABLE
  <2> QED BY <2>1, <2>2, <2>3 DEF CampaignRequest
<1> QED BY <1>2, <1>3, CampaignGoesOn, CampaignEnds

LEMMA CampaignsKept == CampaignsInv /\ [C!Next]_(C!vars) => CampaignsInv'
<1> SUFFICES ASSUME CampaignsInv, [C!Next]_(C!vars) PROVE CampaignsInv'
  OBVIOUS
<1> USE DEF C!Begin, C!Finish, C!Continue, C!Idle
\* What is asked for leaves every record as it is.
<1>1. ASSUME NEW h \in Handlers, NEW r, C!Start(h, r), CampaignsKnown => CampaignRequest(r)
      PROVE  CampaignsInv'
  <2>1. Begin(h, r) /\ UNCHANGED <<broadcasts, audience, reached>>
    BY <1>1 DEF C!Start, Begin, Idle
  <2>2. CampaignsRecorded => CampaignsRecorded'
    BY <2>1 DEF CampaignsRecorded, Recorded, Reached
  <2>3. CampaignRequest(r) => CampaignRequest(r)'
    BY <2>1 DEF CampaignRequest, C!Editable, Reached
  <2> QED BY <1>1, <2>1, <2>2, <2>3, CampaignGoesOn DEF CampaignsKnown
<1>2. ASSUME NEW h \in Handlers, NEW b \in Broadcasts,
             C!UpdateBroadcast(h, b) \/ C!CancelBroadcast(h, b) \/ C!SendBroadcast(h, b)
      PROVE  CampaignsInv'
  BY <1>1, <1>2 DEF C!UpdateBroadcast, C!CancelBroadcast, C!SendBroadcast, CampaignRequest
<1>3. ASSUME NEW h \in Handlers, NEW due \in SUBSET Broadcasts, C!DispatchScheduled(h, due)
      PROVE  CampaignsInv'
  BY <1>1, <1>3 DEF C!DispatchScheduled, C!Editable, C!EDITABLE, CampaignRequest
<1>4. ASSUME NEW h \in Handlers, C!CommitStatus(h) PROVE CampaignsInv'
  <2> PICK b : b = req[h].broadcast
    OBVIOUS
  <2>1. PICK status \in {"CANCELLED", "SCHEDULED"} : C!WriteStatus(b, status)
    BY <1>4 DEF C!CommitStatus
  <2>2. Continue(h, Idle) /\ req[h].kind \in {"reschedule", "cancel"}
    BY <1>4 DEF C!CommitStatus, Continue, Idle
  <2>3. ASSUME CampaignsKnown PROVE CampaignsRecorded'
    <3>1. b \in Broadcasts /\ C!Editable(b) /\ CampaignsRecorded /\ Recorded(b)
      BY <2>2, <2>3 DEF CampaignsKnown, CampaignRequest, CampaignsRecorded
    <3>2. broadcasts[b].status # "none" /\ \A u \in C!Everyone : reached[b][u] = 0
      BY <3>1 DEF C!Editable, C!EDITABLE, Recorded, Unsent
    <3>3. status \in C!BroadcastStatuses
      BY DEF C!BroadcastStatuses
    <3> QED BY <2>1, <3>1, <3>2, <3>3, StatusWritten
  <2> QED BY <2>2, <2>3, CampaignEnds
<1>5. ASSUME NEW h \in Handlers, C!DeliveryThrows(h) PROVE CampaignsInv'
  <2>1. C!WriteStatus(req[h].broadcast, "FAILED") /\ Continue(h, Idle)
        /\ req[h].kind \in {"page", "push", "count", "close"}
    BY <1>5 DEF C!DeliveryThrows, Continue, Idle
  <2>2. ASSUME CampaignsKnown PROVE CampaignsRecorded'
    <3>1. /\ req[h].broadcast \in Broadcasts /\ CampaignsRecorded
          /\ broadcasts[req[h].broadcast].status = "SENDING"
      BY <2>1, <2>2 DEF CampaignsKnown, CampaignRequest
    <3>2. "FAILED" \in C!BroadcastStatuses /\ "FAILED" \notin Unsent
      BY DEF C!BroadcastStatuses, Unsent
    <3> QED BY <2>1, <3>1, <3>2, StatusWritten
  <2> QED BY <2>1, <2>2, CampaignEnds
\* Statements that are no request's.
<1>6. ASSUME UNCHANGED <<req, overlapped>>, CampaignsKnown => CampaignsRecorded',
             CampaignsKnown => \A r : CampaignRequest(r) => CampaignRequest(r)'
      PROVE  CampaignsInv'
  <2>1. RequestsKept' /\ (Alone => Alone')
    BY <1>6 DEF CampaignsInv, RequestsKept, Alone
  <2>2. ASSUME CampaignsKnown, NEW h \in Handlers PROVE CampaignRequest(req[h])'
    <3> PICK r : r = req[h]
      OBVIOUS
    <3>1. CampaignRequest(r)' /\ req'[h] = r
      BY <1>6, <2>2 DEF CampaignsKnown
    <3> QED BY <3>1 DEF CampaignRequest
  <2> QED BY <1>6, <2>1, <2>2 DEF CampaignsInv, CampaignsKnown
<1>7. ASSUME NEW b \in Broadcasts, NEW scheduled \in BOOLEAN, C!CreateBroadcast(b, scheduled)
      PROVE  CampaignsInv'
  <2>1. PICK status \in {"SCHEDULED", "DRAFT"} :
            broadcasts' = [broadcasts EXCEPT ![b] = [status |-> status, counts |-> C!Uncounted]]
    BY <1>7 DEF C!CreateBroadcast
  <2>2. broadcasts[b] = C!NoBroadcast /\ UNCHANGED <<audience, reached, req, overlapped>>
    BY <1>7 DEF C!CreateBroadcast
  <2>3. ASSUME CampaignsKnown PROVE CampaignsRecorded'
    <3>1. CampaignsRecorded /\ Recorded(b)
      BY <2>3 DEF CampaignsKnown, CampaignsRecorded
    <3>2. broadcasts'[b] = [status |-> status, counts |-> C!Uncounted] /\ reached'[b] = reached[b]
      BY <2>1, <2>2, <3>1 DEF CampaignsRecorded
    <3>3. Counted(C!Uncounted)
      BY DEF C!Uncounted, Counted
    <3>4. \A u \in C!Everyone : reached[b][u] = 0
      BY <2>2, <3>1 DEF C!NoBroadcast, Recorded, Unsent
    <3>5. Recorded(b)'
      BY <3>1, <3>2, <3>3, <3>4 DEF Recorded, C!BroadcastStatuses
    <3> QED BY <2>1, <2>2, <3>1, <3>5, CampaignWritten
  <2>4. ASSUME CampaignsKnown, NEW r, CampaignRequest(r) PROVE CampaignRequest(r)'
    <3>1. \A c \in Broadcasts : broadcasts[c].status \in {"DRAFT", "SCHEDULED", "SENDING"} =>
                broadcasts'[c] = broadcasts[c]
      BY <2>1, <2>2, <2>4 DEF CampaignsKnown, CampaignsRecorded, C!NoBroadcast
    <3>2. \A c \in Broadcasts : C!Editable(c) => C!Editable(c)'
      BY <3>1 DEF C!Editable, C!EDITABLE
    <3>3. \A c : Reached(c)' = Reached(c)
      BY <2>2 DEF Reached
    <3> QED BY <2>4, <3>1, <3>2, <3>3 DEF CampaignRequest
  <2> QED BY <1>6, <2>2, <2>3, <2>4
<1>8. ASSUME NEW u \in C!Everyone, C!Toggle(u) PROVE CampaignsInv'
  <2>1. UNCHANGED <<broadcasts, reached, req, overlapped>>
        /\ (audience \subseteq C!Everyone => audience' \subseteq C!Everyone)
    BY <1>8 DEF C!Toggle
  <2>2. CampaignsRecorded => CampaignsRecorded'
    BY <2>1 DEF CampaignsRecorded, Recorded, Reached
  <2>3. \A r : CampaignRequest(r) => CampaignRequest(r)'
    BY <2>1 DEF CampaignRequest, C!Editable, Reached
  <2> QED BY <1>6, <2>1, <2>2, <2>3 DEF CampaignsKnown
<1>9. CASE (C!Restart /\ UNCHANGED <<broadcasts, audience, reached>>) \/ UNCHANGED C!vars
  <2>1. UNCHANGED <<broadcasts, audience, reached, overlapped>>
    BY <1>9 DEF C!Restart, C!vars
  <2>2. CampaignsRecorded => CampaignsRecorded'
    BY <2>1 DEF CampaignsRecorded, Recorded, Reached
  <2>3. CASE UNCHANGED C!vars
    <3>1. \A r : CampaignRequest(r) => CampaignRequest(r)'
      BY <2>1 DEF CampaignRequest, C!Editable, Reached
    <3> QED BY <1>6, <2>2, <2>3, <3>1 DEF CampaignsKnown, C!vars
  <2>4. CASE C!Restart
    <3>1. RequestsKept' /\ Alone' /\ \A h \in Handlers : req'[h] = Idle
      BY <2>4, RestartsAlone DEF C!Restart, Restart, Idle
    <3>2. \A h \in Handlers : CampaignRequest(req[h])'
      BY <3>1 DEF CampaignRequest, Idle
    <3> QED BY <2>1, <2>2, <3>1, <3>2 DEF CampaignsInv, CampaignsKnown
  <2> QED BY <1>9, <2>3, <2>4
<1> QED BY <1>2, <1>3, <1>4, <1>5, <1>7, <1>8, <1>9, PageNotified, CountsAdded, DeliveryBegun,
           DeliveryEnded, PagePushed
        DEF C!Next, C!Proceed, C!Request

\* One request at a time, and however often it fails or the process dies, a
\* campaign reaches nobody twice, nobody before it is sent and nobody who opted
\* out; and one that was sent counts at least those it reached in the inbox, and
\* counts nobody only if it reached nobody.
THEOREM CampaignsReachNobodyTwice == Spec => []NobodyTwice
<1> DEFINE Inv == part = "campaigns" => CampaignsInv
<1>1. Init => Inv
  BY CampaignsStart DEF Init
<1>2. Inv /\ [Next]_vars => Inv'
  BY PartStays, CampaignsOnly, CampaignsKept
<1>3. Inv => NobodyTwice
  <2> SUFFICES ASSUME CampaignsInv PROVE C!NobodyTwice
    BY DEF NobodyTwice
  <2>1. ~ overlapped => \A b \in Broadcasts : Recorded(b)
    BY DEF CampaignsInv, CampaignsKnown, CampaignsRecorded
  <2>2. \A b : C!ReachedBy(b) = Reached(b)
    BY DEF C!ReachedBy, Reached
  <2>3. ASSUME ~ overlapped, NEW b \in Broadcasts, broadcasts[b].status \in Unsent
        PROVE  C!ReachedBy(b) = {}
    <3>1. \A u \in C!Everyone : reached[b][u] = 0
      BY <2>1, <2>3 DEF Recorded
    <3> QED BY <3>1 DEF C!ReachedBy
  <2>4. ASSUME ~ overlapped, NEW b \in Broadcasts, broadcasts[b].status = "SENT"
        PROVE  /\ broadcasts[b].counts.deliveredCount >= C!Cardinality(C!ReachedBy(b) \cap InboxOn)
               /\ broadcasts[b].counts.deliveredCount = 0 <=> C!ReachedBy(b) = {}
    <3>1. BearsOut(broadcasts[b].counts.deliveredCount, Reached(b))
      BY <2>1, <2>4 DEF Recorded
    <3>2. C!ReachedBy(b) = Reached(b)
      BY <2>2
    <3>3. C!Cardinality(Reached(b) \cap InboxOn) = Cardinality(Reached(b) \cap InboxOn)
      BY CampaignCounts
    <3> QED BY <3>1, <3>2, <3>3 DEF BearsOut
  <2> QED BY <2>1, <2>3, <2>4 DEF Recorded, Unsent, C!NobodyTwice
<1> QED BY <1>1, <1>2, <1>3, PTL DEF Spec

-----------------------------------------------------------------------------
(* Addresses: who creates an address is the only one to hold it, so nobody *)
(* else gives it the flag; and alone, a request writes the address it saw. *)

LEMMA AddressesOnly == part = "addresses" /\ [Next]_vars => [A!Next]_(A!vars)
BY DEF Next, vars, Only, RidersStep, SessionsStep, CodesStep, AddressesStep, BasketsStep,
       CampaignsStep, MenusStep, OptionsStep, ListingsStep, HoursStep, OffersStep, TicketsStep,
       NoticesStep, LiveStep, A!vars

\* The request is to create its address.
Creates(r) == r.kind = "create" \/ (r.kind \in {"demote", "promote"} /\ r.promotion = "insert")

IsAddress(x) ==
    /\ x = [state |-> x.state, isDefault |-> x.isDefault]
    /\ x.state \in A!AddressStates /\ x.isDefault \in BOOLEAN

AddressRequest(r) ==
    /\ r.kind # "idle" => r.address \in AddressIds
    /\ r.kind = "idle" => r = Idle
    /\ r.kind = "update" => r = [kind |-> "update", address |-> r.address]

Exclusive(h) ==
    Creates(req[h]) =>
        /\ addresses[req[h].address] = A!Unused
        /\ \A g \in Handlers \ {h} : req[g] # Idle => req[g].address # req[h].address

AddressesTyped ==
    /\ RequestsKept
    /\ addresses = [a \in AddressIds |-> addresses[a]]
    /\ \A a \in AddressIds : IsAddress(addresses[a])
    /\ \A h \in Handlers : AddressRequest(req[h]) /\ Exclusive(h)

AddressesSeen ==
    /\ Alone
    /\ \A a \in AddressIds : addresses[a].isDefault => a \in A!Live
    /\ \A h \in Handlers : req[h] # Idle /\ ~ Creates(req[h]) => req[h].address \in A!Live

AddressesInv ==
    /\ AddressesTyped
    /\ \A a, b \in A!Defaults : a = b
    /\ ~ overlapped => AddressesSeen

LEMMA AddressesStart == A!Init => AddressesInv
<1> SUFFICES ASSUME A!Init PROVE AddressesInv
  OBVIOUS
<1>1. RequestsKept /\ Alone /\ \A h \in Handlers : req[h] = Idle
  BY DEF A!Init, A!NoRequests, A!Idle, Idle, RequestsKept, Alone
<1>2. AddressRequest(Idle) /\ ~ Creates(Idle)
  BY DEF AddressRequest, Creates, Idle
<1>3. /\ addresses = [a \in AddressIds |-> addresses[a]]
      /\ \A a \in AddressIds : addresses[a] = [state |-> "unused", isDefault |-> FALSE]
  BY DEF A!Init, A!Unused
<1>4. \A a \in AddressIds : IsAddress(addresses[a]) /\ ~ addresses[a].isDefault
  <2> SUFFICES ASSUME NEW a \in AddressIds
               PROVE  IsAddress(addresses[a]) /\ ~ addresses[a].isDefault
    OBVIOUS
  <2>1. addresses[a] = [state |-> "unused", isDefault |-> FALSE]
    BY <1>3
  <2> QED BY <2>1 DEF IsAddress, A!AddressStates
<1>5. AddressesTyped
  BY <1>1, <1>2, <1>3, <1>4 DEF AddressesTyped, Exclusive
<1>6. A!Defaults = {}
  BY <1>4 DEF A!Defaults, A!Live
<1> QED BY <1>1, <1>4, <1>5, <1>6 DEF AddressesInv, AddressesSeen

\* What a request may go on to hold: what it has, or an address in use, or one
\* that nobody has.
MayHold(h, r) ==
    \/ r = Idle
    \/ /\ req[h] # Idle /\ r.address = req[h].address /\ (Creates(r) <=> Creates(req[h]))
    \/ /\ r.address \in A!Live /\ ~ Creates(r)
    \/ /\ addresses[r.address] = A!Unused /\ Creates(r)
       /\ \A g \in Handlers : req[g] # Idle => req[g].address # r.address

LEMMA AddressGoesOn ==
    ASSUME AddressesInv, NEW h \in Handlers, NEW r,
           Begin(h, r) \/ (Continue(h, r) /\ req[h].kind # "idle"),
           UNCHANGED addresses, AddressRequest(r), MayHold(h, r)
    PROVE  AddressesInv'
<1>1. RequestsKept' /\ \A g \in Handlers : req'[g] = IF g = h THEN r ELSE req[g]
  BY DEF Begin, Continue, RequestsKept, AddressesInv, AddressesTyped
<1>2. A!Live' = A!Live /\ A!Defaults' = A!Defaults
  BY DEF A!Live, A!Defaults
<1>3. ~ Creates(Idle)
  BY DEF Creates, Idle
<1>4. ASSUME NEW g \in Handlers PROVE AddressRequest(req[g])'
  <2>1. AddressRequest(req[g])
    BY DEF AddressesInv, AddressesTyped
  <2> QED BY <1>1, <2>1 DEF AddressRequest
<1>5. \A a \in A!Live : addresses[a] # A!Unused
  BY DEF A!Live, A!Unused
<1>6. \A g \in Handlers : Exclusive(g)
  BY DEF AddressesInv, AddressesTyped
<1>7. ASSUME NEW g \in Handlers PROVE Exclusive(g)'
  <2>1. CASE g = h
    <3> SUFFICES ASSUME Creates(r)
                 PROVE  /\ addresses[r.address] = A!Unused
                        /\ \A k \in Handlers \ {h} : req[k] # Idle => req[k].address # r.address
      BY <1>1, <2>1 DEF Exclusive, Creates
    <3> QED BY <1>3, <1>6 DEF MayHold, Exclusive
  <2>2. CASE g # h
    <3> SUFFICES ASSUME Creates(req[g])
                 PROVE  /\ addresses[req[g].address] = A!Unused
                        /\ \A k \in Handlers \ {g} :
                                req[k] # Idle /\ k # h => req[k].address # req[g].address
                        /\ r # Idle => r.address # req[g].address
      BY <1>1, <2>2 DEF Exclusive, Creates
    <3>1. req[g] # Idle
      BY <1>3
    <3>2. /\ addresses[req[g].address] = A!Unused
          /\ \A k \in Handlers \ {g} : req[k] # Idle => req[k].address # req[g].address
      BY <1>6 DEF Exclusive
    <3> QED BY <1>5, <2>2, <3>1, <3>2 DEF MayHold
  <2> QED BY <2>1, <2>2
<1>8. AddressesTyped'
  BY <1>1, <1>4, <1>7 DEF AddressesInv, AddressesTyped
<1>9. ASSUME ~ overlapped' PROVE AddressesSeen'
  <2>1. AddressesSeen /\ OnlyMoves(h, r)
    <3>1. CASE Begin(h, r)
      BY <1>9, <3>1, BeginsAlone DEF AddressesInv, AddressesTyped
    <3>2. CASE Continue(h, r) /\ req[h].kind # "idle"
      <4>1. ~ overlapped
        BY <1>9, <3>2 DEF Continue
      <4> QED BY <3>2, <4>1, GoesOnAlone DEF AddressesInv, AddressesTyped, AddressesSeen
    <3> QED BY <3>1, <3>2
  <2>2. r # Idle /\ ~ Creates(r) => r.address \in A!Live
    BY <2>1 DEF MayHold, AddressesSeen
  <2>3. ASSUME NEW g \in Handlers, req'[g] # Idle, ~ Creates(req'[g])
        PROVE  req'[g].address \in A!Live
    BY <2>1, <2>2, <2>3 DEF OnlyMoves
  <2>4. Alone'
    BY <2>1 DEF OnlyMoves
  <2> QED BY <1>2, <2>1, <2>3, <2>4 DEF AddressesSeen, Creates
<1> QED BY <1>2, <1>8, <1>9 DEF AddressesInv

\* A request ends after it wrote addresses nobody else is to create.
LEMMA AddressWritten ==
    ASSUME AddressesInv, NEW h \in Handlers, Continue(h, Idle), req[h].kind # "idle",
           addresses' = [a \in AddressIds |-> addresses'[a]],
           \A a \in AddressIds : IsAddress(addresses'[a]),
           \A g \in Handlers \ {h} : Creates(req[g]) =>
                addresses'[req[g].address] = addresses[req[g].address],
           \A a, b \in A!Defaults' : a = b,
           AddressesSeen => \A a \in AddressIds : addresses'[a].isDefault => a \in A!Live'
    PROVE  AddressesInv'
<1>1. RequestsKept' /\ \A g \in Handlers : req'[g] = IF g = h THEN Idle ELSE req[g]
  BY DEF Continue, RequestsKept, AddressesInv, AddressesTyped
<1>2. AddressRequest(Idle) /\ ~ Creates(Idle)
  BY DEF AddressRequest, Creates, Idle
<1>3. ASSUME NEW g \in Handlers PROVE AddressRequest(req[g])' /\ Exclusive(g)'
  <2>1. AddressRequest(req[g]) /\ Exclusive(g)
    BY DEF AddressesInv, AddressesTyped
  <2>2. CASE g = h
    BY <1>1, <1>2, <2>2 DEF AddressRequest, Exclusive, Creates
  <2>3. CASE g # h
    <3>1. req'[g] = req[g]
      BY <1>1, <2>3
    <3>2. AddressRequest(req[g])'
      BY <2>1, <3>1 DEF AddressRequest
    <3>3. Exclusive(g)'
      <4> SUFFICES ASSUME Creates(req[g])
                   PROVE  /\ addresses'[req[g].address] = A!Unused
                          /\ \A k \in Handlers \ {g} :
                                req'[k] # Idle => req'[k].address # req[g].address
        BY <3>1 DEF Exclusive, Creates
      <4> QED BY <1>1, <2>1, <2>3 DEF Exclusive
    <3> QED BY <3>2, <3>3
  <2> QED BY <2>2, <2>3
<1>4. ASSUME ~ overlapped' PROVE AddressesSeen'
  <2>1. ~ overlapped /\ AddressesSeen
    BY <1>4 DEF Continue, AddressesInv
  <2>2. OnlyMoves(h, Idle)
    BY <2>1, GoesOnAlone DEF AddressesInv, AddressesTyped, AddressesSeen
  <2>3. Alone' /\ \A g \in Handlers : req'[g] = Idle
    BY <2>2 DEF OnlyMoves
  <2> QED BY <2>1, <2>3 DEF AddressesSeen
<1> QED BY <1>1, <1>3, <1>4 DEF AddressesInv, AddressesTyped

LEMMA AddressRow ==
    \A s \in A!AddressStates, d \in BOOLEAN : IsAddress([state |-> s, isDefault |-> d])
<1> SUFFICES ASSUME NEW s \in A!AddressStates, NEW d \in BOOLEAN
             PROVE  IsAddress([state |-> s, isDefault |-> d])
  OBVIOUS
<1> PICK x : x = [state |-> s, isDefault |-> d]
  OBVIOUS
<1>1. IsAddress(x)
  BY DEF IsAddress
<1> QED BY <1>1

\* What a request that is under way has, as the invariant says.
LEMMA AddressHeld ==
    ASSUME AddressesInv, NEW h \in Handlers, req[h].kind # "idle"
    PROVE  /\ req[h].address \in AddressIds /\ req[h] # Idle
           /\ Creates(req[h]) => addresses[req[h].address] = A!Unused
           /\ IsAddress(addresses[req[h].address])
<1>1. AddressRequest(req[h]) /\ Exclusive(h)
  BY DEF AddressesInv, AddressesTyped
<1>2. req[h].address \in AddressIds /\ req[h] # Idle
  BY <1>1 DEF AddressRequest, Idle
<1> QED BY <1>1, <1>2 DEF Exclusive, AddressesInv, AddressesTyped

\* Who goes on has an address that nobody else is to create.
LEMMA OthersCreateElsewhere ==
    ASSUME AddressesInv, NEW h \in Handlers, req[h].kind # "idle",
           NEW g \in Handlers \ {h}, Creates(req[g])
    PROVE  req[g].address # req[h].address /\ addresses[req[g].address] = A!Unused
BY DEF AddressesInv, AddressesTyped, Exclusive, Idle

LEMMA AddressInserted ==
    ASSUME AddressesInv, NEW h \in Handlers, A!InsertAddress(h)
    PROVE  /\ AddressesInv'
           /\ A!Defaults \subseteq A!Defaults'
<1> PICK a : a = req[h].address
  OBVIOUS
<1>1. /\ req[h].kind = "create" /\ a \in AddressIds /\ addresses[a] = A!Unused
      /\ Creates(req[h]) /\ req[h] # Idle
  <2>1. req[h].kind = "create" /\ Creates(req[h])
    BY DEF A!InsertAddress, Creates
  <2> QED BY <2>1, AddressHeld
<1>2. CASE req[h].isDefault
  <2> PICK r : r = A!Demote(a, "insert")
    OBVIOUS
  <2>1. Continue(h, r) /\ UNCHANGED addresses
    BY <1>2 DEF A!InsertAddress, A!Continue, Continue
  <2>2. AddressRequest(r) /\ MayHold(h, r)
    BY <1>1 DEF A!Demote, AddressRequest, MayHold, Creates
  <2>3. A!Defaults' = A!Defaults
    BY <2>1 DEF A!Defaults, A!Live
  <2> QED BY <1>1, <2>1, <2>2, <2>3, AddressGoesOn
<1>3. CASE ~ req[h].isDefault
  <2>1. addresses' = [addresses EXCEPT ![a].state = "live"] /\ Continue(h, Idle)
    BY <1>3 DEF A!InsertAddress, A!Finish, A!Continue, A!Idle, Continue, Idle
  <2>2. /\ addresses'[a] = [state |-> "live", isDefault |-> FALSE]
        /\ \A b \in AddressIds : b # a => addresses'[b] = addresses[b]
        /\ addresses' = [b \in AddressIds |-> addresses'[b]]
    <3> PICK x : x = addresses[a]
      OBVIOUS
    <3>1. x = [state |-> x.state, isDefault |-> x.isDefault] /\ x.isDefault = FALSE
      BY <1>1 DEF A!Unused
    <3>2. [x EXCEPT !.state = "live"] = [state |-> "live", isDefault |-> FALSE]
      <4>1. [x EXCEPT !.state = "live"] = [state |-> "live", isDefault |-> x.isDefault]
        BY <3>1
      <4> QED BY <3>1, <4>1
    <3>3. addresses' = [addresses EXCEPT ![a] = [x EXCEPT !.state = "live"]]
      BY <2>1
    <3> QED BY <1>1, <3>2, <3>3 DEF AddressesInv, AddressesTyped
  <2>3. \A b \in AddressIds : IsAddress(addresses'[b])
    <3>1. IsAddress(addresses'[a])
      BY <2>2, AddressRow DEF A!AddressStates
    <3> QED BY <2>2, <3>1 DEF AddressesInv, AddressesTyped
  <2>4. A!Defaults' = A!Defaults
    BY <1>1, <2>2 DEF A!Defaults, A!Live, A!Unused
  <2>5. \A g \in Handlers \ {h} : Creates(req[g]) =>
            addresses'[req[g].address] = addresses[req[g].address]
    BY <1>1, <2>1, OthersCreateElsewhere
  <2>6. AddressesSeen => \A b \in AddressIds : addresses'[b].isDefault => b \in A!Live'
    BY <2>2 DEF AddressesSeen, A!Live
  <2> QED BY <1>1, <2>1, <2>2, <2>3, <2>4, <2>5, <2>6, AddressWritten DEF AddressesInv
<1> QED BY <1>2, <1>3

LEMMA AddressDeleted ==
    ASSUME AddressesInv, NEW h \in Handlers, A!SoftDelete(h)
    PROVE  /\ AddressesInv'
           /\ \A a \in A!Defaults : a \in A!Defaults' \/ a \notin A!Live'
<1> PICK a : a = req[h].address
  OBVIOUS
<1>1. /\ req[h].kind = "delete" /\ a \in AddressIds
      /\ addresses' = [addresses EXCEPT ![a] = [state |-> "deleted", isDefault |-> FALSE]]
      /\ Continue(h, Idle)
  BY DEF A!SoftDelete, A!Deleted, A!Finish, A!Continue, A!Idle, Continue, Idle,
     AddressesInv, AddressesTyped, AddressRequest
<1>2. /\ addresses'[a] = [state |-> "deleted", isDefault |-> FALSE]
      /\ \A b \in AddressIds : b # a => addresses'[b] = addresses[b]
      /\ addresses' = [b \in AddressIds |-> addresses'[b]]
  BY <1>1 DEF AddressesInv, AddressesTyped
<1>3. \A b \in AddressIds : IsAddress(addresses'[b])
  <2>1. IsAddress(addresses'[a])
    BY <1>2, AddressRow DEF A!AddressStates
  <2> QED BY <1>2, <2>1 DEF AddressesInv, AddressesTyped
<1>4. A!Defaults' = A!Defaults \ {a} /\ a \notin A!Live'
  BY <1>2 DEF A!Defaults, A!Live
<1>5. \A g \in Handlers \ {h} : Creates(req[g]) =>
            addresses'[req[g].address] = addresses[req[g].address]
  BY <1>1, OthersCreateElsewhere
<1>6. AddressesSeen => \A b \in AddressIds : addresses'[b].isDefault => b \in A!Live'
  BY <1>2 DEF AddressesSeen, A!Live
<1>7. \A b, c \in A!Defaults' : b = c
  BY <1>4 DEF AddressesInv
<1> QED BY <1>1, <1>2, <1>3, <1>4, <1>5, <1>6, <1>7, AddressWritten

LEMMA AddressPromoted ==
    ASSUME AddressesInv, NEW h \in Handlers, A!Promote(h)
    PROVE  /\ AddressesInv'
           /\ ~ overlapped' => A!Defaults' = A!Defaults \/ A!Defaults' # {}
<1> PICK r : r = req[h]
  OBVIOUS
<1> PICK a : a = r.address
  OBVIOUS
<1> PICK how : how = IF r.promotion = "insert" THEN "live" ELSE addresses[a].state
  OBVIOUS
<1>1. /\ r.kind = "promote" /\ a \in AddressIds /\ Continue(h, Idle) /\ req[h] # Idle
      /\ (r.promotion = "insert") <=> Creates(r)
  <2>1. r.kind = "promote" /\ Continue(h, Idle)
    BY DEF A!Promote, A!Finish, A!Continue, A!Idle, Continue, Idle
  <2>2. (r.promotion = "insert") <=> Creates(r)
    BY <2>1 DEF Creates
  <2> QED BY <2>1, <2>2, AddressHeld
<1>2. CASE UNCHANGED addresses
  <2>1. A!Defaults' = A!Defaults
    BY <1>2 DEF A!Defaults, A!Live
  <2>2. AddressRequest(Idle) /\ MayHold(h, Idle)
    BY DEF AddressRequest, MayHold, Idle
  <2> QED BY <1>1, <1>2, <2>1, <2>2, AddressGoesOn
<1>3. CASE /\ A!OnlyDefault(how, (A!Defaults \ {a}) \ r.demoted)
           /\ addresses' = [b \in AddressIds |->
                    IF b = a THEN [state |-> how, isDefault |-> TRUE]
                    ELSE IF b \in r.demoted THEN [addresses[b] EXCEPT !.isDefault = FALSE]
                    ELSE addresses[b]]
  <2>1. \A b \in AddressIds : IsAddress(addresses[b])
    BY DEF AddressesInv, AddressesTyped
  <2>2. /\ addresses'[a] = [state |-> how, isDefault |-> TRUE]
        /\ addresses' = [b \in AddressIds |-> addresses'[b]]
        /\ \A b \in AddressIds : b # a /\ b \notin r.demoted => addresses'[b] = addresses[b]
    BY <1>1, <1>3
  <2>3. ASSUME NEW b \in AddressIds, b # a, b \in r.demoted
        PROVE  addresses'[b] = [state |-> addresses[b].state, isDefault |-> FALSE]
    <3> PICK x : x = addresses[b]
      OBVIOUS
    <3>1. x = [state |-> x.state, isDefault |-> x.isDefault]
      BY <2>1 DEF IsAddress
    <3>2. addresses'[b] = [x EXCEPT !.isDefault = FALSE]
      BY <1>3, <2>3
    <3> QED BY <3>1, <3>2
  <2>4. how \in A!AddressStates
    BY <1>1, <2>1 DEF IsAddress, A!AddressStates
  <2>5. ASSUME NEW b \in AddressIds PROVE IsAddress(addresses'[b])
    <3>1. CASE b = a
      BY <2>2, <2>4, <3>1, AddressRow
    <3>2. CASE b # a /\ b \in r.demoted
      <4>1. addresses[b].state \in A!AddressStates
        BY <2>1 DEF IsAddress
      <4> QED BY <2>3, <3>2, <4>1, AddressRow
    <3>3. CASE b # a /\ b \notin r.demoted
      BY <2>1, <2>2, <3>3
    <3> QED BY <3>1, <3>2, <3>3
  <2>6. \A b \in A!Defaults' : b = a \/ (b \in (A!Defaults \ {a}) \ r.demoted)
    BY <2>2, <2>3 DEF A!Defaults, A!Live
  <2>7. a \in A!Defaults' => how = "live"
    BY <1>1, <2>2 DEF A!Defaults, A!Live
  <2>8. \A b, c \in A!Defaults' : b = c
    BY <1>3, <2>6, <2>7 DEF A!OnlyDefault, AddressesInv
  <2>9. ASSUME NEW g \in Handlers \ {h}, Creates(req[g])
        PROVE  addresses'[req[g].address] = addresses[req[g].address]
    <3> PICK b : b = req[g].address
      OBVIOUS
    <3>1. b # a /\ addresses[b] = [state |-> "unused", isDefault |-> FALSE] /\ b \in AddressIds
      <4>1. req[g].kind # "idle"
        BY <2>9 DEF Creates
      <4> QED BY <1>1, <2>9, <4>1, OthersCreateElsewhere, AddressHeld DEF A!Unused
    <3>2. CASE b \in r.demoted
      <4>1. addresses'[b] = [state |-> addresses[b].state, isDefault |-> FALSE]
        BY <2>3, <3>1, <3>2
      <4> QED BY <3>1, <4>1
    <3>3. CASE b \notin r.demoted
      BY <2>2, <3>1, <3>3
    <3> QED BY <3>2, <3>3
  <2>10. AddressesSeen => how = "live"
    BY <1>1 DEF AddressesSeen, A!Live
  <2>11. ASSUME AddressesSeen, NEW b \in AddressIds, addresses'[b].isDefault PROVE b \in A!Live'
    <3>1. CASE b = a
      BY <2>2, <2>10, <2>11, <3>1 DEF A!Live
    <3>2. CASE b # a
      <4>1. addresses'[b] = addresses[b]
        BY <2>2, <2>3, <2>11, <3>2
      <4> QED BY <2>11, <4>1 DEF AddressesSeen, A!Live
    <3> QED BY <3>1, <3>2
  <2>12. AddressesInv'
    BY <1>1, <2>2, <2>5, <2>8, <2>9, <2>11, AddressWritten
  <2>13. ~ overlapped' => a \in A!Defaults'
    <3>1. ~ overlapped' => AddressesSeen
      BY <1>1 DEF Continue, AddressesInv
    <3> QED BY <1>1, <2>2, <2>10, <3>1 DEF A!Defaults, A!Live
  <2> QED BY <2>12, <2>13
<1> QED BY <1>2, <1>3 DEF A!Promote

LEMMA AddressesKept ==
    AddressesInv /\ [A!Next]_(A!vars) => AddressesInv' /\ A!KeptWithItsAddress
<1> SUFFICES ASSUME AddressesInv, [A!Next]_(A!vars)
             PROVE  AddressesInv' /\ A!KeptWithItsAddress
  OBVIOUS
<1> USE DEF A!Begin, A!Finish, A!Continue, A!Idle
<1>1. ASSUME UNCHANGED addresses PROVE A!KeptWithItsAddress
  BY <1>1 DEF A!KeptWithItsAddress, A!Defaults, A!Live
<1>2. \A a \in A!Live : a \in AddressIds
  BY DEF A!Live
<1>3. ASSUME NEW h \in Handlers, NEW r, A!Start(h, r), AddressRequest(r), MayHold(h, r)
      PROVE  AddressesInv' /\ A!KeptWithItsAddress
  <2>1. Begin(h, r) /\ UNCHANGED addresses
    BY <1>3 DEF A!Start, Begin, Idle
  <2> QED BY <1>1, <1>3, <2>1, AddressGoesOn
<1>4. ASSUME NEW h \in Handlers, NEW a \in AddressIds, NEW isDefault,
             A!CreateAddress(h, a, isDefault)
      PROVE  AddressesInv' /\ A!KeptWithItsAddress
  <2> PICK yes : yes = (isDefault \/ A!Live = {})
    OBVIOUS
  <2> PICK r : r = [kind |-> "create", address |-> a, isDefault |-> yes]
    OBVIOUS
  <2>1. /\ A!Start(h, r) /\ addresses[a] = A!Unused
        /\ \A g \in Handlers : req[g] # Idle => req[g].address # a
    BY <1>4 DEF A!CreateAddress, Idle
  <2>2. AddressRequest(r) /\ MayHold(h, r)
    BY <2>1 DEF AddressRequest, MayHold, Creates
  <2> QED BY <1>3, <2>1, <2>2
<1>5. ASSUME NEW h \in Handlers, NEW a \in A!Live,
             NEW kind \in {"default", "update", "delete"},
             A!Start(h, [kind |-> kind, address |-> a])
      PROVE  AddressesInv' /\ A!KeptWithItsAddress
  <2> PICK r : r = [kind |-> kind, address |-> a]
    OBVIOUS
  <2>1. AddressRequest(r) /\ MayHold(h, r)
    BY <1>2 DEF AddressRequest, MayHold, Creates
  <2> QED BY <1>3, <1>5, <2>1
<1>6. ASSUME NEW h \in Handlers, NEW r, Continue(h, r), UNCHANGED addresses,
             req[h].kind # "idle", AddressRequest(r), MayHold(h, r)
      PROVE  AddressesInv' /\ A!KeptWithItsAddress
  BY <1>1, <1>6, AddressGoesOn
<1>7. ASSUME NEW h \in Handlers, A!WriteAddress(h) PROVE AddressesInv' /\ A!KeptWithItsAddress
  <2> PICK r : r = [req[h] EXCEPT !.kind = "default"]
    OBVIOUS
  <2>1. Continue(h, r) /\ UNCHANGED addresses /\ req[h].kind = "update"
    BY <1>7 DEF A!WriteAddress, Continue
  <2>2. req[h] = [kind |-> "update", address |-> req[h].address] /\ req[h].address \in AddressIds
    BY <2>1 DEF AddressesInv, AddressesTyped, AddressRequest
  <2>3. r = [kind |-> "default", address |-> req[h].address]
    BY <2>2
  <2>4. AddressRequest(r) /\ MayHold(h, r)
    BY <2>1, <2>2, <2>3 DEF AddressRequest, MayHold, Creates, Idle
  <2> QED BY <1>6, <2>1, <2>4
<1>8. ASSUME NEW h \in Handlers, A!BeginPromotion(h) PROVE AddressesInv' /\ A!KeptWithItsAddress
  <2> PICK r : r = A!Demote(req[h].address, "update")
    OBVIOUS
  <2>1. Continue(h, r) /\ UNCHANGED addresses /\ req[h].kind = "default"
    BY <1>8 DEF A!BeginPromotion, Continue
  <2>2. req[h].address \in AddressIds
    BY <2>1 DEF AddressesInv, AddressesTyped, AddressRequest
  <2>3. AddressRequest(r) /\ MayHold(h, r)
    BY <2>1, <2>2 DEF A!Demote, AddressRequest, MayHold, Creates, Idle
  <2> QED BY <1>6, <2>1, <2>3
<1>9. ASSUME NEW h \in Handlers, A!LockIncumbents(h) PROVE AddressesInv' /\ A!KeptWithItsAddress
  <2> PICK demoted : demoted = req[h].found \cap A!Defaults
    OBVIOUS
  <2> PICK r : r = [kind |-> "promote", address |-> req[h].address, demoted |-> demoted,
                    promotion |-> req[h].promotion]
    OBVIOUS
  <2>1. Continue(h, r) /\ UNCHANGED addresses /\ req[h].kind = "demote"
    BY <1>9 DEF A!LockIncumbents, Continue
  <2>2. req[h].address \in AddressIds
    BY <2>1 DEF AddressesInv, AddressesTyped, AddressRequest
  <2>3. AddressRequest(r) /\ MayHold(h, r)
    BY <2>1, <2>2 DEF AddressRequest, MayHold, Creates, Idle
  <2> QED BY <1>6, <2>1, <2>3
<1>10. ASSUME NEW h \in Handlers, A!InsertAddress(h) PROVE AddressesInv' /\ A!KeptWithItsAddress
  BY <1>10, AddressInserted DEF A!KeptWithItsAddress
<1>11. ASSUME NEW h \in Handlers, A!SoftDelete(h) PROVE AddressesInv' /\ A!KeptWithItsAddress
  BY <1>11, AddressDeleted DEF A!KeptWithItsAddress
<1>12. ASSUME NEW h \in Handlers, A!Promote(h) PROVE AddressesInv' /\ A!KeptWithItsAddress
  BY <1>12, AddressPromoted DEF A!KeptWithItsAddress
<1>13. CASE (A!Restart /\ UNCHANGED addresses) \/ UNCHANGED A!vars
  <2>1. UNCHANGED <<addresses, overlapped>>
    BY <1>13 DEF A!Restart, A!vars
  <2>2. A!Live' = A!Live /\ A!Defaults' = A!Defaults
    BY <2>1 DEF A!Live, A!Defaults
  <2>3. CASE UNCHANGED A!vars
    BY <1>1, <2>1, <2>2, <2>3
       DEF A!vars, AddressesInv, AddressesTyped, AddressesSeen, RequestsKept, Alone,
           AddressRequest, Exclusive, Creates
  <2>4. CASE A!Restart
    <3>1. RequestsKept' /\ Alone' /\ \A h \in Handlers : req'[h] = Idle
      BY <2>4, RestartsAlone DEF A!Restart, Restart, Idle
    <3>2. AddressRequest(Idle) /\ ~ Creates(Idle)
      BY DEF AddressRequest, Creates, Idle
    <3>3. \A h \in Handlers : AddressRequest(req[h])' /\ Exclusive(h)'
      BY <3>1, <3>2 DEF AddressRequest, Exclusive, Creates
    <3> QED BY <1>1, <2>1, <2>2, <3>1, <3>3 DEF AddressesInv, AddressesTyped, AddressesSeen
  <2> QED BY <1>13, <2>3, <2>4
<1> QED BY <1>4, <1>5, <1>7, <1>8, <1>9, <1>10, <1>11, <1>12, <1>13
        DEF A!Next, A!Proceed, A!Request, A!SetDefault, A!UpdateAddress, A!DeleteAddress

\* However the requests that move it overlap, there is one default at most;
\* and while they do not, the one the checkout preselects is lost with its own
\* address only, because a promotion that fails leaves the incumbent there.
THEOREM DefaultStaysOne == Spec => OneDefault
<1> DEFINE Inv == part = "addresses" => AddressesInv
           One == part = "addresses" => A!AtMostOne
           Kept == part = "addresses" => A!KeptWithItsAddress
<1>1. Init => Inv
  BY AddressesStart DEF Init
<1>2. Inv /\ [Next]_vars => Inv' /\ [Kept]_vars
  BY PartStays, AddressesOnly, AddressesKept
<1>3. Inv => One
  <2> SUFFICES ASSUME AddressesInv PROVE A!AtMostOne
    OBVIOUS
  <2>1. \A set : A!Cardinality(set) = Cardinality(set)
    BY DEF A!Cardinality, Cardinality
  <2>2. Cardinality(A!Defaults) <= 1
    <3>1. CASE A!Defaults = {}
      BY <3>1, FS_EmptySet
    <3>2. CASE A!Defaults # {}
      <4>1. PICK a : A!Defaults = {a}
        BY <3>2 DEF AddressesInv
      <4>2. Cardinality(A!Defaults) = 1
        BY <4>1, FS_Singleton
      <4> QED BY <4>2
    <3> QED BY <3>1, <3>2
  <2> QED BY <2>1, <2>2 DEF A!AtMostOne, AddressesInv, AddressesSeen
<1> QED BY <1>1, <1>2, <1>3, PTL DEF Spec, OneDefault

-----------------------------------------------------------------------------
(* Tickets: alone, a request carries the move that the ticket it read asks *)
(* for, and the ticket is still as it was read.                            *)

LEMMA TicketsOnly == part = "tickets" /\ [Next]_vars => [T!Next]_(T!vars)
BY DEF Next, vars, Only, RidersStep, SessionsStep, CodesStep, AddressesStep, BasketsStep,
       CampaignsStep, MenusStep, OptionsStep, ListingsStep, HoursStep, OffersStep, TicketsStep,
       NoticesStep, LiveStep, desk, T!vars, T!desk

Worked == {"OPEN", "IN_PROGRESS"}

IsTicket(x) ==
    /\ x = [status |-> x.status, assignedTo |-> x.assignedTo, marks |-> x.marks]
    /\ x.status \in T!Statuses

\* A reply moves a ticket to be worked on or leaves it, and leaves none with
\* the customer's last word that nobody works on; no request moves a closed one.
TicketRequest(r) ==
    r.kind \in {"reply", "status"} =>
        /\ r.ticket \in T!Rows
        /\ r.kind = "reply" =>
            /\ r.next \in {NULL, "IN_PROGRESS"} /\ r.unanswered \in BOOLEAN \cup {NULL}
            /\ r.next = NULL /\ r.unanswered = TRUE => tickets[r.ticket].status \in Worked
        /\ r.kind = "status" => r.to \in T!Statuses
        /\ r.kind = "status" \/ r.next # NULL => tickets[r.ticket].status # "CLOSED"

TicketsKnown ==
    /\ RequestsKept /\ Alone
    /\ tickets = [n \in 1 .. LastTicket |-> tickets[n]]
    /\ unanswered = [n \in 1 .. LastTicket |-> unanswered[n]]
    /\ \A n \in T!Rows : IsTicket(tickets[n]) /\ (unanswered[n] => tickets[n].status \in Worked)
    /\ \A h \in Handlers : TicketRequest(req[h])

TicketsInv == ~ overlapped => TicketsKnown

LEMMA TicketsStart == T!Init => TicketsInv
<1> SUFFICES ASSUME T!Init PROVE TicketsKnown
  BY DEF TicketsInv
<1>1. RequestsKept /\ Alone /\ \A h \in Handlers : req[h] = Idle
  BY DEF T!Init, T!NoRequests, T!Idle, Idle, RequestsKept, Alone
<1>2. TicketRequest(Idle)
  BY DEF TicketRequest, Idle
<1>3. T!Rows = {}
  BY DEF T!Rows, T!Init
<1> QED BY <1>1, <1>2, <1>3 DEF T!Init, TicketsKnown

LEMMA TicketReadAlone ==
    ASSUME TicketsInv, NEW h \in Handlers, NEW r, Begin(h, r), UNCHANGED T!desk, TicketRequest(r)
    PROVE  TicketsInv'
<1> SUFFICES ASSUME ~ overlapped' PROVE TicketsKnown'
  BY DEF TicketsInv
<1>1. RequestsKept
  BY DEF Begin, TicketsInv, TicketsKnown
<1>2. OnlyMoves(h, r) /\ TicketsKnown
  BY <1>1, BeginsAlone DEF TicketsInv
<1>3. T!Rows' = T!Rows /\ UNCHANGED <<tickets, unanswered>>
  BY DEF T!Rows, T!desk
<1>4. ASSUME NEW g \in Handlers PROVE TicketRequest(req[g])'
  <2>1. CASE g = h
    BY <1>2, <1>3, <2>1 DEF TicketRequest, OnlyMoves
  <2>2. CASE g # h
    BY <1>2, <2>2 DEF TicketRequest, OnlyMoves, Idle
  <2> QED BY <2>1, <2>2
<1> QED BY <1>2, <1>3, <1>4 DEF TicketsKnown, OnlyMoves

\* A request ends after it wrote its ticket.
LEMMA TicketWritten ==
    ASSUME TicketsInv, ~ overlapped, NEW h \in Handlers, T!Finish(h), req[h].kind # "idle",
           NEW x, NEW u, IsTicket(x), u => x.status \in Worked,
           tickets' = [tickets EXCEPT ![req[h].ticket] = x],
           unanswered' = [unanswered EXCEPT ![req[h].ticket] = u],
           tickets[req[h].ticket].status = "CLOSED" => x.status = "CLOSED"
    PROVE  TicketsKnown' /\ T!ClosedStays
<1> USE DEF T!Finish, T!Continue, T!Idle
<1>1. TicketsKnown
  BY DEF TicketsInv
<1>2. OnlyMoves(h, Idle)
  <2>1. Continue(h, Idle)
    BY DEF Continue, Idle
  <2> QED BY <1>1, <2>1, GoesOnAlone DEF TicketsKnown
<1>3. TicketRequest(Idle)'
  BY DEF TicketRequest, Idle
<1>4. \A g \in Handlers : TicketRequest(req[g])'
  BY <1>2, <1>3 DEF OnlyMoves, TicketRequest
<1>5. \A n \in 1 .. LastTicket :
        /\ tickets'[n] = IF n = req[h].ticket THEN x ELSE tickets[n]
        /\ unanswered'[n] = IF n = req[h].ticket THEN u ELSE unanswered[n]
  BY <1>1 DEF TicketsKnown
<1>6. /\ tickets' = [n \in 1 .. LastTicket |-> tickets'[n]]
      /\ unanswered' = [n \in 1 .. LastTicket |-> unanswered'[n]]
      /\ DOMAIN tickets = 1 .. LastTicket
  BY <1>1 DEF TicketsKnown
<1>7. \A n \in T!Rows' : n \in T!Rows \/ n = req[h].ticket
  BY <1>5, <1>6 DEF T!Rows
<1>8. \A n \in T!Rows' : /\ n \in 1 .. LastTicket
                         /\ IsTicket(tickets'[n])
                         /\ unanswered'[n] => tickets'[n].status \in Worked
  <2> SUFFICES ASSUME NEW n \in T!Rows'
               PROVE  /\ n \in 1 .. LastTicket /\ IsTicket(tickets'[n])
                      /\ unanswered'[n] => tickets'[n].status \in Worked
    OBVIOUS
  <2>1. n \in 1 .. LastTicket
    BY <1>6 DEF T!Rows
  <2> QED BY <1>1, <1>5, <1>7, <2>1 DEF TicketsKnown
<1>9. TicketsKnown'
  BY <1>2, <1>4, <1>6, <1>8 DEF TicketsKnown, OnlyMoves
<1>10. T!ClosedStays
  BY <1>5, <1>6 DEF T!ClosedStays, T!Rows
<1> QED BY <1>9, <1>10

LEMMA MessageAdded ==
    ASSUME TicketsInv, ~ overlapped, NEW h \in Handlers, T!addMessage(h)
    PROVE  TicketsKnown' /\ T!ClosedStays
<1>1. TicketsKnown /\ req[h].kind = "reply" /\ T!Finish(h)
  BY DEF TicketsInv, T!addMessage
<1> PICK n : n = req[h].ticket
  OBVIOUS
<1> PICK t : t = tickets[n]
  OBVIOUS
<1>2. n \in T!Rows /\ n \in 1 .. LastTicket /\ IsTicket(t)
  BY <1>1 DEF TicketsKnown, TicketRequest, T!Rows
<1> PICK x : x = [status |-> IF req[h].next = NULL THEN t.status ELSE req[h].next,
                  assignedTo |-> t.assignedTo, marks |-> t.marks]
  OBVIOUS
<1> PICK u : u = IF req[h].unanswered = NULL THEN unanswered[n] ELSE req[h].unanswered
  OBVIOUS
<1>3. t = [status |-> t.status, assignedTo |-> t.assignedTo, marks |-> t.marks]
  BY <1>2 DEF IsTicket
<1>4. tickets' = [tickets EXCEPT ![n] = x]
  <2>1. CASE req[h].next = NULL
    <3>1. x = t
      BY <1>3, <2>1
    <3>2. tickets = [m \in 1 .. LastTicket |-> tickets[m]]
      BY <1>1 DEF TicketsKnown
    <3>3. tickets' = tickets
      BY <2>1 DEF T!addMessage
    <3>4. tickets = [tickets EXCEPT ![n] = tickets[n]]
      BY <1>2, <3>2
    <3> QED BY <3>1, <3>3, <3>4
  <2>2. CASE req[h].next # NULL
    <3>1. [t EXCEPT !.status = req[h].next] = x
      BY <1>3, <2>2
    <3>2. tickets' = [tickets EXCEPT ![n] = [t EXCEPT !.status = req[h].next]]
      BY <2>2 DEF T!addMessage
    <3> QED BY <3>1, <3>2
  <2> QED BY <2>1, <2>2
<1>5. unanswered' = [unanswered EXCEPT ![n] = u]
  <2>1. CASE req[h].unanswered = NULL
    <3>1. unanswered = [m \in 1 .. LastTicket |-> unanswered[m]]
      BY <1>1 DEF TicketsKnown
    <3>2. unanswered' = unanswered
      BY <2>1 DEF T!addMessage
    <3>3. unanswered = [unanswered EXCEPT ![n] = unanswered[n]]
      BY <1>2, <3>1
    <3> QED BY <2>1, <3>2, <3>3
  <2>2. CASE req[h].unanswered # NULL
    BY <2>2 DEF T!addMessage
  <2> QED BY <2>1, <2>2
<1>6. x.status = (IF req[h].next = NULL THEN t.status ELSE req[h].next)
  OBVIOUS
<1>7. /\ req[h].next \in {NULL, "IN_PROGRESS"} /\ req[h].unanswered \in BOOLEAN \cup {NULL}
      /\ req[h].next = NULL /\ req[h].unanswered = TRUE => t.status \in Worked
      /\ req[h].next # NULL => t.status # "CLOSED"
      /\ unanswered[n] => t.status \in Worked
  BY <1>1, <1>2 DEF TicketsKnown, TicketRequest
<1>8. u => x.status \in Worked
  BY <1>6, <1>7 DEF Worked
<1>9. t.status = "CLOSED" => x.status = "CLOSED"
  BY <1>6, <1>7
<1>10. x.status \in T!Statuses
  BY <1>2, <1>6, <1>7 DEF IsTicket, T!Statuses
<1>11. IsTicket(x)
  BY <1>10 DEF IsTicket
<1> QED BY <1>1, <1>4, <1>5, <1>8, <1>9, <1>11, TicketWritten

LEMMA StatusSet ==
    ASSUME TicketsInv, ~ overlapped, NEW h \in Handlers, T!setStatus(h)
    PROVE  TicketsKnown' /\ T!ClosedStays
<1>1. TicketsKnown /\ req[h].kind = "status" /\ T!Finish(h)
  BY DEF TicketsInv, T!setStatus
<1>2. tickets[req[h].ticket].status # "CLOSED" /\ req[h].to \in T!Statuses
  BY <1>1 DEF TicketsKnown, TicketRequest
<1> PICK x : x = [status |-> req[h].to, marks |-> T!Marked(tickets[req[h].ticket].marks, req[h].to),
                  assignedTo |-> IF req[h].to = "IN_PROGRESS" THEN req[h].actor
                                 ELSE tickets[req[h].ticket].assignedTo]
  OBVIOUS
<1>3. IsTicket(x)
  BY <1>2 DEF IsTicket
<1>4. /\ tickets' = [tickets EXCEPT ![req[h].ticket] = x]
      /\ unanswered' = [unanswered EXCEPT ![req[h].ticket] = FALSE]
  BY DEF T!setStatus
<1> QED BY <1>1, <1>2, <1>3, <1>4, TicketWritten

LEMMA TicketStatement ==
    ASSUME TicketsInv, T!Statement
    PROVE  TicketsInv' /\ T!ClosedStays
<1> SUFFICES ASSUME ~ overlapped' PROVE TicketsKnown' /\ T!ClosedStays
  BY DEF TicketsInv, T!ClosedStays
<1>1. /\ ~ overlapped /\ req' = req /\ \A h \in Handlers : req[h] = Idle
  <2>1. overlapped' = (overlapped \/ \E h \in Handlers : req[h] # T!Idle) /\ req' = req
    BY DEF T!Statement
  <2> QED BY <2>1, Zenon DEF T!Idle, Idle
<1>2. TicketsKnown
  BY <1>1 DEF TicketsInv
<1>3. \A h \in Handlers : TicketRequest(req[h])'
  BY <1>1 DEF TicketRequest, Idle
<1>4. RequestsKept' /\ Alone'
  BY <1>1, <1>2 DEF TicketsKnown, RequestsKept, Alone
<1>5. CASE T!CreateTicket
  <2>1. PICK n \in 1 .. LastTicket :
            /\ tickets[n] = UNUSED
            /\ tickets' = [tickets EXCEPT ![n] =
                    [status |-> "OPEN", assignedTo |-> NULL, marks |-> {}]]
            /\ unanswered' = [unanswered EXCEPT ![n] = TRUE]
    BY <1>5 DEF T!CreateTicket
  <2> PICK x : x = [status |-> "OPEN", assignedTo |-> NULL, marks |-> {}]
    OBVIOUS
  <2>2. IsTicket(x) /\ x.status \in Worked
    BY DEF IsTicket, Worked, T!Statuses
  <2>3. \A m \in 1 .. LastTicket :
            /\ tickets'[m] = IF m = n THEN x ELSE tickets[m]
            /\ unanswered'[m] = IF m = n THEN TRUE ELSE unanswered[m]
    BY <1>2, <2>1 DEF TicketsKnown
  <2>4. /\ tickets' = [m \in 1 .. LastTicket |-> tickets'[m]]
        /\ unanswered' = [m \in 1 .. LastTicket |-> unanswered'[m]]
        /\ DOMAIN tickets = 1 .. LastTicket
    BY <1>2, <2>1 DEF TicketsKnown
  <2>5. ASSUME NEW m \in T!Rows'
        PROVE  IsTicket(tickets'[m]) /\ (unanswered'[m] => tickets'[m].status \in Worked)
    <3>1. m \in 1 .. LastTicket /\ (m = n \/ m \in T!Rows)
      BY <2>3, <2>4 DEF T!Rows
    <3> QED BY <1>2, <2>2, <2>3, <3>1 DEF TicketsKnown
  <2>6. T!ClosedStays
    BY <2>1, <2>3, <2>4 DEF T!ClosedStays, T!Rows
  <2> QED BY <1>3, <1>4, <2>4, <2>5, <2>6 DEF TicketsKnown
<1>6. ASSUME NEW n \in T!Rows, NEW agent, T!Assign(n, agent)
      PROVE  TicketsKnown' /\ T!ClosedStays
  <2> PICK t : t = tickets[n]
    OBVIOUS
  <2> PICK x : x = [status |-> t.status, assignedTo |-> agent, marks |-> t.marks]
    OBVIOUS
  <2>1. t = [status |-> t.status, assignedTo |-> t.assignedTo, marks |-> t.marks]
    BY <1>2 DEF TicketsKnown, IsTicket
  <2>2. [t EXCEPT !.assignedTo = agent] = x /\ x.status = t.status
    BY <2>1
  <2>3. tickets' = [tickets EXCEPT ![n] = x] /\ UNCHANGED unanswered
    BY <1>6, <2>2 DEF T!Assign
  <2>4. IsTicket(x)
    BY <1>2, <2>2 DEF TicketsKnown, IsTicket
  <2>5. \A m \in 1 .. LastTicket : tickets'[m] = IF m = n THEN x ELSE tickets[m]
    BY <1>2, <2>3 DEF TicketsKnown
  <2>6. /\ tickets' = [m \in 1 .. LastTicket |-> tickets'[m]]
        /\ DOMAIN tickets = 1 .. LastTicket
    BY <1>2, <2>3 DEF TicketsKnown
  <2>7. ASSUME NEW m \in T!Rows'
        PROVE  IsTicket(tickets'[m]) /\ (unanswered'[m] => tickets'[m].status \in Worked)
    <3>1. m \in 1 .. LastTicket /\ m \in T!Rows
      BY <2>5, <2>6 DEF T!Rows
    <3> QED BY <1>2, <2>2, <2>3, <2>4, <2>5, <3>1 DEF TicketsKnown
  <2>8. T!ClosedStays
    BY <2>2, <2>5, <2>6 DEF T!ClosedStays, T!Rows
  <2> QED BY <1>2, <1>3, <1>4, <2>3, <2>6, <2>7, <2>8 DEF TicketsKnown
<1> QED BY <1>5, <1>6 DEF T!Statement

LEMMA TicketsKept == TicketsInv /\ [T!Next]_(T!vars) => TicketsInv' /\ [T!ClosedStays]_(T!vars)
<1> SUFFICES ASSUME TicketsInv, [T!Next]_(T!vars) PROVE TicketsInv' /\ [T!ClosedStays]_(T!vars)
  OBVIOUS
<1>1. ASSUME UNCHANGED tickets PROVE T!ClosedStays
  BY <1>1 DEF T!ClosedStays
<1>2. ASSUME NEW h \in Handlers, NEW r, T!Start(h, r), ~ overlapped' => TicketRequest(r)
      PROVE  TicketsInv' /\ T!ClosedStays
  <2>1. Begin(h, r) /\ UNCHANGED T!desk /\ UNCHANGED tickets
    BY <1>2 DEF T!Start, T!Begin, T!Idle, T!desk, Begin, Idle
  <2>2. overlapped' \/ TicketsInv'
    BY <1>2, <2>1, TicketReadAlone
  <2> QED BY <1>1, <2>1, <2>2 DEF TicketsInv
<1>3. ASSUME NEW h \in Handlers, NEW r, T!Start(h, r)
      PROVE  ~ overlapped' => TicketsKnown
  <2>1. overlapped' = (overlapped \/ \E g \in Handlers : req[g] # T!Idle)
    BY <1>3 DEF T!Start, T!Begin
  <2> QED BY <2>1, Zenon DEF TicketsInv
<1>4. \A n \in T!Rows : TicketsKnown => tickets[n].status \in T!Statuses
  BY DEF TicketsKnown, IsTicket
<1>5. ASSUME NEW h \in Handlers, NEW n \in T!Rows, T!CustomerReplies(h, n)
      PROVE  TicketsInv' /\ T!ClosedStays
  <2> PICK current : current = tickets[n].status
    OBVIOUS
  <2> PICK next : next = T!Or(T!statusAfterCustomerReply(current), current)
    OBVIOUS
  <2> PICK r : r = [kind |-> "reply", ticket |-> n, unanswered |-> TRUE, next |-> next]
    OBVIOUS
  <2>1. current # "CLOSED" /\ T!Start(h, r)
    BY <1>5 DEF T!CustomerReplies, T!customerMayReply
  <2>2. /\ next \in {NULL, "IN_PROGRESS"}
        /\ next = NULL => current \notin {"WAITING_ON_CUSTOMER", "RESOLVED"}
    BY RowsAssumption DEF T!Or, T!statusAfterCustomerReply
  <2>3. TicketsKnown => TicketRequest(r)
    <3>1. TicketsKnown /\ next = NULL => current \in Worked
      BY <1>4, <2>1, <2>2 DEF T!Statuses, Worked
    <3> QED BY <2>1, <2>2, <3>1 DEF TicketRequest
  <2> QED BY <1>2, <1>3, <2>1, <2>3
<1>6. ASSUME NEW h \in Handlers, NEW n \in T!Rows, NEW isInternal \in BOOLEAN,
             T!StaffReplies(h, n, isInternal)
      PROVE  TicketsInv' /\ T!ClosedStays
  <2> PICK current : current = tickets[n].status
    OBVIOUS
  <2> PICK next : next = T!Or(T!statusAfterStaffReply(current, isInternal), current)
    OBVIOUS
  <2> PICK answered : answered = IF isInternal THEN NULL ELSE FALSE
    OBVIOUS
  <2> PICK r : r = [kind |-> "reply", ticket |-> n, unanswered |-> answered, next |-> next]
    OBVIOUS
  <2>1. T!Start(h, r)
    BY <1>6 DEF T!StaffReplies
  <2>2. next \in {NULL, "IN_PROGRESS"} /\ (next # NULL => current = "OPEN")
    BY DEF T!Or, T!statusAfterStaffReply
  <2>3. answered \in BOOLEAN \cup {NULL} /\ answered # TRUE
    BY RowsAssumption
  <2>4. TicketRequest(r)
    BY <2>2, <2>3 DEF TicketRequest
  <2> QED BY <1>2, <2>1, <2>4
<1>7. ASSUME NEW h \in Handlers, NEW n \in T!Rows, NEW to \in T!Statuses, NEW agent,
             T!ChangeTicketStatus(h, n, to, agent)
      PROVE  TicketsInv' /\ T!ClosedStays
  <2> PICK r : r = [kind |-> "status", ticket |-> n, to |-> to, actor |-> agent]
    OBVIOUS
  <2>1. T!Start(h, r) /\ to \in T!TICKET_TRANSITIONS(tickets[n].status)
    BY <1>7 DEF T!ChangeTicketStatus
  <2>2. tickets[n].status # "CLOSED"
    <3>1. T!TICKET_TRANSITIONS("CLOSED") = {}
      BY DEF T!TICKET_TRANSITIONS
    <3> QED BY <2>1, <3>1
  <2>3. TicketRequest(r)
    BY <2>2 DEF TicketRequest
  <2> QED BY <1>2, <2>1, <2>3
<1>8. ASSUME NEW h \in Handlers, T!addMessage(h) \/ T!setStatus(h)
      PROVE  TicketsInv' /\ T!ClosedStays
  <2>1. overlapped' = overlapped
    BY <1>8 DEF T!addMessage, T!setStatus, T!Finish, T!Continue
  <2> QED BY <1>8, <2>1, MessageAdded, StatusSet DEF TicketsInv, T!ClosedStays
<1>9. CASE (T!Restart /\ UNCHANGED T!desk) \/ UNCHANGED T!vars
  <2>1. UNCHANGED <<tickets, unanswered, overlapped>> /\ T!Rows' = T!Rows
    BY <1>9 DEF T!Restart, T!vars, T!desk, T!Rows
  <2>2. TicketsKnown => TicketsKnown'
    <3>1. CASE UNCHANGED T!vars
      BY <2>1, <3>1 DEF T!vars, TicketsKnown, RequestsKept, Alone, TicketRequest
    <3>2. CASE T!Restart
      <4>1. RequestsKept' /\ Alone' /\ \A h \in Handlers : req'[h] = Idle
        BY <3>2, RestartsAlone DEF T!Restart, T!Idle, Restart, Idle
      <4>2. \A h \in Handlers : TicketRequest(req[h])'
        BY <4>1 DEF TicketRequest, Idle
      <4> QED BY <2>1, <4>1, <4>2 DEF TicketsKnown
    <3> QED BY <1>9, <3>1, <3>2
  <2> QED BY <1>1, <2>1, <2>2 DEF TicketsInv
<1>10. ASSUME NEW h \in Handlers, T!Request(h) PROVE TicketsInv' /\ T!ClosedStays
  <2>1. PICK n \in T!Rows :
            \/ T!CustomerReplies(h, n)
            \/ \E isInternal \in BOOLEAN : T!StaffReplies(h, n, isInternal)
            \/ \E to \in T!Statuses, agent \in Agents : T!ChangeTicketStatus(h, n, to, agent)
    BY <1>10 DEF T!Request
  <2> QED BY <2>1, <1>5, <1>6, <1>7
<1> QED BY <1>8, <1>9, <1>10, TicketStatement DEF T!Next

\* One request at a time, what a customer wrote last is on a ticket somebody
\* works on until it is answered or moved by staff, and a closed ticket stays
\* closed: the move each request makes was allowed by the ticket it moves.
THEOREM CustomersAreHeard == Spec => CustomerIsHeard
<1> DEFINE Inv == part = "tickets" => TicketsInv
           Heard == part = "tickets" => T!UnansweredIsWorked
           Stays == part = "tickets" => T!ClosedStays
<1>1. Init => Inv
  BY TicketsStart DEF Init
<1>2. Inv /\ [Next]_vars => Inv' /\ [Stays]_vars
  <2> SUFFICES ASSUME Inv, [Next]_vars PROVE Inv' /\ (Stays \/ UNCHANGED vars)
    OBVIOUS
  <2>1. UNCHANGED T!vars => T!ClosedStays
    BY DEF T!vars, T!desk, T!ClosedStays
  <2> QED BY <2>1, PartStays, TicketsOnly, TicketsKept
<1>3. Inv => Heard
  BY DEF TicketsInv, TicketsKnown, T!UnansweredIsWorked, Worked
<1> QED BY <1>1, <1>2, <1>3, PTL DEF Spec, CustomerIsHeard

-----------------------------------------------------------------------------
(* Riders: alone, a decision finds the papers it looked at as they were,   *)
(* but for their dates, and every verdict is on the file that was looked   *)
(* at.                                                                     *)

LEMMA RidersOnly == part = "riders" /\ [Next]_vars => [R!Next]_(R!vars)
BY DEF Next, vars, Only, RidersStep, SessionsStep, CodesStep, AddressesStep, BasketsStep,
       CampaignsStep, MenusStep, OptionsStep, ListingsStep, HoursStep, OffersStep, TicketsStep,
       NoticesStep, LiveStep, riders, R!vars, R!tables

IsDriver(x) ==
    /\ x = [cnic |-> x.cnic, motorised |-> x.motorised, status |-> x.status,
            availability |-> x.availability]
    /\ x.status \in R!DriverStatuses

IsDocument(x) ==
    /\ x = [file |-> x.file, expired |-> x.expired, status |-> x.status]
    /\ x.status \in R!DocumentStatuses

DriversKnown ==
    /\ drivers = [a \in Accounts |-> drivers[a]]
    /\ \A a \in Accounts :
        \/ drivers[a] = R!NoDriver
        \/ /\ IsDriver(drivers[a])
           /\ drivers[a].status # "ACTIVE" => drivers[a].availability = "OFFLINE"

DocumentsKnown ==
    /\ documents = [a \in Accounts |-> [t \in R!DocumentTypes |-> documents[a][t]]]
    /\ \A a \in Accounts, t \in R!DocumentTypes :
        \/ documents[a][t] = R!NoDocument
        \/ /\ IsDocument(documents[a][t])
           /\ documents[a][t].status = "VERIFIED" => <<a, t, documents[a][t].file>> \in reviewed

RiderRequest(r) ==
    /\ r.kind # "idle" => r.account \in Accounts
    /\ r.kind = "upload" => r.type \in R!DocumentTypes
    /\ r.kind = "review" =>
        /\ r.type \in R!DocumentTypes /\ IsDocument(documents[r.account][r.type])
        /\ r.verdict \in {"VERIFIED", "REJECTED"}
        /\ r.verdict = "VERIFIED" =>
            <<r.account, r.type, documents[r.account][r.type].file>> \in reviewed
    /\ r.kind = "status" =>
        /\ IsDriver(drivers[r.account]) /\ r.to \in R!DriverStatuses
        /\ r.to = "ACTIVE" =>
            \A t \in R!Needed(r.account) : documents[r.account][t].status = "VERIFIED"
    /\ r.kind = "switch" =>
        IsDriver(drivers[r.account]) /\ drivers[r.account].status = "ACTIVE"

RidersKnown ==
    /\ RequestsKept /\ Alone
    /\ DriversKnown /\ DocumentsKnown
    /\ \A h \in Handlers : RiderRequest(req[h])

RidersInv == ~ overlapped => RidersKnown

LEMMA RiderTypes == R!NoDriver.status = "none" /\ R!NoDocument.status = "none"
BY DEF R!NoDriver, R!NoDocument

LEMMA NeededAreTypes == \A a : R!Needed(a) \subseteq R!DocumentTypes
BY DEF R!Needed, R!DocumentTypes

LEMMA IdleRider == RiderRequest(Idle)
BY DEF RiderRequest, Idle

LEMMA RidersStart == R!Init => RidersInv
<1> SUFFICES ASSUME R!Init PROVE RidersKnown
  BY DEF RidersInv
<1>1. RequestsKept /\ Alone /\ \A h \in Handlers : req[h] = Idle
  BY DEF R!Init, R!NoRequests, R!Idle, Idle, RequestsKept, Alone
<1>2. DriversKnown /\ DocumentsKnown
  BY DEF R!Init, DriversKnown, DocumentsKnown
<1> QED BY <1>1, <1>2, IdleRider DEF RidersKnown

\* A request begins that read what it carries.
LEMMA RiderReads ==
    ASSUME RidersInv, NEW h \in Handlers, NEW r, R!Begin(h, r), UNCHANGED <<drivers, documents>>,
           reviewed \subseteq reviewed', ~ overlapped' /\ RidersKnown => RiderRequest(r)'
    PROVE  RidersInv' /\ R!VettedFirst
<1> USE DEF R!Begin, R!Idle
<1>1. ASSUME ~ overlapped' PROVE RidersKnown'
  <2>1. Begin(h, r) /\ ~ overlapped
    <3>1. Begin(h, r)
      BY DEF Begin, Idle
    <3>2. overlapped' = (overlapped \/ \E g \in Handlers : req[g] # Idle)
      BY <3>1 DEF Begin
    <3> QED BY <1>1, <3>1, <3>2, Zenon
  <2>2. RidersKnown
    BY <2>1 DEF RidersInv
  <2>3. OnlyMoves(h, r)
    BY <1>1, <2>1, <2>2, BeginsAlone DEF RidersKnown
  <2>4. DriversKnown' /\ DocumentsKnown'
    BY <2>2 DEF RidersKnown, DriversKnown, DocumentsKnown
  <2>5. ASSUME NEW g \in Handlers PROVE RiderRequest(req[g])'
    <3>1. CASE g = h
      BY <1>1, <2>2, <2>3, <3>1 DEF OnlyMoves, RiderRequest, R!Needed
    <3>2. CASE g # h
      BY <2>3, <3>2 DEF OnlyMoves, RiderRequest, Idle
    <3> QED BY <3>1, <3>2
  <2> QED BY <2>3, <2>4, <2>5 DEF RidersKnown, OnlyMoves
<1>2. R!VettedFirst
  BY DEF R!VettedFirst
<1> QED BY <1>1, <1>2 DEF RidersInv

\* A request ends after it wrote its row.
LEMMA RiderEnds ==
    ASSUME RidersInv, ~ overlapped, NEW h \in Handlers, R!Finish(h), req[h].kind # "idle",
           DriversKnown', DocumentsKnown'
    PROVE  RidersInv'
<1>1. Continue(h, Idle)
  BY DEF R!Finish, R!Continue, R!Idle, Continue, Idle
<1>2. OnlyMoves(h, Idle)
  BY <1>1, GoesOnAlone DEF RidersInv, RidersKnown
<1>3. \A g \in Handlers : req'[g] = Idle
  BY <1>2 DEF OnlyMoves
<1>4. RiderRequest(Idle)'
  BY DEF RiderRequest, Idle
<1>5. \A g \in Handlers : RiderRequest(req[g])'
  BY <1>3, <1>4 DEF RiderRequest
<1> QED BY <1>2, <1>5 DEF RidersInv, RidersKnown, OnlyMoves

\* One driver's row is written.
LEMMA DriverWritten ==
    ASSUME DriversKnown, NEW a \in Accounts, NEW x, drivers' = [drivers EXCEPT ![a] = x],
           IsDriver(x), x.status # "ACTIVE" => x.availability = "OFFLINE",
           x.status = "ACTIVE" /\ drivers[a].status # "ACTIVE" =>
                \A t \in R!Needed(a) : <<a, t, documents[a][t].file>> \in reviewed
    PROVE  DriversKnown' /\ R!VettedFirst
<1>1. \A b \in Accounts : drivers'[b] = IF b = a THEN x ELSE drivers[b]
  BY DEF DriversKnown
<1>2. drivers' = [b \in Accounts |-> drivers'[b]]
  BY DEF DriversKnown
<1>3. DriversKnown'
  <2> SUFFICES ASSUME NEW b \in Accounts
               PROVE  \/ drivers'[b] = R!NoDriver
                      \/ /\ IsDriver(drivers'[b])
                         /\ drivers'[b].status # "ACTIVE" => drivers'[b].availability = "OFFLINE"
    BY <1>2 DEF DriversKnown
  <2> QED BY <1>1 DEF DriversKnown
<1>4. R!VettedFirst
  BY <1>1 DEF R!VettedFirst
<1> QED BY <1>3, <1>4

\* One document's row is written.
LEMMA DocumentWritten ==
    ASSUME DocumentsKnown, NEW a \in Accounts, NEW t \in R!DocumentTypes, NEW x,
           documents' = [documents EXCEPT ![a][t] = x], UNCHANGED reviewed, IsDocument(x),
           x.status = "VERIFIED" => <<a, t, x.file>> \in reviewed
    PROVE  DocumentsKnown'
<1>1. \A b \in Accounts, s \in R!DocumentTypes :
        documents'[b][s] = IF b = a /\ s = t THEN x ELSE documents[b][s]
  BY DEF DocumentsKnown
<1>2. documents' = [b \in Accounts |-> [s \in R!DocumentTypes |-> documents'[b][s]]]
  <2>1. \A b \in Accounts : documents[b] = [s \in R!DocumentTypes |-> documents[b][s]]
    BY DEF DocumentsKnown
  <2>2. \A b \in Accounts : documents'[b] = IF b = a THEN [documents[a] EXCEPT ![t] = x]
                                            ELSE documents[b]
    BY DEF DocumentsKnown
  <2>3. ASSUME NEW b \in Accounts
        PROVE  documents'[b] = [s \in R!DocumentTypes |-> documents'[b][s]]
    <3>1. CASE b = a
      <4>1. documents'[b] = [s \in R!DocumentTypes |-> IF s = t THEN x ELSE documents[a][s]]
        BY <2>1, <2>2, <3>1
      <4> QED BY <4>1
    <3>2. CASE b # a
      BY <2>1, <2>2, <3>2
    <3> QED BY <3>1, <3>2
  <2>4. documents' = [b \in Accounts |-> documents'[b]]
    BY DEF DocumentsKnown
  <2> QED BY <2>3, <2>4
<1>3. DocumentsKnown'
  <2> SUFFICES ASSUME NEW b \in Accounts, NEW s \in R!DocumentTypes
               PROVE  \/ documents'[b][s] = R!NoDocument
                      \/ /\ IsDocument(documents'[b][s])
                         /\ documents'[b][s].status = "VERIFIED"
                                => <<b, s, documents'[b][s].file>> \in reviewed
    BY <1>2 DEF DocumentsKnown
  <2> QED BY <1>1 DEF DocumentsKnown
<1> QED BY <1>3

LEMMA Registered ==
    ASSUME RidersInv, ~ overlapped, NEW h \in Handlers, R!CommitRegister(h)
    PROVE  RidersInv' /\ R!VettedFirst
<1>1. RidersKnown /\ R!Finish(h) /\ req[h].kind = "register" /\ UNCHANGED <<documents, reviewed>>
  BY DEF RidersInv, R!CommitRegister
<1> PICK a : a = req[h].account
  OBVIOUS
<1> PICK x : x = [cnic |-> req[h].cnic, motorised |-> req[h].motorised,
                  status |-> "PENDING_APPROVAL", availability |-> "OFFLINE"]
  OBVIOUS
<1>2. a \in Accounts /\ drivers' \in {[drivers EXCEPT ![a] = x], drivers}
  BY <1>1 DEF RidersKnown, RiderRequest, R!CommitRegister
<1>3. IsDriver(x) /\ x.status # "ACTIVE" /\ x.availability = "OFFLINE"
  BY DEF IsDriver, R!DriverStatuses
<1>4. CASE drivers' = drivers
  BY <1>1, <1>4, RiderEnds
     DEF RidersKnown, DriversKnown, DocumentsKnown, R!VettedFirst
<1>5. CASE drivers' = [drivers EXCEPT ![a] = x]
  <2>1. DriversKnown' /\ R!VettedFirst
    BY <1>1, <1>2, <1>3, <1>5, DriverWritten DEF RidersKnown
  <2> QED BY <1>1, <2>1, RiderEnds DEF RidersKnown, DocumentsKnown
<1> QED BY <1>2, <1>4, <1>5

LEMMA Uploaded ==
    ASSUME RidersInv, ~ overlapped, NEW h \in Handlers, R!CommitUpload(h)
    PROVE  RidersInv' /\ R!VettedFirst
<1>1. RidersKnown /\ R!Finish(h) /\ req[h].kind = "upload" /\ UNCHANGED <<drivers, reviewed>>
  BY DEF RidersInv, R!CommitUpload
<1> PICK x : x = R!Filed(documents[req[h].account][req[h].type])
  OBVIOUS
<1>2. IsDocument(x) /\ x.status # "VERIFIED"
  BY DEF IsDocument, R!Filed, R!DocumentStatuses
<1>3. DocumentsKnown'
  <2>1. documents' = [documents EXCEPT ![req[h].account][req[h].type] = x]
    BY DEF R!CommitUpload
  <2>2. req[h].account \in Accounts /\ req[h].type \in R!DocumentTypes
    BY <1>1 DEF RidersKnown, RiderRequest
  <2> QED BY <1>1, <1>2, <2>1, <2>2, DocumentWritten DEF RidersKnown
<1> QED BY <1>1, <1>3, RiderEnds DEF RidersKnown, DriversKnown, R!VettedFirst

LEMMA Reviewed ==
    ASSUME RidersInv, ~ overlapped, NEW h \in Handlers, R!CommitReview(h)
    PROVE  RidersInv' /\ R!VettedFirst
<1>1. RidersKnown /\ R!Finish(h) /\ req[h].kind = "review" /\ UNCHANGED <<drivers, reviewed>>
  BY DEF RidersInv, R!CommitReview
<1> PICK a : a = req[h].account
  OBVIOUS
<1> PICK t : t = req[h].type
  OBVIOUS
<1> PICK doc : doc = documents[a][t]
  OBVIOUS
<1>2. /\ a \in Accounts /\ t \in R!DocumentTypes /\ IsDocument(doc)
      /\ req[h].verdict \in {"VERIFIED", "REJECTED"}
      /\ req[h].verdict = "VERIFIED" => <<a, t, doc.file>> \in reviewed
  BY <1>1 DEF RidersKnown, RiderRequest
<1> PICK x : x = [file |-> doc.file, expired |-> doc.expired, status |-> req[h].verdict]
  OBVIOUS
<1>3. [doc EXCEPT !.status = req[h].verdict] = x
  BY <1>2, SMTT(30) DEF IsDocument
<1>4. documents' = [documents EXCEPT ![a][t] = x]
  BY <1>3 DEF R!CommitReview
<1>5. IsDocument(x)
  BY <1>2 DEF IsDocument, R!DocumentStatuses
<1>6. DocumentsKnown'
  BY <1>1, <1>2, <1>4, <1>5, DocumentWritten DEF RidersKnown
<1> QED BY <1>1, <1>6, RiderEnds DEF RidersKnown, DriversKnown, R!VettedFirst

LEMMA SwitchMoved ==
    ASSUME NEW y, NEW to, IsDriver(y)
    PROVE  [y EXCEPT !.availability = to]
                = [cnic |-> y.cnic, motorised |-> y.motorised, status |-> y.status,
                   availability |-> to]
BY DEF IsDriver

LEMMA Decided ==
    ASSUME RidersInv, ~ overlapped, NEW h \in Handlers, R!CommitStatus(h)
    PROVE  RidersInv' /\ R!VettedFirst
<1>1. RidersKnown /\ R!Finish(h) /\ req[h].kind = "status" /\ UNCHANGED <<documents, reviewed>>
  BY DEF RidersInv, R!CommitStatus
<1> PICK a : a = req[h].account
  OBVIOUS
<1> PICK to : to = req[h].to
  OBVIOUS
<1> PICK d : d = drivers[a]
  OBVIOUS
<1>2. /\ a \in Accounts /\ IsDriver(d) /\ to \in R!DriverStatuses
      /\ to = "ACTIVE" => \A t \in R!Needed(a) : documents[a][t].status = "VERIFIED"
  BY <1>1 DEF RidersKnown, RiderRequest
<1> PICK where : where = R!OffTheMap(d, to)
  OBVIOUS
<1> PICK x : x = [cnic |-> d.cnic, motorised |-> d.motorised, status |-> to,
                  availability |-> where]
  OBVIOUS
<1>3. [[d EXCEPT !.status = to] EXCEPT !.availability = where] = x
  <2>1. d = [cnic |-> d.cnic, motorised |-> d.motorised, status |-> d.status,
             availability |-> d.availability]
    BY <1>2 DEF IsDriver
  <2>2. [d EXCEPT !.status = to]
            = [cnic |-> d.cnic, motorised |-> d.motorised, status |-> to,
               availability |-> d.availability]
    BY <2>1
  <2> PICK y : y = [d EXCEPT !.status = to]
    OBVIOUS
  <2>3. /\ y = [cnic |-> y.cnic, motorised |-> y.motorised, status |-> y.status,
                availability |-> y.availability]
        /\ y.cnic = d.cnic /\ y.motorised = d.motorised /\ y.status = to
    BY <2>2
  <2>4. [y EXCEPT !.availability = where]
            = [cnic |-> y.cnic, motorised |-> y.motorised, status |-> y.status,
               availability |-> where]
    <3>1. IsDriver(y)
      BY <1>2, <2>3 DEF IsDriver
    <3> QED BY <3>1, SwitchMoved
  <2> QED BY <2>3, <2>4
<1>4. drivers' = [drivers EXCEPT ![a] = x]
  <2>1. drivers' = [[drivers EXCEPT ![a].status = to] EXCEPT ![a].availability = where]
    BY DEF R!CommitStatus
  <2> QED BY <1>1, <1>2, <1>3, <2>1 DEF RidersKnown, DriversKnown
<1>5. IsDriver(x) /\ (x.status # "ACTIVE" => x.availability = "OFFLINE")
  BY <1>2 DEF IsDriver, R!OffTheMap
<1>6. ASSUME to = "ACTIVE", NEW t \in R!Needed(a)
      PROVE  <<a, t, documents[a][t].file>> \in reviewed
  BY <1>1, <1>2, <1>6, NeededAreTypes, RiderTypes DEF RidersKnown, DocumentsKnown
<1>7. DriversKnown' /\ R!VettedFirst
  BY <1>1, <1>2, <1>4, <1>5, <1>6, DriverWritten DEF RidersKnown
<1> QED BY <1>1, <1>7, RiderEnds DEF RidersKnown, DocumentsKnown

\* A driver's switch moves, by his own hand or by a run.
LEMMA Switched ==
    ASSUME DriversKnown, NEW a \in Accounts, NEW to, IsDriver(drivers[a]),
           drivers[a].status = "ACTIVE",
           drivers' = [drivers EXCEPT ![a].availability = to]
    PROVE  DriversKnown' /\ R!VettedFirst
<1> PICK d : d = drivers[a]
  OBVIOUS
<1> PICK x : x = [cnic |-> d.cnic, motorised |-> d.motorised, status |-> d.status,
                  availability |-> to]
  OBVIOUS
<1>1. [d EXCEPT !.availability = to] = x /\ IsDriver(x) /\ x.status = d.status
  BY DEF IsDriver
<1>2. drivers' = [drivers EXCEPT ![a] = x]
  BY <1>1
<1> QED BY <1>1, <1>2, DriverWritten

LEMMA RidersKept == RidersInv /\ [R!Next]_(R!vars) => RidersInv' /\ [R!VettedFirst]_(R!vars)
<1> SUFFICES ASSUME RidersInv, [R!Next]_(R!vars) PROVE RidersInv' /\ [R!VettedFirst]_(R!vars)
  OBVIOUS
<1>1. ASSUME NEW h \in Handlers, R!Commit(h) PROVE RidersInv' /\ R!VettedFirst
  <2>1. overlapped' = overlapped
    BY <1>1 DEF R!Commit, R!CommitRegister, R!CommitUpload, R!CommitReview, R!CommitStatus,
                R!CommitAvailability, R!Finish, R!Continue
  <2>2. CASE overlapped
    BY <2>1, <2>2 DEF RidersInv, R!VettedFirst
  <2>3. CASE ~ overlapped /\ R!CommitAvailability(h)
    <3>1. /\ RidersKnown /\ R!Finish(h) /\ req[h].kind = "switch"
          /\ UNCHANGED <<documents, reviewed>>
          /\ drivers' = [drivers EXCEPT ![req[h].account].availability = req[h].to]
      BY <2>3 DEF RidersInv, R!CommitAvailability
    <3>2. /\ req[h].account \in Accounts /\ IsDriver(drivers[req[h].account])
          /\ drivers[req[h].account].status = "ACTIVE"
      BY <3>1 DEF RidersKnown, RiderRequest
    <3>3. DriversKnown' /\ R!VettedFirst
      BY <3>1, <3>2, Switched DEF RidersKnown
    <3> QED BY <2>3, <3>1, <3>3, RiderEnds DEF RidersKnown, DocumentsKnown
  <2> QED BY <1>1, <2>2, <2>3, Registered, Uploaded, Reviewed, Decided DEF R!Commit
<1>2. ASSUME NEW h \in Handlers, NEW r, R!Begin(h, r), UNCHANGED R!tables,
             RidersKnown => RiderRequest(r)
      PROVE  RidersInv' /\ R!VettedFirst
  <2>1. UNCHANGED <<drivers, documents, reviewed>>
    BY <1>2 DEF R!tables
  <2>2. RidersKnown => RiderRequest(r)'
    BY <1>2, <2>1 DEF RiderRequest, R!Needed
  <2> QED BY <1>2, <2>1, <2>2, RiderReads
<1>3. ASSUME NEW h \in Handlers, NEW a \in Accounts, NEW cnic, NEW motorised,
             R!Register(h, a, cnic, motorised)
      PROVE  RidersInv' /\ R!VettedFirst
  <2> PICK r : r = [kind |-> "register", account |-> a, cnic |-> cnic, motorised |-> motorised]
    OBVIOUS
  <2>1. R!Begin(h, r) /\ UNCHANGED R!tables
    BY <1>3 DEF R!Register
  <2>2. RiderRequest(r)
    BY DEF RiderRequest
  <2> QED BY <1>2, <2>1, <2>2
<1>4. ASSUME NEW h \in Handlers, NEW a \in Accounts, NEW t \in R!DocumentTypes,
             R!UploadDocument(h, a, t)
      PROVE  RidersInv' /\ R!VettedFirst
  <2> PICK r : r = [kind |-> "upload", account |-> a, type |-> t]
    OBVIOUS
  <2>1. R!Begin(h, r) /\ UNCHANGED R!tables
    BY <1>4 DEF R!UploadDocument
  <2>2. RiderRequest(r)
    BY DEF RiderRequest
  <2> QED BY <1>2, <2>1, <2>2
<1>5. ASSUME NEW h \in Handlers, NEW a \in Accounts, NEW t \in R!DocumentTypes,
             NEW verdict \in {"VERIFIED", "REJECTED"}, R!ReviewDocument(h, a, t, verdict)
      PROVE  RidersInv' /\ R!VettedFirst
  <2> PICK doc : doc = documents[a][t]
    OBVIOUS
  <2> PICK r : r = [kind |-> "review", account |-> a, type |-> t, file |-> doc.file,
                    verdict |-> verdict]
    OBVIOUS
  <2>1. /\ doc # R!NoDocument /\ R!Begin(h, r) /\ UNCHANGED <<drivers, documents>>
        /\ reviewed' = IF verdict = "VERIFIED" THEN reviewed \cup {<<a, t, doc.file>>}
                       ELSE reviewed
    BY <1>5 DEF R!ReviewDocument
  <2>2. reviewed \subseteq reviewed'
    BY <2>1
  <2>3. RidersKnown => IsDocument(doc)
    BY <2>1 DEF RidersKnown, DocumentsKnown
  <2>4. RidersKnown => RiderRequest(r)'
    BY <2>1, <2>3 DEF RiderRequest
  <2> QED BY <2>1, <2>2, <2>4, RiderReads
<1>6. ASSUME NEW h \in Handlers, NEW a \in Accounts, NEW to \in R!DriverStatuses,
             R!Decide(h, a, to)
      PROVE  RidersInv' /\ R!VettedFirst
  <2> PICK r : r = [kind |-> "status", account |-> a, to |-> to]
    OBVIOUS
  <2>1. /\ drivers[a] # R!NoDriver /\ R!Begin(h, r) /\ UNCHANGED R!tables
        /\ to = "ACTIVE" => R!missingDocuments(a) = {}
    BY <1>6 DEF R!Decide, R!Registered
  <2>2. to = "ACTIVE" => \A t \in R!Needed(a) : documents[a][t].status = "VERIFIED"
    BY <2>1 DEF R!missingDocuments, R!verifiedDocumentTypes
  <2>3. RidersKnown => IsDriver(drivers[a])
    BY <2>1 DEF RidersKnown, DriversKnown
  <2>4. RidersKnown => RiderRequest(r)
    BY <2>2, <2>3 DEF RiderRequest
  <2> QED BY <1>2, <2>1, <2>4
<1>7. ASSUME NEW h \in Handlers, NEW a \in Accounts, NEW to, R!SetAvailability(h, a, to)
      PROVE  RidersInv' /\ R!VettedFirst
  <2> PICK r : r = [kind |-> "switch", account |-> a, to |-> to]
    OBVIOUS
  <2>1. /\ drivers[a] # R!NoDriver /\ drivers[a].status = "ACTIVE"
        /\ R!Begin(h, r) /\ UNCHANGED R!tables
    BY <1>7 DEF R!SetAvailability, R!Registered
  <2>2. RidersKnown => RiderRequest(r)
    BY <2>1 DEF RiderRequest, RidersKnown, DriversKnown
  <2> QED BY <1>2, <2>1, <2>2
<1>8. ASSUME NEW h \in Handlers, R!Request(h) PROVE RidersInv' /\ R!VettedFirst
  <2>1. PICK a \in Accounts :
            \/ \E cnic \in Cnics, motorised \in BOOLEAN : R!Register(h, a, cnic, motorised)
            \/ \E t \in R!DocumentTypes :
                \/ R!UploadDocument(h, a, t)
                \/ \E verdict \in {"VERIFIED", "REJECTED"} : R!ReviewDocument(h, a, t, verdict)
            \/ \E to \in R!DriverStatuses : R!Decide(h, a, to)
            \/ \E to \in R!SELF_SERVICE_AVAILABILITY : R!SetAvailability(h, a, to)
    BY <1>8 DEF R!Request
  <2> QED BY <1>3, <1>4, <1>5, <1>6, <1>7, <2>1
<1>9. ASSUME NEW a \in Accounts, R!Carry(a) PROVE RidersInv' /\ R!VettedFirst
  <2> SUFFICES ASSUME ~ overlapped' PROVE RidersKnown' /\ R!VettedFirst
    BY DEF RidersInv, R!VettedFirst
  <2>1. ~ overlapped /\ \A h \in Handlers : req[h] = Idle
    <3>1. overlapped' = (overlapped \/ \E g \in Handlers : req[g] # R!Idle)
      BY <1>9 DEF R!Carry
    <3> QED BY <3>1, Zenon DEF R!Idle, Idle
  <2>2. RidersKnown
    BY <2>1 DEF RidersInv
  <2> PICK to : to = IF drivers[a].availability = "ON_DELIVERY" THEN "ONLINE" ELSE "ON_DELIVERY"
    OBVIOUS
  <2>3. /\ drivers[a] # R!NoDriver /\ UNCHANGED <<documents, reviewed, req>>
        /\ drivers' = [drivers EXCEPT ![a].availability = to]
        /\ drivers[a].availability # "ON_DELIVERY" => drivers[a].status = "ACTIVE"
    BY <1>9 DEF R!Carry, R!Registered
  <2>4. IsDriver(drivers[a]) /\ drivers[a].status = "ACTIVE"
    BY <2>2, <2>3 DEF RidersKnown, DriversKnown
  <2>5. DriversKnown' /\ R!VettedFirst
    BY <2>2, <2>3, <2>4, Switched DEF RidersKnown
  <2>6. RiderRequest(Idle)'
    BY DEF RiderRequest, Idle
  <2>7. \A h \in Handlers : RiderRequest(req[h])'
    BY <2>1, <2>3, <2>6 DEF RiderRequest
  <2> QED BY <2>2, <2>3, <2>5, <2>7 DEF RidersKnown, RequestsKept, Alone, DocumentsKnown
<1>10. ASSUME NEW a \in Accounts, NEW t \in R!DocumentTypes, R!Lapse(a, t)
       PROVE  RidersInv' /\ R!VettedFirst
  <2>1. /\ documents[a][t] # R!NoDocument /\ UNCHANGED <<drivers, reviewed, req, overlapped>>
        /\ documents' = [documents EXCEPT ![a][t].expired = TRUE]
    BY <1>10 DEF R!Lapse
  <2>2. R!VettedFirst
    BY <2>1 DEF R!VettedFirst
  <2> SUFFICES ASSUME RidersKnown PROVE RidersKnown'
    BY <2>1, <2>2 DEF RidersInv
  <2> PICK doc : doc = documents[a][t]
    OBVIOUS
  <2> PICK x : x = [file |-> doc.file, expired |-> TRUE, status |-> doc.status]
    OBVIOUS
  <2>3. /\ IsDocument(doc)
        /\ doc.status = "VERIFIED" => <<a, t, doc.file>> \in reviewed
    BY <2>1 DEF RidersKnown, DocumentsKnown
  <2>4. /\ [doc EXCEPT !.expired = TRUE] = x /\ IsDocument(x)
        /\ x.file = doc.file /\ x.status = doc.status
    <3>1. doc = [file |-> doc.file, expired |-> doc.expired, status |-> doc.status]
      BY <2>3 DEF IsDocument
    <3>2. \A e : [doc EXCEPT !.expired = e] = [file |-> doc.file, expired |-> e,
                                              status |-> doc.status]
      BY <3>1
    <3>3. x.file = doc.file /\ x.status = doc.status
      OBVIOUS
    <3>4. IsDocument(x)
      BY <2>3, <3>3 DEF IsDocument
    <3>5. [doc EXCEPT !.expired = TRUE] = x
      BY ONLY <3>2, x = [file |-> doc.file, expired |-> TRUE, status |-> doc.status], Zenon
    <3> QED BY <3>3, <3>4, <3>5
  <2>5. documents' = [documents EXCEPT ![a][t] = x]
    BY <2>1, <2>4
  <2>6. /\ DocumentsKnown'
        /\ \A b \in Accounts, s \in R!DocumentTypes :
            documents'[b][s] = IF b = a /\ s = t THEN x ELSE documents[b][s]
    <3>1. x.status = "VERIFIED" => <<a, t, x.file>> \in reviewed
      BY <2>3, <2>4
    <3>2. DocumentsKnown /\ UNCHANGED reviewed /\ IsDocument(x)
      BY <2>1, <2>4 DEF RidersKnown
    <3>3. DocumentsKnown'
      BY <2>5, <3>1, <3>2, DocumentWritten
    <3>4. \A b \in Accounts, s \in R!DocumentTypes :
            documents'[b][s] = IF b = a /\ s = t THEN x ELSE documents[b][s]
      BY <2>5, <3>2 DEF DocumentsKnown
    <3> QED BY <3>3, <3>4
  <2>7. \A b \in Accounts, s \in R!DocumentTypes :
            /\ IsDocument(documents[b][s]) => IsDocument(documents'[b][s])
            /\ documents'[b][s].file = documents[b][s].file
            /\ documents'[b][s].status = documents[b][s].status
    BY <2>4, <2>6
  <2>8. ASSUME NEW h \in Handlers PROVE RiderRequest(req[h])'
    <3>1. RiderRequest(req[h]) /\ req'[h] = req[h] /\ UNCHANGED <<drivers, reviewed>>
      BY <2>1 DEF RidersKnown
    <3>2. R!Needed(req[h].account)' = R!Needed(req[h].account)
      BY <2>1 DEF R!Needed
    <3> QED BY <2>7, <3>1, <3>2, NeededAreTypes DEF RiderRequest
  <2> QED BY <2>1, <2>6, <2>8 DEF RidersKnown, DriversKnown, RequestsKept, Alone
<1>11. CASE (R!Restart /\ UNCHANGED R!tables) \/ UNCHANGED R!vars
  <2>1. UNCHANGED <<drivers, documents, reviewed, overlapped>>
    BY <1>11 DEF R!Restart, R!vars, R!tables
  <2>2. RidersKnown => RidersKnown'
    <3>1. CASE UNCHANGED R!vars
      BY <2>1, <3>1 DEF R!vars, RidersKnown, RequestsKept, Alone, RiderRequest, DriversKnown,
                        DocumentsKnown, R!Needed
    <3>2. CASE R!Restart
      <4>1. RequestsKept' /\ Alone' /\ \A h \in Handlers : req'[h] = Idle
        BY <3>2, RestartsAlone DEF R!Restart, R!Idle, Restart, Idle
      <4>2. \A h \in Handlers : RiderRequest(req[h])'
        BY <4>1 DEF RiderRequest, Idle
      <4> QED BY <2>1, <4>1, <4>2 DEF RidersKnown, DriversKnown, DocumentsKnown
    <3> QED BY <1>11, <3>1, <3>2
  <2>3. R!VettedFirst
    BY <2>1 DEF R!VettedFirst
  <2> QED BY <2>1, <2>2, <2>3 DEF RidersInv
<1> QED BY <1>1, <1>8, <1>9, <1>10, <1>11 DEF R!Next

\* One request at a time, nobody is approved or put back on the road but with
\* every paper he needs, each in the very file that a reviewer loaded to verify
\* it, although their dates may lapse meanwhile; and who is not approved is off
\* the map.
THEOREM RidersAreVetted == Spec => OnTheRoadIsVetted
<1> DEFINE Inv == part = "riders" => RidersInv
           Off == part = "riders" => R!OthersAreOffline
           Vetted == part = "riders" => R!VettedFirst
<1>1. Init => Inv
  BY RidersStart DEF Init
<1>2. Inv /\ [Next]_vars => Inv' /\ [Vetted]_vars
  <2> SUFFICES ASSUME Inv, [Next]_vars PROVE Inv' /\ (Vetted \/ UNCHANGED vars)
    OBVIOUS
  <2>1. UNCHANGED R!vars => R!VettedFirst
    BY DEF R!vars, R!tables, R!VettedFirst
  <2> QED BY <2>1, PartStays, RidersOnly, RidersKept
<1>3. Inv => Off
  BY DEF RidersInv, RidersKnown, DriversKnown, R!OthersAreOffline, R!Registered
<1> QED BY <1>1, <1>2, <1>3, PTL DEF Spec, OnTheRoadIsVetted

-----------------------------------------------------------------------------
(* Notices: a strike that is counted was a failure.  What the counter of a *)
(* token says, with the failures that are yet to be counted, is no more    *)
(* than the sends that failed; and alone, than those since a success.      *)

LEMMA NoticesOnly == part = "notices" /\ [Next]_vars => [N!Next]_(N!vars)
BY DEF Next, vars, Only, RidersStep, SessionsStep, CodesStep, AddressesStep, BasketsStep,
       CampaignsStep, MenusStep, OptionsStep, ListingsStep, HoursStep, OffersStep, TicketsStep,
       NoticesStep, LiveStep, notices, N!vars, N!notices

IsDevice(x) ==
    /\ x = [user |-> x.user, isActive |-> x.isActive, failureCount |-> x.failureCount]
    /\ x.user \in Recipients /\ x.isActive \in BOOLEAN /\ x.failureCount \in Nat

DevicesTyped ==
    /\ devices = [t \in Tokens |-> devices[t]]
    /\ \A t \in N!Rows : IsDevice(devices[t])

\* What a send still has to do is about tokens that have a row.
PushRequest(r) ==
    /\ r = [kind |-> "push", user |-> r.user, left |-> r.left, delivered |-> r.delivered,
            refused |-> r.refused, gone |-> r.gone]
    /\ r.left \cup r.delivered \cup r.refused \cup r.gone \subseteq N!Rows
    /\ r.left \cap r.delivered = {}

NoticeRequest(r) ==
    /\ r.kind = "register" =>
        r.user \in Recipients /\ r.token \in Tokens /\ r.replaced \subseteq N!Rows
    /\ r.kind \in {"notify", "devices"} =>
        /\ r = [kind |-> r.kind, user |-> r.user, channels |-> r.channels]
        /\ r.user \in Recipients
    /\ r.kind = "push" => PushRequest(r)
    /\ r.kind = "retire" =>
        /\ r.token \in N!Rows /\ failed[r.token] >= maxPushFailures
        /\ r.next = Idle \/ (PushRequest(r.next) /\ r.next.left = {})

\* A failure that is yet to be counted against t.
Strikes(r, t) ==
    \/ r.kind = "push" /\ t \in r.refused
    \/ r.kind = "retire" /\ r.next.kind = "push" /\ t \in r.next.refused

Striking(t) == {h \in Handlers : Strikes(req[h], t)}

StrikesBacked ==
    \A t \in N!Rows :
        \/ failed[t] >= maxPushFailures
        \/ devices[t].failureCount + Cardinality(Striking(t)) <= failed[t]

NoticesKnown ==
    /\ RequestsKept /\ DevicesTyped
    /\ dead \subseteq Tokens
    /\ failed \in [Tokens -> Nat] /\ inARow \in [Tokens -> Nat]
    /\ \A m \in owed : m.user \in Recipients
    /\ \A h \in Handlers : NoticeRequest(req[h])
    /\ StrikesBacked

\* What a request has read is still so when it is alone.
NoticeFresh(r) ==
    /\ r.kind = "register" /\ r.token \notin Anonymous =>
            r.replaced = N!Installed(r.user) \ {r.token}
    /\ r.kind = "push" => r.left \subseteq N!ActiveOf(r.user)
    /\ r.kind = "retire" => inARow[r.token] >= maxPushFailures

StrikesInARow ==
    \A t \in N!Rows :
        \/ inARow[t] >= maxPushFailures
        \/ devices[t].failureCount + Cardinality(Striking(t)) <= inARow[t]

OneTokenOfEach == \A u \in Recipients : \A s, t \in N!Installed(u) : s = t

NoticesAlone ==
    /\ Alone /\ StrikesInARow /\ OneTokenOfEach
    /\ \A h \in Handlers : NoticeFresh(req[h])

NoticesInv == NoticesKnown /\ (~ overlapped => NoticesAlone)

LEMMA NoticeCounts == \A set : N!Cardinality(set) = Cardinality(set)
BY DEF N!Cardinality, Cardinality

LEMMA IdleNotice == NoticeRequest(Idle) /\ NoticeFresh(Idle) /\ \A t : ~ Strikes(Idle, t)
BY DEF NoticeRequest, NoticeFresh, Strikes, Idle

LEMMA DeviceRow ==
    ASSUME NEW u \in Recipients, NEW a \in BOOLEAN, NEW n \in Nat
    PROVE  LET x == [user |-> u, isActive |-> a, failureCount |-> n]
           IN  IsDevice(x) /\ x # NULL
BY RowsAssumption DEF IsDevice

LEMMA StrikingCounted ==
    ASSUME NEW t
    PROVE  /\ IsFiniteSet(Striking(t)) /\ Cardinality(Striking(t)) \in Nat
           /\ IsFiniteSet(Striking(t)') /\ Cardinality(Striking(t)') \in Nat
<1>1. IsFiniteSet(Handlers) /\ Striking(t) \subseteq Handlers /\ Striking(t)' \subseteq Handlers
  BY PlatformAssumption DEF Striking
<1>2. IsFiniteSet(Striking(t)) /\ IsFiniteSet(Striking(t)')
  BY <1>1, FS_Subset
<1> QED BY <1>2, FS_CardinalityType

\* One request goes on with r: a strike is counted, another comes to be counted.
LEMMA StrikerGoesOn ==
    ASSUME RequestsKept, NEW h \in Handlers, NEW r, req' = [req EXCEPT ![h] = r], NEW t
    PROVE  /\ Strikes(req[h], t) => Cardinality(Striking(t)) >= 1
           /\ (Strikes(r, t) => Strikes(req[h], t))
                => Cardinality(Striking(t)') <= Cardinality(Striking(t))
           /\ Cardinality(Striking(t)') <= Cardinality(Striking(t)) + 1
           /\ ~ Strikes(r, t) /\ Strikes(req[h], t)
                => Cardinality(Striking(t)') = Cardinality(Striking(t)) - 1
<1>1. \A g \in Handlers : req'[g] = IF g = h THEN r ELSE req[g]
  BY DEF RequestsKept
<1>2. (Strikes(r, t) <=> Strikes(req[h], t)) => Striking(t)' = Striking(t)
  BY <1>1 DEF Striking
<1>3. Strikes(r, t) /\ ~ Strikes(req[h], t)
        => h \notin Striking(t) /\ Striking(t)' = Striking(t) \cup {h}
  BY <1>1 DEF Striking
<1>4. Strikes(req[h], t) => h \in Striking(t)
  BY DEF Striking
<1>5. ~ Strikes(r, t) /\ Strikes(req[h], t) => Striking(t)' = Striking(t) \ {h}
  BY <1>1 DEF Striking
<1>6. IsFiniteSet(Striking(t)) /\ Cardinality(Striking(t)) \in Nat
  BY StrikingCounted
<1>7. Strikes(r, t) /\ ~ Strikes(req[h], t)
        => Cardinality(Striking(t)') = Cardinality(Striking(t)) + 1
  BY <1>3, <1>6, FS_AddElement
<1>8. ~ Strikes(r, t) /\ Strikes(req[h], t)
        => Cardinality(Striking(t)') = Cardinality(Striking(t)) - 1
  BY <1>4, <1>5, <1>6, FS_RemoveElement
<1>9. Strikes(req[h], t) => Cardinality(Striking(t)) >= 1
  <2>1. Striking(t) # {} => Cardinality(Striking(t)) # 0
    BY <1>6, FS_EmptySet
  <2>2. Strikes(req[h], t) => Cardinality(Striking(t)) # 0
    BY <1>4, <2>1
  <2> QED BY <1>6, <2>2
<1> QED BY <1>2, <1>6, <1>7, <1>8, <1>9

\* No row, no strikes.
LEMMA NoStrikesYet ==
    ASSUME NoticesKnown, NEW t, t \notin N!Rows
    PROVE  Cardinality(Striking(t)) = 0
<1>1. ASSUME NEW h \in Handlers, Strikes(req[h], t) PROVE FALSE
  <2>1. NoticeRequest(req[h])
    BY DEF NoticesKnown
  <2>2. PICK r : PushRequest(r) /\ t \in r.refused
    <3>1. CASE req[h].kind = "push" /\ t \in req[h].refused
      BY <2>1, <3>1 DEF NoticeRequest
    <3>2. CASE req[h].kind = "retire" /\ req[h].next.kind = "push" /\ t \in req[h].next.refused
      <4>1. req[h].next # Idle
        BY <3>2 DEF Idle
      <4> QED BY <2>1, <3>2, <4>1 DEF NoticeRequest
    <3> QED BY <1>1, <3>1, <3>2 DEF Strikes
  <2> QED BY <2>2 DEF PushRequest
<1>2. Striking(t) = {}
  BY <1>1 DEF Striking
<1> QED BY <1>2, FS_EmptySet

\* One request goes on with r, and the tables only grow.
LEMMA NoticesGoOn ==
    ASSUME NoticesKnown, NEW h \in Handlers, NEW r, req' = [req EXCEPT ![h] = r],
           NoticeRequest(r)', DevicesTyped', N!Rows \subseteq N!Rows',
           dead \subseteq dead', dead' \subseteq Tokens,
           failed' \in [Tokens -> Nat], inARow' \in [Tokens -> Nat],
           \A t \in Tokens : failed'[t] >= failed[t],
           \A m \in owed' : m.user \in Recipients,
           StrikesBacked'
    PROVE  NoticesKnown'
<1>1. RequestsKept' /\ \A g \in Handlers : req'[g] = IF g = h THEN r ELSE req[g]
  BY DEF NoticesKnown, RequestsKept
<1>2. ASSUME NEW x, PushRequest(x) PROVE PushRequest(x)'
  BY <1>2 DEF PushRequest
<1>3. ASSUME NEW g \in Handlers, g # h PROVE NoticeRequest(req[g])'
  <2> PICK x : x = req[g]
    OBVIOUS
  <2>1. NoticeRequest(x) /\ req'[g] = x
    BY <1>1, <1>3 DEF NoticesKnown
  <2>2. x.kind = "retire" => x.token \in N!Rows' /\ failed'[x.token] >= maxPushFailures
    <3> SUFFICES ASSUME x.kind = "retire"
                 PROVE  x.token \in N!Rows' /\ failed'[x.token] >= maxPushFailures
      OBVIOUS
    <3>1. x.token \in N!Rows /\ x.token \in Tokens /\ failed[x.token] >= maxPushFailures
      BY <2>1 DEF NoticeRequest, N!Rows
    <3>2. failed[x.token] \in Nat /\ failed'[x.token] \in Nat /\ maxPushFailures \in Nat
      BY <3>1, PlatformAssumption DEF NoticesKnown
    <3> QED BY <3>1, <3>2
  <2>3. x.kind = "retire" => x.next = Idle \/ (PushRequest(x.next)' /\ x.next.left = {})
    BY <1>2, <2>1 DEF NoticeRequest
  <2>4. x.kind = "push" => PushRequest(x)'
    BY <1>2, <2>1 DEF NoticeRequest
  <2>5. /\ x.kind = "register" =>
            x.user \in Recipients /\ x.token \in Tokens /\ x.replaced \subseteq N!Rows'
        /\ x.kind \in {"notify", "devices"} =>
            /\ x = [kind |-> x.kind, user |-> x.user, channels |-> x.channels]
            /\ x.user \in Recipients
    BY <2>1 DEF NoticeRequest
  <2>6. NoticeRequest(x)'
    BY <2>2, <2>3, <2>4, <2>5 DEF NoticeRequest
  <2> QED BY <2>1, <2>6 DEF NoticeRequest
<1>4. \A g \in Handlers : NoticeRequest(req[g])'
  <2>1. NoticeRequest(req[h])'
    <3>1. req'[h] = r
      BY <1>1
    <3> QED BY <3>1 DEF NoticeRequest
  <2> QED BY <1>3, <2>1
<1> QED BY <1>1, <1>4 DEF NoticesKnown
\* No request comes to hold a strike: what the counters say stays backed by n.
LEMMA StrikesStay ==
    ASSUME NoticesKnown, NEW h \in Handlers, NEW r, req' = [req EXCEPT ![h] = r],
           NEW t \in N!Rows', Strikes(r, t) => Strikes(req[h], t), DevicesTyped',
           t \in N!Rows => devices'[t].failureCount <= devices[t].failureCount,
           t \notin N!Rows => devices'[t].failureCount = 0,
           NEW n \in Nat,
           t \in N!Rows => \/ n >= maxPushFailures
                           \/ devices[t].failureCount + Cardinality(Striking(t)) <= n
    PROVE  \/ n >= maxPushFailures
           \/ devices'[t].failureCount + Cardinality(Striking(t)') <= n
<1>1. /\ Cardinality(Striking(t)) \in Nat /\ Cardinality(Striking(t)') \in Nat
      /\ Cardinality(Striking(t)') <= Cardinality(Striking(t))
  BY StrikingCounted, StrikerGoesOn DEF NoticesKnown
<1>2. devices'[t].failureCount \in Nat /\ maxPushFailures \in Nat
  BY PlatformAssumption DEF DevicesTyped, IsDevice
<1>3. CASE t \in N!Rows
  <2>1. devices[t].failureCount \in Nat
    BY <1>3 DEF NoticesKnown, DevicesTyped, IsDevice
  <2> QED BY <1>1, <1>2, <1>3, <2>1
<1>4. CASE t \notin N!Rows
  <2>1. Cardinality(Striking(t)) = 0
    BY <1>4, NoStrikesYet
  <2> QED BY <1>1, <1>4, <2>1
<1> QED BY <1>3, <1>4

LEMMA NoticesAloneGoOn ==
    ASSUME NEW h \in Handlers, NEW r, OnlyMoves(h, r), NoticeFresh(r)', StrikesInARow',
           OneTokenOfEach'
    PROVE  NoticesAlone'
<1>1. NoticeFresh(Idle)'
  BY DEF NoticeFresh, Idle
<1>2. ASSUME NEW g \in Handlers PROVE NoticeFresh(req[g])'
  <2>1. CASE g = h
    BY <2>1 DEF OnlyMoves, NoticeFresh
  <2>2. CASE g # h
    BY <1>1, <2>2 DEF OnlyMoves, NoticeFresh
  <2> QED BY <2>1, <2>2
<1> QED BY <1>2 DEF NoticesAlone, OnlyMoves

\* A request that adds nothing to what it has delivered sends nothing, and
\* neither do the others.
LEMMA NothingSent ==
    ASSUME NoticesKnown, NEW h \in Handlers, NEW r, req' = [req EXCEPT ![h] = r],
           r.kind = "push" /\ req[h].kind = "push" => r.delivered \subseteq req[h].delivered
    PROVE  \A g \in Handlers, t \in Tokens : ~ N!Pushing(g, t)
<1> SUFFICES ASSUME NEW g \in Handlers, NEW t \in Tokens, N!Pushing(g, t) PROVE FALSE
  OBVIOUS
<1>1. /\ req[g].kind = "push" /\ t \in req[g].left
      /\ req'[g].kind = "push" /\ t \in req'[g].delivered
  BY DEF N!Pushing
<1>2. req[g].left \cap req[g].delivered = {}
  BY <1>1 DEF NoticesKnown, NoticeRequest, PushRequest
<1>3. req'[g] = IF g = h THEN r ELSE req[g]
  BY DEF NoticesKnown, RequestsKept
<1> QED BY <1>1, <1>2, <1>3

\* A request that looks, and writes no device, goes on with r.
LEMMA NoticeLooks ==
    ASSUME NoticesInv, NEW h \in Handlers, NEW r, req' = [req EXCEPT ![h] = r],
           UNCHANGED <<devices, dead, failed, inARow>>, \A m \in owed' : m.user \in Recipients,
           NoticeRequest(r), \A t : ~ Strikes(r, t),
           ~ overlapped' => ~ overlapped /\ OnlyMoves(h, r) /\ NoticeFresh(r),
           r.kind = "push" => req[h].kind # "push"
    PROVE  NoticesInv' /\ N!SendsAndGivesUp
<1>1. NoticesKnown
  BY DEF NoticesInv
<1>2. N!Rows' = N!Rows /\ \A u : N!ActiveOf(u)' = N!ActiveOf(u)
  BY DEF N!Rows, N!ActiveOf
<1>3. DevicesTyped'
  BY <1>1, <1>2 DEF NoticesKnown, DevicesTyped
<1>4. ASSUME NEW t \in N!Rows
      PROVE  /\ t \in Tokens /\ failed[t] \in Nat /\ inARow[t] \in Nat
             /\ devices'[t].failureCount <= devices[t].failureCount
  <2>1. t \in Tokens /\ devices[t].failureCount \in Nat
    BY <1>1 DEF NoticesKnown, DevicesTyped, IsDevice, N!Rows
  <2> QED BY <1>1, <2>1 DEF NoticesKnown
<1>5. StrikesBacked'
  <2> SUFFICES ASSUME NEW t \in N!Rows
               PROVE  \/ failed[t] >= maxPushFailures
                      \/ devices'[t].failureCount + Cardinality(Striking(t)') <= failed[t]
    BY <1>2 DEF StrikesBacked
  <2>1. \/ failed[t] >= maxPushFailures
        \/ devices[t].failureCount + Cardinality(Striking(t)) <= failed[t]
    BY <1>1 DEF NoticesKnown, StrikesBacked
  <2> QED BY <1>1, <1>2, <1>3, <1>4, <2>1, StrikesStay
<1>6. NoticesKnown'
  <2>1. NoticeRequest(r)'
    BY <1>2 DEF NoticeRequest, PushRequest
  <2>2. /\ N!Rows \subseteq N!Rows' /\ dead \subseteq dead' /\ dead' \subseteq Tokens
        /\ failed' \in [Tokens -> Nat] /\ inARow' \in [Tokens -> Nat]
        /\ \A t \in Tokens : failed'[t] >= failed[t]
    BY <1>1, <1>2 DEF NoticesKnown
  <2> QED BY <1>1, <1>3, <1>5, <2>1, <2>2, NoticesGoOn
<1>7. ASSUME ~ overlapped' PROVE NoticesAlone'
  <2>1. NoticesAlone
    BY <1>7 DEF NoticesInv
  <2>2. StrikesInARow'
    <3> SUFFICES ASSUME NEW t \in N!Rows
                 PROVE  \/ inARow[t] >= maxPushFailures
                        \/ devices'[t].failureCount + Cardinality(Striking(t)') <= inARow[t]
      BY <1>2 DEF StrikesInARow
    <3>1. \/ inARow[t] >= maxPushFailures
          \/ devices[t].failureCount + Cardinality(Striking(t)) <= inARow[t]
      BY <2>1 DEF NoticesAlone, StrikesInARow
    <3> QED BY <1>1, <1>2, <1>3, <1>4, <3>1, StrikesStay
  <2>3. OneTokenOfEach'
    BY <1>2, <2>1 DEF NoticesAlone, OneTokenOfEach, N!Installed
  <2>4. NoticeFresh(r)'
    BY <1>2, <1>7 DEF NoticeFresh, N!Installed
  <2> QED BY <1>7, <2>2, <2>3, <2>4, NoticesAloneGoOn
<1>8. \A t \in Tokens : ~ N!Retiring(t)
  BY DEF N!Retiring
<1>9. \A g \in Handlers, t \in Tokens : ~ N!Pushing(g, t)
  BY <1>1, NothingSent
<1> QED BY <1>6, <1>7, <1>8, <1>9 DEF NoticesInv, N!SendsAndGivesUp

LEMMA DeviceRegistering ==
    ASSUME NoticesInv, NEW h \in Handlers, NEW u \in Recipients, NEW t \in Tokens,
           N!RegisterDevice(h, u, t)
    PROVE  NoticesInv' /\ N!SendsAndGivesUp
<1> PICK r : r = [kind |-> "register", user |-> u, token |-> t,
                  replaced |-> IF t \in Anonymous THEN {} ELSE N!Installed(u) \ {t}]
  OBVIOUS
<1>1. Begin(h, r) /\ UNCHANGED <<devices, dead, failed, inARow, owed>>
  BY DEF N!RegisterDevice, N!Begin, N!Idle, Begin, Idle, N!notices
<1>2. req' = [req EXCEPT ![h] = r] /\ req[h] = Idle
  BY <1>1 DEF Begin
<1>3. ~ overlapped' => ~ overlapped /\ OnlyMoves(h, r)
  BY <1>1, BeginsAlone DEF NoticesInv, NoticesKnown
<1>4. NoticeRequest(r)
  BY DEF NoticeRequest, N!Installed, N!ActiveOf
<1>5. NoticeFresh(r) /\ \A s : ~ Strikes(r, s)
  BY DEF NoticeFresh, Strikes
<1>6. \A m \in owed' : m.user \in Recipients
  BY <1>1 DEF NoticesInv, NoticesKnown
<1> QED BY <1>1, <1>2, <1>3, <1>4, <1>5, <1>6, NoticeLooks

LEMMA NotifyBegins ==
    ASSUME NoticesInv, NEW h \in Handlers, NEW m, N!Notify(h, m)
    PROVE  NoticesInv' /\ N!SendsAndGivesUp
<1> PICK r : r = [kind |-> "notify", user |-> m.user, channels |-> preferences[m.user]]
  OBVIOUS
<1>1. Begin(h, r) /\ UNCHANGED <<devices, dead, failed, inARow>>
  BY DEF N!Notify, N!Begin, N!Idle, Begin, Idle
<1>2. req' = [req EXCEPT ![h] = r] /\ req[h] = Idle
  BY <1>1 DEF Begin
<1>3. ~ overlapped' => ~ overlapped /\ OnlyMoves(h, r)
  BY <1>1, BeginsAlone DEF NoticesInv, NoticesKnown
<1>4. m.user \in Recipients /\ \A e \in owed' : e.user \in Recipients
  BY DEF NoticesInv, NoticesKnown, N!Notify
<1>5. NoticeRequest(r) /\ NoticeFresh(r) /\ \A s : ~ Strikes(r, s)
  BY <1>4 DEF NoticeRequest, NoticeFresh, Strikes
<1>6. r.kind # "push"
  OBVIOUS
<1> QED BY <1>1, <1>2, <1>3, <1>4, <1>5, <1>6, NoticeLooks

\* A request goes on from a step that wrote no device.
LEMMA NoticeContinues ==
    ASSUME NoticesInv, NEW h \in Handlers, NEW r, Continue(h, r),
           req[h].kind \notin {"idle", "push"},
           UNCHANGED <<devices, dead, failed, inARow, owed>>,
           NoticeRequest(r), NoticeFresh(r), \A t : ~ Strikes(r, t)
    PROVE  NoticesInv' /\ N!SendsAndGivesUp
<1>1. req' = [req EXCEPT ![h] = r] /\ overlapped' = overlapped
  BY DEF Continue
<1>2. ~ overlapped' => ~ overlapped /\ OnlyMoves(h, r)
  BY <1>1, GoesOnAlone DEF NoticesInv, NoticesKnown, NoticesAlone
<1>3. \A m \in owed' : m.user \in Recipients
  BY DEF NoticesInv, NoticesKnown
<1> QED BY <1>1, <1>2, <1>3, NoticeLooks

LEMMA NoticeWritten ==
    ASSUME NoticesInv, NEW h \in Handlers, N!WriteNotice(h)
    PROVE  NoticesInv' /\ N!SendsAndGivesUp
<1> PICK q : q = req[h]
  OBVIOUS
<1>1. /\ q.kind = "notify" /\ NoticeRequest(q)
      /\ UNCHANGED <<devices, dead, failed, inARow, owed>>
  BY DEF N!WriteNotice, NoticesInv, NoticesKnown
<1>2. q = [kind |-> "notify", user |-> q.user, channels |-> q.channels] /\ q.user \in Recipients
  BY <1>1 DEF NoticeRequest
<1>3. CASE "PUSH" \in q.channels
  <2> PICK r : r = [kind |-> "devices", user |-> q.user, channels |-> q.channels]
    OBVIOUS
  <2>1. [q EXCEPT !.kind = "devices"] = r
    BY <1>2
  <2>2. Continue(h, r)
    BY <1>3, <2>1 DEF N!WriteNotice, N!Continue, Continue
  <2>3. NoticeRequest(r) /\ NoticeFresh(r) /\ \A s : ~ Strikes(r, s)
    BY <1>2 DEF NoticeRequest, NoticeFresh, Strikes
  <2> QED BY <1>1, <2>2, <2>3, NoticeContinues
<1>4. CASE "PUSH" \notin q.channels
  <2>1. Continue(h, Idle)
    BY <1>4 DEF N!WriteNotice, N!Continue, Continue, N!Idle, Idle
  <2> QED BY <1>1, <2>1, IdleNotice, NoticeContinues
<1> QED BY <1>3, <1>4

LEMMA DevicesFound ==
    ASSUME NoticesInv, NEW h \in Handlers, N!FindDevices(h)
    PROVE  NoticesInv' /\ N!SendsAndGivesUp
<1> PICK r : r = [kind |-> "push", user |-> req[h].user, left |-> N!ActiveOf(req[h].user),
                  delivered |-> {}, refused |-> {}, gone |-> {}]
  OBVIOUS
<1>1. /\ req[h].kind = "devices" /\ UNCHANGED <<devices, dead, failed, inARow, owed>>
      /\ Continue(h, Idle) \/ Continue(h, r)
  BY DEF N!FindDevices, N!Continue, Continue, N!Idle, Idle, N!notices
<1>2. r.left \subseteq N!Rows
  BY DEF N!ActiveOf
<1>3. PushRequest(r)
  BY <1>2 DEF PushRequest
<1>4. NoticeRequest(r) /\ NoticeFresh(r) /\ \A s : ~ Strikes(r, s)
  BY <1>3 DEF NoticeRequest, NoticeFresh, Strikes
<1>5. req[h].kind \notin {"idle", "push"}
  BY <1>1
<1> QED BY <1>1, <1>4, <1>5, IdleNotice, NoticeContinues

LEMMA DeadlockEnds ==
    ASSUME NoticesInv, NEW h \in Handlers, N!DeadlockFound(h)
    PROVE  NoticesInv' /\ N!SendsAndGivesUp
<1>1. /\ req[h].kind = "register" /\ UNCHANGED <<devices, dead, failed, inARow, owed>>
      /\ Continue(h, Idle)
  BY DEF N!DeadlockFound, N!Finish, N!Continue, Continue, N!Idle, Idle, N!notices
<1> QED BY <1>1, IdleNotice, NoticeContinues
LEMMA SwitchedOff ==
    ASSUME NEW x, IsDevice(x), NEW y, y = [x EXCEPT !.isActive = FALSE]
    PROVE  /\ IsDevice(y) /\ y # NULL
           /\ y.user = x.user /\ y.isActive = FALSE /\ y.failureCount = x.failureCount
<1>1. x = [user |-> x.user, isActive |-> x.isActive, failureCount |-> x.failureCount]
  BY DEF IsDevice
<1>2. y.user = x.user /\ y.isActive = FALSE /\ y.failureCount = x.failureCount
  BY <1>1
<1>3. y = [user |-> y.user, isActive |-> y.isActive, failureCount |-> y.failureCount]
  BY <1>1
<1>4. y.user \in Recipients /\ y.isActive \in BOOLEAN /\ y.failureCount \in Nat
  BY <1>2 DEF IsDevice
<1>5. IsDevice(y) /\ y # NULL
  BY <1>3, <1>4, DeviceRow
<1> QED BY <1>2, <1>5

LEMMA Deactivates ==
    ASSUME DevicesTyped, NEW ts, ts \subseteq N!Rows, devices' = N!Deactivated(ts)
    PROVE  /\ DevicesTyped' /\ N!Rows' = N!Rows
           /\ \A t \in N!Rows : /\ devices'[t].failureCount = devices[t].failureCount
                                /\ t \notin ts => devices'[t] = devices[t]
           /\ \A u : N!ActiveOf(u)' \subseteq N!ActiveOf(u) \ ts
<1>1. /\ devices' = [t \in Tokens |-> devices'[t]]
      /\ \A t \in Tokens : devices'[t] = IF t \in ts THEN [devices[t] EXCEPT !.isActive = FALSE]
                                         ELSE devices[t]
  BY DEF N!Deactivated
<1>2. \A t \in N!Rows : t \in Tokens
  BY DEF N!Rows
<1>3. ASSUME NEW t \in ts
      PROVE  /\ IsDevice(devices'[t]) /\ devices'[t] # NULL
             /\ devices'[t].user = devices[t].user /\ devices'[t].isActive = FALSE
             /\ devices'[t].failureCount = devices[t].failureCount
  <2>1. IsDevice(devices[t]) /\ devices'[t] = [devices[t] EXCEPT !.isActive = FALSE]
    BY <1>1, <1>2 DEF DevicesTyped
  <2> QED BY <2>1, SwitchedOff
<1>4. N!Rows' = N!Rows
  <2>1. ASSUME NEW t \in Tokens PROVE (devices'[t] # NULL) <=> (devices[t] # NULL)
    <3>1. CASE t \in ts
      <4>1. devices[t] # NULL
        BY <3>1 DEF N!Rows
      <4> QED BY <1>3, <3>1, <4>1
    <3>2. CASE t \notin ts
      BY <1>1, <3>2
    <3> QED BY <3>1, <3>2
  <2> QED BY <2>1 DEF N!Rows
<1>5. ASSUME NEW t \in N!Rows
      PROVE  /\ IsDevice(devices'[t]) /\ devices'[t].failureCount = devices[t].failureCount
             /\ devices'[t].user = devices[t].user
             /\ t \notin ts => devices'[t] = devices[t]
             /\ t \in ts => devices'[t].isActive = FALSE
  <2>1. CASE t \in ts
    BY <1>3, <2>1
  <2>2. CASE t \notin ts
    <3>1. devices'[t] = devices[t]
      BY <1>1, <1>2, <2>2
    <3> QED BY <2>2, <3>1 DEF DevicesTyped
  <2> QED BY <2>1, <2>2
<1>6. ASSUME NEW u, NEW t \in N!ActiveOf(u)' PROVE t \in N!ActiveOf(u) \ ts
  <2>1. t \in N!Rows /\ devices'[t].user = u /\ devices'[t].isActive
    BY <1>4 DEF N!ActiveOf
  <2> QED BY <1>5, <2>1 DEF N!ActiveOf
<1>7. DevicesTyped'
  BY <1>1, <1>4, <1>5 DEF DevicesTyped
<1> QED BY <1>4, <1>5, <1>6, <1>7

LEMMA CountWritten ==
    ASSUME DevicesTyped, NEW t \in N!Rows, NEW n \in Nat,
           devices' = [devices EXCEPT ![t].failureCount = n]
    PROVE  /\ DevicesTyped' /\ N!Rows' = N!Rows
           /\ \A s \in N!Rows :
                /\ devices'[s].failureCount = IF s = t THEN n ELSE devices[s].failureCount
                /\ devices'[s].isActive = devices[s].isActive
           /\ \A u : N!ActiveOf(u)' = N!ActiveOf(u)
<1> PICK x : x = devices[t]
  OBVIOUS
<1>1. /\ x = [user |-> x.user, isActive |-> x.isActive, failureCount |-> x.failureCount]
      /\ x.user \in Recipients /\ x.isActive \in BOOLEAN /\ t \in Tokens /\ x # NULL
  BY DEF DevicesTyped, IsDevice, N!Rows
<1> PICK y : y = [user |-> x.user, isActive |-> x.isActive, failureCount |-> n]
  OBVIOUS
<1>2. [x EXCEPT !.failureCount = n] = y
  BY <1>1
<1>3. IsDevice(y) /\ y # NULL
  BY <1>1, DeviceRow
<1>4. devices' = [devices EXCEPT ![t] = [x EXCEPT !.failureCount = n]]
  OBVIOUS
<1>5. /\ devices' = [s \in Tokens |-> devices'[s]]
      /\ \A s \in Tokens : devices'[s] = IF s = t THEN y ELSE devices[s]
  BY <1>2, <1>4 DEF DevicesTyped
<1>6. N!Rows' = N!Rows
  <2>1. \A s \in Tokens : (devices'[s] # NULL) <=> (devices[s] # NULL)
    BY <1>1, <1>3, <1>5
  <2> QED BY <2>1 DEF N!Rows
<1>7. ASSUME NEW s \in N!Rows
      PROVE  /\ IsDevice(devices'[s]) /\ devices'[s].isActive = devices[s].isActive
             /\ devices'[s].user = devices[s].user
             /\ devices'[s].failureCount = IF s = t THEN n ELSE devices[s].failureCount
  <2>1. s \in Tokens /\ IsDevice(devices[s])
    BY DEF N!Rows, DevicesTyped
  <2>2. CASE s = t
    <3>1. y.user = x.user /\ y.isActive = x.isActive /\ y.failureCount = n
      OBVIOUS
    <3> QED BY <1>3, <1>5, <2>1, <2>2, <3>1
  <2>3. CASE s # t
    BY <1>5, <2>1, <2>3
  <2> QED BY <2>2, <2>3
<1>8. \A u : N!ActiveOf(u)' = N!ActiveOf(u)
  BY <1>6, <1>7, Zenon DEF N!ActiveOf
<1>9. DevicesTyped'
  BY <1>5, <1>6, <1>7 DEF DevicesTyped
<1> QED BY <1>6, <1>7, <1>8, <1>9

LEMMA TokensFewer ==
    ASSUME OneTokenOfEach, \A u : N!ActiveOf(u)' \subseteq N!ActiveOf(u)
    PROVE  OneTokenOfEach'
BY DEF OneTokenOfEach, N!Installed

\* A step that gives up at most the tokens ts, and counts no failure of a send.
LEMMA NoticesDeactivate ==
    ASSUME NoticesInv, NEW h \in Handlers, NEW r, NEW ts, ts \subseteq N!Rows,
           devices' = N!Deactivated(ts), Continue(h, r), req[h].kind # "idle",
           UNCHANGED <<dead, failed, inARow, owed>>,
           NoticeRequest(r), \A t : Strikes(r, t) => Strikes(req[h], t),
           ~ overlapped => r.kind \in {"idle", "push"} /\ (r.kind = "push" => r.left = {}),
           r.kind = "push" /\ req[h].kind = "push" => r.delivered \subseteq req[h].delivered,
           \A t \in ts : \/ req[h].kind = "push" /\ t \in req[h].gone
                         \/ /\ failed[t] >= maxPushFailures
                            /\ overlapped \/ inARow[t] >= maxPushFailures
    PROVE  NoticesInv' /\ N!SendsAndGivesUp
<1>1. /\ NoticesKnown /\ req' = [req EXCEPT ![h] = r] /\ overlapped' = overlapped
      /\ DevicesTyped /\ RequestsKept
  BY DEF NoticesInv, NoticesKnown, Continue
<1>2. /\ DevicesTyped' /\ N!Rows' = N!Rows
      /\ \A t \in N!Rows : /\ devices'[t].failureCount = devices[t].failureCount
                           /\ t \notin ts => devices'[t] = devices[t]
      /\ \A u : N!ActiveOf(u)' \subseteq N!ActiveOf(u)
  BY <1>1, Deactivates
<1>3. ASSUME NEW t \in N!Rows
      PROVE  /\ t \in Tokens /\ failed[t] \in Nat /\ inARow[t] \in Nat
             /\ devices'[t].failureCount <= devices[t].failureCount
  <2>1. t \in Tokens /\ devices[t].failureCount \in Nat
    BY <1>1 DEF DevicesTyped, IsDevice, N!Rows
  <2> QED BY <1>1, <1>2, <2>1 DEF NoticesKnown
<1>4. StrikesBacked'
  <2> SUFFICES ASSUME NEW t \in N!Rows
               PROVE  \/ failed[t] >= maxPushFailures
                      \/ devices'[t].failureCount + Cardinality(Striking(t)') <= failed[t]
    BY <1>2 DEF StrikesBacked
  <2>1. \/ failed[t] >= maxPushFailures
        \/ devices[t].failureCount + Cardinality(Striking(t)) <= failed[t]
    BY <1>1 DEF NoticesKnown, StrikesBacked
  <2> QED BY <1>1, <1>2, <1>3, <2>1, StrikesStay
<1>5. NoticesKnown'
  <2>1. NoticeRequest(r)'
    BY <1>2 DEF NoticeRequest, PushRequest
  <2>2. /\ N!Rows \subseteq N!Rows' /\ dead \subseteq dead' /\ dead' \subseteq Tokens
        /\ failed' \in [Tokens -> Nat] /\ inARow' \in [Tokens -> Nat]
        /\ \A t \in Tokens : failed'[t] >= failed[t]
        /\ \A m \in owed' : m.user \in Recipients
    BY <1>1, <1>2 DEF NoticesKnown
  <2> QED BY <1>1, <1>2, <1>4, <2>1, <2>2, NoticesGoOn
<1>6. ASSUME ~ overlapped' PROVE NoticesAlone'
  <2>1. NoticesAlone
    BY <1>1, <1>6 DEF NoticesInv
  <2>2. StrikesInARow'
    <3> SUFFICES ASSUME NEW t \in N!Rows
                 PROVE  \/ inARow[t] >= maxPushFailures
                        \/ devices'[t].failureCount + Cardinality(Striking(t)') <= inARow[t]
      BY <1>2 DEF StrikesInARow
    <3>1. \/ inARow[t] >= maxPushFailures
          \/ devices[t].failureCount + Cardinality(Striking(t)) <= inARow[t]
      BY <2>1 DEF NoticesAlone, StrikesInARow
    <3> QED BY <1>1, <1>2, <1>3, <3>1, StrikesStay
  <2>3. OneTokenOfEach'
    BY <1>2, <2>1, TokensFewer DEF NoticesAlone
  <2>4. NoticeFresh(r)'
    BY <1>1, <1>6 DEF NoticeFresh
  <2>5. OnlyMoves(h, r)
    BY <1>1, <2>1, GoesOnAlone DEF NoticesAlone
  <2> QED BY <2>2, <2>3, <2>4, <2>5, NoticesAloneGoOn
<1>7. ASSUME NEW t \in Tokens, N!Retiring(t)
      PROVE  \/ N!SaidGone(t)
             \/ failed[t] >= maxPushFailures /\ (overlapped' \/ inARow[t] >= maxPushFailures)
  <2>1. t \in ts
    BY <1>2, <1>7 DEF N!Retiring
  <2> QED BY <1>1, <2>1 DEF N!SaidGone
<1>8. \A g \in Handlers, t \in Tokens : ~ N!Pushing(g, t)
  BY <1>1, NothingSent
<1> QED BY <1>5, <1>6, <1>7, <1>8 DEF NoticesInv, N!SendsAndGivesUp

LEMMA TokenRetired ==
    ASSUME NoticesInv, NEW h \in Handlers, N!RetireToken(h)
    PROVE  NoticesInv' /\ N!SendsAndGivesUp
<1> PICK q : q = req[h]
  OBVIOUS
<1> PICK r : r = q.next
  OBVIOUS
<1> PICK ts : ts = {q.token}
  OBVIOUS
<1>1. /\ q.kind = "retire" /\ NoticeRequest(q) /\ Continue(h, r)
      /\ devices' = N!Deactivated(ts) /\ UNCHANGED <<dead, failed, inARow, owed>>
  BY DEF N!RetireToken, NoticesInv, NoticesKnown, N!Continue, Continue
<1>2. /\ q.token \in N!Rows /\ failed[q.token] >= maxPushFailures
      /\ r = Idle \/ (PushRequest(r) /\ r.left = {})
  BY <1>1 DEF NoticeRequest
<1>3. r.kind = "idle" \/ (r.kind = "push" /\ PushRequest(r) /\ r.left = {})
  BY <1>2 DEF Idle, PushRequest
<1>4. NoticeRequest(r) /\ \A t : Strikes(r, t) => Strikes(q, t)
  BY <1>1, <1>3 DEF NoticeRequest, Strikes
<1>5. overlapped \/ inARow[q.token] >= maxPushFailures
  BY <1>1 DEF NoticesInv, NoticesAlone, NoticeFresh
<1>6. ts \subseteq N!Rows /\ req[h].kind \notin {"idle", "push"}
  BY <1>1, <1>2
<1> QED BY <1>1, <1>2, <1>3, <1>4, <1>5, <1>6, NoticesDeactivate
LEMMA PushShape ==
    ASSUME NEW y, y = [x \in DOMAIN y |-> y[x]], y.kind = "push",
           DOMAIN y = {"kind", "user", "left", "delivered", "refused", "gone"}
    PROVE  y = [kind |-> "push", user |-> y.user, left |-> y.left, delivered |-> y.delivered,
                refused |-> y.refused, gone |-> y.gone]
OBVIOUS

LEMMA RefusalCounted ==
    ASSUME NEW n \in Nat, NEW count \in Nat, NEW before \in Nat, NEW after \in Nat,
           after <= before + 1, n >= maxPushFailures \/ count + before <= n
    PROVE  /\ N!OneMore(n) \in Nat /\ N!OneMore(n) >= n
           /\ N!OneMore(n) >= maxPushFailures \/ count + after <= N!OneMore(n)
BY PlatformAssumption DEF N!OneMore

LEMMA Pushed ==
    ASSUME NoticesInv, NEW h \in Handlers, NEW t \in Tokens,
           NEW outcome \in {"delivered", "refused", "gone"}, N!Push(h, t, outcome)
    PROVE  NoticesInv' /\ N!SendsAndGivesUp
<1> PICK q : q = req[h]
  OBVIOUS
<1> PICK r : r = [kind |-> "push", user |-> q.user, left |-> q.left \ {t},
             delivered |-> IF outcome = "delivered" THEN q.delivered \cup {t} ELSE q.delivered,
             refused |-> IF outcome = "refused" THEN q.refused \cup {t} ELSE q.refused,
             gone |-> IF outcome = "gone" THEN q.gone \cup {t} ELSE q.gone]
  OBVIOUS
<1>1. /\ NoticesKnown /\ RequestsKept /\ DevicesTyped
      /\ q.kind = "push" /\ t \in q.left /\ PushRequest(q)
      /\ UNCHANGED <<devices, dead, owed>>
  BY DEF N!Push, NoticesInv, NoticesKnown, NoticeRequest
<1>2. Continue(h, r) /\ req' = [req EXCEPT ![h] = r] /\ overlapped' = overlapped
  <2>1. [q EXCEPT !.left = @ \ {t}, ![outcome] = @ \cup {t}] = r
    <3>1. q = [kind |-> "push", user |-> q.user, left |-> q.left, delivered |-> q.delivered,
               refused |-> q.refused, gone |-> q.gone]
      BY <1>1 DEF PushRequest
    <3> PICK y : y = [q EXCEPT !.left = @ \ {t}, ![outcome] = @ \cup {t}]
      OBVIOUS
    <3>2. /\ y = [x \in DOMAIN y |-> y[x]]
          /\ DOMAIN y = {"kind", "user", "left", "delivered", "refused", "gone"}
      BY <3>1
    <3>3. /\ y.kind = "push" /\ y.user = q.user /\ y.left = q.left \ {t}
          /\ y.delivered = IF outcome = "delivered" THEN q.delivered \cup {t} ELSE q.delivered
          /\ y.refused = IF outcome = "refused" THEN q.refused \cup {t} ELSE q.refused
          /\ y.gone = IF outcome = "gone" THEN q.gone \cup {t} ELSE q.gone
      BY <3>1, SMTT(30)
    <3>4. y = [kind |-> "push", user |-> y.user, left |-> y.left, delivered |-> y.delivered,
               refused |-> y.refused, gone |-> y.gone]
      BY <3>2, <3>3, PushShape
    <3>5. y = r
      BY <3>3, <3>4
    <3> QED BY <3>5
  <2> QED BY <2>1 DEF N!Push, N!Continue, Continue
<1>3. PushRequest(r)
  BY <1>1 DEF PushRequest
<1>4. /\ N!Rows' = N!Rows /\ \A u : N!ActiveOf(u)' = N!ActiveOf(u)
      /\ DevicesTyped'
  BY <1>1 DEF N!Rows, N!ActiveOf, DevicesTyped
<1>5. ASSUME NEW s \in N!Rows
      PROVE  /\ s \in Tokens /\ failed[s] \in Nat /\ inARow[s] \in Nat
             /\ devices[s].failureCount \in Nat
             /\ devices'[s].failureCount = devices[s].failureCount
             /\ devices'[s].failureCount <= devices[s].failureCount
  <2>1. s \in Tokens /\ devices[s].failureCount \in Nat
    BY <1>1 DEF DevicesTyped, IsDevice, N!Rows
  <2> QED BY <1>1, <2>1 DEF NoticesKnown
<1>6. \A s : s # t \/ outcome # "refused" => (Strikes(r, s) => Strikes(req[h], s))
  BY <1>1 DEF Strikes
<1>7. ASSUME NEW s \in N!Rows, NEW n \in Nat,
             n >= maxPushFailures \/ devices[s].failureCount + Cardinality(Striking(s)) <= n
      PROVE  LET m == IF outcome = "refused" /\ s = t THEN N!OneMore(n) ELSE n
             IN  \/ m >= maxPushFailures
                 \/ devices'[s].failureCount + Cardinality(Striking(s)') <= m
  <2>1. CASE outcome = "refused" /\ s = t
    <3>1. /\ Cardinality(Striking(s)) \in Nat /\ Cardinality(Striking(s)') \in Nat
          /\ Cardinality(Striking(s)') <= Cardinality(Striking(s)) + 1
      BY <1>1, <1>2, StrikingCounted, StrikerGoesOn
    <3>2. \/ N!OneMore(n) >= maxPushFailures
          \/ devices[s].failureCount + Cardinality(Striking(s)') <= N!OneMore(n)
      BY <1>5, <1>7, <3>1, RefusalCounted
    <3> QED BY <1>5, <2>1, <3>2
  <2>2. CASE ~ (outcome = "refused" /\ s = t)
    <3>1. \/ n >= maxPushFailures
          \/ devices'[s].failureCount + Cardinality(Striking(s)') <= n
      BY <1>1, <1>2, <1>4, <1>5, <1>6, <1>7, <2>2, StrikesStay
    <3> QED BY <2>2, <3>1
  <2> QED BY <2>1, <2>2
<1>8. \A n \in Nat : N!OneMore(n) \in Nat /\ N!OneMore(n) >= n
  BY PlatformAssumption DEF N!OneMore
<1>9. /\ failed' \in [Tokens -> Nat] /\ inARow' \in [Tokens -> Nat]
      /\ \A s \in Tokens :
            /\ failed'[s] = IF outcome = "refused" /\ s = t THEN N!OneMore(failed[s]) ELSE failed[s]
            /\ inARow'[s] = IF outcome = "refused" /\ s = t THEN N!OneMore(inARow[s]) ELSE inARow[s]
            /\ failed'[s] >= failed[s]
  <2>1. failed \in [Tokens -> Nat] /\ inARow \in [Tokens -> Nat]
    BY <1>1 DEF NoticesKnown
  <2>2. CASE outcome = "refused"
    <3>1. /\ failed' = [failed EXCEPT ![t] = N!OneMore(failed[t])]
          /\ inARow' = [inARow EXCEPT ![t] = N!OneMore(inARow[t])]
      BY <2>2 DEF N!Push
    <3> QED BY <1>8, <2>1, <2>2, <3>1
  <2>3. CASE outcome # "refused"
    <3>1. failed' = failed /\ inARow' = inARow
      BY <2>3 DEF N!Push
    <3> QED BY <2>1, <2>3, <3>1
  <2> QED BY <2>2, <2>3
<1>10. StrikesBacked'
  <2> SUFFICES ASSUME NEW s \in N!Rows
               PROVE  \/ failed'[s] >= maxPushFailures
                      \/ devices'[s].failureCount + Cardinality(Striking(s)') <= failed'[s]
    BY <1>4 DEF StrikesBacked
  <2>1. \/ failed[s] >= maxPushFailures
        \/ devices[s].failureCount + Cardinality(Striking(s)) <= failed[s]
    BY <1>1 DEF NoticesKnown, StrikesBacked
  <2> QED BY <1>5, <1>7, <1>9, <2>1
<1>11. NoticesKnown'
  <2>1. NoticeRequest(r)'
    BY <1>1, <1>3, <1>4 DEF NoticeRequest, PushRequest
  <2>2. /\ N!Rows \subseteq N!Rows' /\ dead \subseteq dead' /\ dead' \subseteq Tokens
        /\ \A m \in owed' : m.user \in Recipients
    BY <1>1, <1>4 DEF NoticesKnown
  <2> QED BY <1>1, <1>2, <1>4, <1>9, <1>10, <2>1, <2>2, NoticesGoOn
<1>12. ASSUME ~ overlapped' PROVE NoticesAlone' /\ q.left \subseteq N!ActiveOf(q.user)
  <2>1. NoticesAlone
    BY <1>2, <1>12 DEF NoticesInv
  <2>2. StrikesInARow'
    <3> SUFFICES ASSUME NEW s \in N!Rows
                 PROVE  \/ inARow'[s] >= maxPushFailures
                        \/ devices'[s].failureCount + Cardinality(Striking(s)') <= inARow'[s]
      BY <1>4 DEF StrikesInARow
    <3>1. \/ inARow[s] >= maxPushFailures
          \/ devices[s].failureCount + Cardinality(Striking(s)) <= inARow[s]
      BY <2>1 DEF NoticesAlone, StrikesInARow
    <3> QED BY <1>5, <1>7, <1>9, <3>1
  <2>3. OneTokenOfEach'
    BY <1>4, <2>1 DEF NoticesAlone, OneTokenOfEach, N!Installed
  <2>4. q.left \subseteq N!ActiveOf(q.user)
    BY <1>1, <2>1 DEF NoticesAlone, NoticeFresh
  <2>5. r.left \subseteq N!ActiveOf(r.user)'
    BY <1>4, <2>4
  <2>6. NoticeFresh(r)'
    BY <2>5 DEF NoticeFresh
  <2>7. OnlyMoves(h, r)
    BY <1>1, <1>2, <2>1, GoesOnAlone DEF NoticesAlone
  <2> QED BY <2>2, <2>3, <2>4, <2>6, <2>7, NoticesAloneGoOn
<1>13. \A s \in Tokens : ~ N!Retiring(s)
  BY <1>1 DEF N!Retiring
<1>14. ASSUME NEW g \in Handlers, NEW s \in Tokens, N!Pushing(g, s)
       PROVE  overlapped' \/ s \in N!ActiveOf(req[g].user)
  <2>1. CASE g = h
    BY <1>12, <1>14, <2>1 DEF N!Pushing
  <2>2. CASE g # h
    <3>1. req'[g] = req[g]
      BY <1>1, <1>2, <2>2 DEF RequestsKept
    <3>2. /\ req[g].kind = "push" /\ s \in req[g].left /\ s \in req[g].delivered
      BY <1>14, <3>1 DEF N!Pushing
    <3> QED BY <1>1, <3>2 DEF NoticesKnown, NoticeRequest, PushRequest
  <2> QED BY <2>1, <2>2
<1> QED BY <1>11, <1>12, <1>13, <1>14 DEF NoticesInv, N!SendsAndGivesUp

\* What counter says of a token, with the strikes to come, is backed by n.
Backed(counter, strikes, n) == n >= maxPushFailures \/ counter + strikes <= n

\* The counter of t is written; what its failures add up to is given.
LEMMA NoticesCount ==
    ASSUME NoticesInv, NEW h \in Handlers, NEW r, NEW t \in N!Rows, NEW n \in Nat,
           devices' = [devices EXCEPT ![t].failureCount = n], Continue(h, r),
           req[h].kind # "idle", UNCHANGED <<dead, failed, owed>>,
           inARow' \in [Tokens -> Nat], \A s \in Tokens : s # t => inARow'[s] = inARow[s],
           NoticeRequest(r), \A s : s # t /\ Strikes(r, s) => Strikes(req[h], s),
           r.kind \in {"idle", "push", "retire"}, r.kind = "push" => r.left = {},
           r.kind = "push" /\ req[h].kind = "push" => r.delivered \subseteq req[h].delivered,
           Backed(n, Cardinality(Striking(t)'), failed[t]),
           ~ overlapped => /\ Backed(n, Cardinality(Striking(t)'), inARow'[t])
                           /\ r.kind = "retire" => inARow'[r.token] >= maxPushFailures
    PROVE  NoticesInv' /\ N!SendsAndGivesUp
<1>1. /\ NoticesKnown /\ req' = [req EXCEPT ![h] = r] /\ overlapped' = overlapped
      /\ DevicesTyped /\ RequestsKept
  BY DEF NoticesInv, NoticesKnown, Continue
<1>2. /\ DevicesTyped' /\ N!Rows' = N!Rows
      /\ \A s \in N!Rows : /\ devices'[s].failureCount = IF s = t THEN n
                                                         ELSE devices[s].failureCount
                           /\ devices'[s].isActive = devices[s].isActive
      /\ \A u : N!ActiveOf(u)' = N!ActiveOf(u)
  BY <1>1, CountWritten
<1>3. ASSUME NEW s \in N!Rows
      PROVE  /\ s \in Tokens /\ failed[s] \in Nat /\ inARow[s] \in Nat
             /\ s # t => devices'[s].failureCount <= devices[s].failureCount
  <2>1. s \in Tokens /\ devices[s].failureCount \in Nat
    BY <1>1 DEF DevicesTyped, IsDevice, N!Rows
  <2> QED BY <1>1, <1>2, <2>1 DEF NoticesKnown
<1>4. StrikesBacked'
  <2> SUFFICES ASSUME NEW s \in N!Rows
               PROVE  \/ failed[s] >= maxPushFailures
                      \/ devices'[s].failureCount + Cardinality(Striking(s)') <= failed[s]
    BY <1>2 DEF StrikesBacked
  <2>1. \/ failed[s] >= maxPushFailures
        \/ devices[s].failureCount + Cardinality(Striking(s)) <= failed[s]
    BY <1>1 DEF NoticesKnown, StrikesBacked
  <2>2. CASE s = t
    <3>1. devices'[s].failureCount = n
      BY <1>2, <2>2
    <3> QED BY <2>2, <3>1 DEF Backed
  <2>3. CASE s # t
    BY <1>1, <1>2, <1>3, <2>1, <2>3, StrikesStay
  <2> QED BY <2>2, <2>3
<1>5. NoticesKnown'
  <2>1. NoticeRequest(r)'
    BY <1>2 DEF NoticeRequest, PushRequest
  <2>2. /\ N!Rows \subseteq N!Rows' /\ dead \subseteq dead' /\ dead' \subseteq Tokens
        /\ failed' \in [Tokens -> Nat] /\ \A s \in Tokens : failed'[s] >= failed[s]
        /\ \A m \in owed' : m.user \in Recipients
    BY <1>1, <1>2 DEF NoticesKnown
  <2> QED BY <1>1, <1>2, <1>4, <2>1, <2>2, NoticesGoOn
<1>6. ASSUME ~ overlapped' PROVE NoticesAlone'
  <2>1. NoticesAlone
    BY <1>1, <1>6 DEF NoticesInv
  <2>2. StrikesInARow'
    <3> SUFFICES ASSUME NEW s \in N!Rows
                 PROVE  \/ inARow'[s] >= maxPushFailures
                        \/ devices'[s].failureCount + Cardinality(Striking(s)') <= inARow'[s]
      BY <1>2 DEF StrikesInARow
    <3>1. CASE s = t
      <4>1. devices'[s].failureCount = n
        BY <1>2, <3>1
      <4> QED BY <1>1, <1>6, <3>1, <4>1 DEF Backed
    <3>2. CASE s # t
      <4>1. \/ inARow[s] >= maxPushFailures
            \/ devices[s].failureCount + Cardinality(Striking(s)) <= inARow[s]
        BY <2>1 DEF NoticesAlone, StrikesInARow
      <4>2. \/ inARow[s] >= maxPushFailures
            \/ devices'[s].failureCount + Cardinality(Striking(s)') <= inARow[s]
        BY <1>1, <1>2, <1>3, <3>2, <4>1, StrikesStay
      <4> QED BY <1>3, <3>2, <4>2
    <3> QED BY <3>1, <3>2
  <2>3. OneTokenOfEach'
    BY <1>2, <2>1 DEF NoticesAlone, OneTokenOfEach, N!Installed
  <2>4. NoticeFresh(r)'
    BY <1>1, <1>6 DEF NoticeFresh
  <2>5. OnlyMoves(h, r)
    BY <1>1, <2>1, GoesOnAlone DEF NoticesAlone
  <2> QED BY <2>2, <2>3, <2>4, <2>5, NoticesAloneGoOn
<1>7. \A s \in Tokens : ~ N!Retiring(s)
  BY <1>2 DEF N!Retiring
<1>8. \A g \in Handlers, s \in Tokens : ~ N!Pushing(g, s)
  BY <1>1, NothingSent
<1> QED BY <1>5, <1>6, <1>7, <1>8 DEF NoticesInv, N!SendsAndGivesUp

\* A delivered push clears the counter, and the row of failures with it.
LEMMA SuccessCounted ==
    ASSUME NoticesInv, NEW h \in Handlers, NEW t \in N!Rows, NEW r, Continue(h, r),
           devices' = [devices EXCEPT ![t].failureCount = 0],
           inARow' = [inARow EXCEPT ![t] = 0], UNCHANGED <<dead, failed, owed>>,
           req[h].kind # "idle", NoticeRequest(r), r.kind \in {"idle", "push"},
           \A s : Strikes(r, s) => t # s /\ Strikes(req[h], s),
           r.kind = "push" => r.left = {},
           r.kind = "push" /\ req[h].kind = "push" => r.delivered \subseteq req[h].delivered
    PROVE  NoticesInv' /\ N!SendsAndGivesUp
<1>1. /\ NoticesKnown /\ RequestsKept /\ req' = [req EXCEPT ![h] = r]
  BY DEF NoticesInv, NoticesKnown, Continue
<1>2. /\ Cardinality(Striking(t)) \in Nat /\ Cardinality(Striking(t)') \in Nat
      /\ Cardinality(Striking(t)') <= Cardinality(Striking(t))
  BY <1>1, StrikingCounted, StrikerGoesOn
<1>3. \/ failed[t] >= maxPushFailures
      \/ devices[t].failureCount + Cardinality(Striking(t)) <= failed[t]
  BY <1>1 DEF NoticesKnown, StrikesBacked
<1>4. /\ t \in Tokens /\ failed[t] \in Nat /\ devices[t].failureCount \in Nat
      /\ maxPushFailures \in Nat /\ inARow \in [Tokens -> Nat]
  BY <1>1, PlatformAssumption DEF NoticesKnown, DevicesTyped, IsDevice, N!Rows
<1>5. Backed(0, Cardinality(Striking(t)'), failed[t])
  BY <1>2, <1>3, <1>4 DEF Backed
<1>6. /\ inARow' \in [Tokens -> Nat] /\ inARow'[t] = 0
      /\ \A s \in Tokens : s # t => inARow'[s] = inARow[s]
  BY <1>4
<1>7. ASSUME ~ overlapped PROVE Backed(0, Cardinality(Striking(t)'), inARow'[t])
  <2>1. Alone
    BY <1>7 DEF NoticesInv, NoticesAlone
  <2>2. OnlyMoves(h, r)
    BY <1>1, <2>1, GoesOnAlone
  <2>3. \A g \in Handlers : ~ Strikes(req'[g], t)
    BY <2>2, IdleNotice DEF OnlyMoves
  <2>4. Striking(t)' = {}
    BY <2>3 DEF Striking
  <2>5. Cardinality(Striking(t)') = 0
    BY <2>4, FS_EmptySet
  <2> QED BY <1>6, <2>5 DEF Backed
<1>8. r.kind \in {"idle", "push", "retire"} /\ \A s : s # t /\ Strikes(r, s) => Strikes(req[h], s)
  OBVIOUS
<1>9. ~ overlapped => /\ Backed(0, Cardinality(Striking(t)'), inARow'[t])
                      /\ r.kind = "retire" => inARow'[r.token] >= maxPushFailures
  BY <1>7
<1> QED BY <1>1, <1>5, <1>6, <1>8, <1>9, NoticesCount

LEMMA Reconciled ==
    ASSUME NoticesInv, NEW h \in Handlers, NEW t \in Tokens, N!Reconcile(h, t)
    PROVE  NoticesInv' /\ N!SendsAndGivesUp
<1> PICK q : q = req[h]
  OBVIOUS
<1> PICK rest : rest = [kind |-> "push", user |-> q.user, left |-> q.left,
                        delivered |-> q.delivered \ {t}, refused |-> q.refused \ {t},
                        gone |-> q.gone \ {t}]
  OBVIOUS
<1> PICK next : next = IF rest.delivered \cup rest.refused \cup rest.gone = {} THEN Idle ELSE rest
  OBVIOUS
<1> PICK count : count = devices[t].failureCount + 1
  OBVIOUS
<1>1. /\ NoticesKnown /\ RequestsKept /\ q.kind = "push" /\ q.left = {} /\ PushRequest(q)
      /\ UNCHANGED <<dead, failed, owed>>
  BY DEF N!Reconcile, NoticesInv, NoticesKnown, NoticeRequest
<1>2. /\ [q EXCEPT !.delivered = @ \ {t}, !.refused = @ \ {t}, !.gone = @ \ {t}] = rest
      /\ PushRequest(rest) /\ rest.left = {} /\ rest.delivered \subseteq q.delivered
      /\ \A s : Strikes(rest, s) => t # s /\ s \in q.refused
  <2>1. [q EXCEPT !.delivered = @ \ {t}, !.refused = @ \ {t}, !.gone = @ \ {t}] = rest
    <3>1. PushRequest(q) /\ q.left = {}
      BY <1>1
    <3>2. [q EXCEPT !.delivered = @ \ {t}, !.refused = @ \ {t}, !.gone = @ \ {t}] =
            [kind |-> "push", user |-> q.user, left |-> q.left,
             delivered |-> q.delivered \ {t}, refused |-> q.refused \ {t},
             gone |-> q.gone \ {t}]
      <4>1. q = [kind |-> "push", user |-> q.user, left |-> q.left, delivered |-> q.delivered,
                 refused |-> q.refused, gone |-> q.gone]
        BY <3>1 DEF PushRequest
      <4> PICK y : y = [q EXCEPT !.delivered = @ \ {t}, !.refused = @ \ {t}, !.gone = @ \ {t}]
        OBVIOUS
      <4>2. /\ y = [x \in DOMAIN y |-> y[x]]
            /\ DOMAIN y = {"kind", "user", "left", "delivered", "refused", "gone"}
        BY <4>1
      <4>3. /\ y.kind = "push" /\ y.user = q.user /\ y.left = q.left
            /\ y.delivered = q.delivered \ {t} /\ y.refused = q.refused \ {t}
            /\ y.gone = q.gone \ {t}
        BY <4>1
      <4>4. y = [kind |-> "push", user |-> y.user, left |-> y.left, delivered |-> y.delivered,
                 refused |-> y.refused, gone |-> y.gone]
        BY <4>2, <4>3, PushShape
      <4> QED BY <4>3, <4>4
    <3> QED BY <3>2, Zenon
  <2>2. PushRequest(rest) /\ rest.left = {} /\ rest.delivered \subseteq q.delivered
    BY <1>1 DEF PushRequest
  <2>3. \A s : Strikes(rest, s) => t # s /\ s \in q.refused
    BY <1>1 DEF Strikes
  <2> QED BY <2>1, <2>2, <2>3, Zenon
<1>3. \/ /\ t \in q.delivered
         /\ devices' = [devices EXCEPT ![t].failureCount = 0]
         /\ inARow' = [inARow EXCEPT ![t] = 0]
         /\ Continue(h, next)
      \/ /\ t \in q.gone
         /\ devices' = N!Deactivated({t})
         /\ Continue(h, next)
         /\ UNCHANGED inARow
      \/ /\ t \in q.refused
         /\ devices' = [devices EXCEPT ![t].failureCount = count]
         /\ Continue(h, IF count >= maxPushFailures
                        THEN [kind |-> "retire", token |-> t, next |-> next] ELSE next)
         /\ UNCHANGED inARow
  BY <1>2 DEF N!Reconcile, N!RecordSuccess, N!Continue, Continue, N!Idle, Idle
<1>4. /\ next = Idle \/ (PushRequest(next) /\ next.left = {})
      /\ next.kind \in {"idle", "push"} /\ (next.kind = "push" => next.left = {})
      /\ next.kind = "push" => next.delivered \subseteq q.delivered
      /\ NoticeRequest(next)
  <2>1. CASE next = Idle
    BY <2>1, IdleNotice DEF Idle
  <2>2. CASE next = rest
    <3>1. next.kind = "push"
      BY <2>2
    <3> QED BY <1>2, <2>2, <3>1 DEF NoticeRequest
  <2> QED BY <2>1, <2>2
<1>5. \A s : Strikes(next, s) => t # s /\ Strikes(q, s)
  <2>1. \A s : s \in q.refused => Strikes(q, s)
    BY <1>1 DEF Strikes
  <2> QED BY <1>2, <2>1, IdleNotice
<1>6. \A s \in N!Rows : /\ s \in Tokens /\ failed[s] \in Nat /\ inARow[s] \in Nat
                        /\ devices[s].failureCount \in Nat
  <2>1. \A s \in N!Rows : s \in Tokens /\ devices[s].failureCount \in Nat
    BY <1>1 DEF NoticesKnown, DevicesTyped, IsDevice, N!Rows
  <2> QED BY <1>1, <2>1 DEF NoticesKnown
<1>7. /\ inARow \in [Tokens -> Nat] /\ maxPushFailures \in Nat
  BY <1>1, PlatformAssumption DEF NoticesKnown
<1>8. CASE /\ t \in q.delivered
           /\ devices' = [devices EXCEPT ![t].failureCount = 0]
           /\ inARow' = [inARow EXCEPT ![t] = 0]
           /\ Continue(h, next)
  <2>1. t \in N!Rows /\ req[h].kind # "idle"
    BY <1>1, <1>8 DEF PushRequest
  <2>2. \A s : Strikes(next, s) => t # s /\ Strikes(req[h], s)
    BY <1>5
  <2>3. next.kind = "push" /\ req[h].kind = "push" => next.delivered \subseteq req[h].delivered
    BY <1>4
  <2> QED BY <1>1, <1>4, <1>8, <2>1, <2>2, <2>3, SuccessCounted
<1>9. CASE /\ t \in q.gone
           /\ devices' = N!Deactivated({t})
           /\ Continue(h, next)
           /\ UNCHANGED inARow
  <2> PICK ts : ts = {t}
    OBVIOUS
  <2>1. ts \subseteq N!Rows
    BY <1>1, <1>9 DEF PushRequest
  <2>2. devices' = N!Deactivated(ts)
    BY <1>9
  <2>3. /\ req[h].kind # "idle" /\ Continue(h, next) /\ UNCHANGED <<dead, failed, inARow, owed>>
        /\ NoticeRequest(next) /\ next.kind \in {"idle", "push"}
        /\ next.kind = "push" => next.left = {}
        /\ next.kind = "push" /\ req[h].kind = "push" => next.delivered \subseteq req[h].delivered
    BY <1>1, <1>4, <1>9, SMTT(30)
  <2>4. \A s : Strikes(next, s) => Strikes(req[h], s)
    BY <1>5
  <2>5. \A s \in ts : req[h].kind = "push" /\ s \in req[h].gone
    BY <1>1, <1>9
  <2> QED BY <2>1, <2>2, <2>3, <2>4, <2>5, NoticesDeactivate
<1>10. CASE /\ t \in q.refused
            /\ devices' = [devices EXCEPT ![t].failureCount = count]
            /\ Continue(h, IF count >= maxPushFailures
                           THEN [kind |-> "retire", token |-> t, next |-> next] ELSE next)
            /\ UNCHANGED inARow
  <2> PICK r : r = IF count >= maxPushFailures
                   THEN [kind |-> "retire", token |-> t, next |-> next] ELSE next
    OBVIOUS
  <2>1. t \in N!Rows /\ Continue(h, r) /\ req' = [req EXCEPT ![h] = r] /\ Strikes(req[h], t)
    BY <1>1, <1>10 DEF PushRequest, Continue, Strikes
  <2>2. \A s : Strikes(r, s) => t # s /\ Strikes(q, s)
    <3>1. CASE r = next
      BY <1>5, <3>1
    <3>2. CASE r = [kind |-> "retire", token |-> t, next |-> next]
      <4>1. r.kind = "retire" /\ r.next = next
        BY <3>2
      <4>2. \A s : Strikes(r, s) => Strikes(next, s)
        BY <4>1 DEF Strikes
      <4> QED BY <1>5, <4>2
    <3> QED BY <3>1, <3>2
  <2>3. /\ Cardinality(Striking(t)) \in Nat /\ Cardinality(Striking(t)) >= 1
        /\ Cardinality(Striking(t)') = Cardinality(Striking(t)) - 1
    BY <1>1, <2>1, <2>2, StrikingCounted, StrikerGoesOn
  <2>4. ASSUME NEW n \in Nat, \/ n >= maxPushFailures
                              \/ devices[t].failureCount + Cardinality(Striking(t)) <= n
        PROVE  /\ Backed(count, Cardinality(Striking(t)'), n)
               /\ count >= maxPushFailures => n >= maxPushFailures
    BY <1>6, <1>7, <2>1, <2>3, <2>4 DEF Backed
  <2>5. \/ failed[t] >= maxPushFailures
        \/ devices[t].failureCount + Cardinality(Striking(t)) <= failed[t]
    BY <1>1, <2>1 DEF NoticesKnown, StrikesBacked
  <2>6. /\ Backed(count, Cardinality(Striking(t)'), failed[t])
        /\ count >= maxPushFailures => failed[t] >= maxPushFailures
    BY <1>6, <2>1, <2>4, <2>5
  <2>7. ASSUME ~ overlapped
        PROVE  /\ Backed(count, Cardinality(Striking(t)'), inARow[t])
               /\ count >= maxPushFailures => inARow[t] >= maxPushFailures
    <3>1. \/ inARow[t] >= maxPushFailures
          \/ devices[t].failureCount + Cardinality(Striking(t)) <= inARow[t]
      BY <2>1, <2>7 DEF NoticesInv, NoticesAlone, StrikesInARow
    <3> QED BY <1>6, <2>1, <2>4, <3>1
  <2>8. /\ NoticeRequest(r) /\ r.kind \in {"idle", "push", "retire"}
        /\ r.kind = "push" => r.left = {} /\ r.delivered \subseteq q.delivered
        /\ r.kind = "retire" => r.token = t /\ count >= maxPushFailures
    <3>1. CASE count >= maxPushFailures
      <4>1. r = [kind |-> "retire", token |-> t, next |-> next]
        BY <3>1, SMTT(30)
      <4>2. r.kind = "retire" /\ r.token = t /\ r.next = next
        BY <4>1
      <4>3. NoticeRequest(r)
        BY <1>4, <2>1, <2>6, <3>1, <4>2 DEF NoticeRequest
      <4> QED BY <3>1, <4>2, <4>3
    <3>2. CASE ~ count >= maxPushFailures
      <4>1. r = next
        BY <3>2
      <4> QED BY <1>4, <4>1
    <3> QED BY <3>1, <3>2
  <2>9. count \in Nat
    BY <1>6, <2>1
  <2>10. /\ inARow' \in [Tokens -> Nat] /\ inARow' = inARow
         /\ \A s \in Tokens : s # t => inARow'[s] = inARow[s]
    BY <1>7, <1>10
  <2>11. ~ overlapped =>
            /\ Backed(count, Cardinality(Striking(t)'), inARow'[t])
            /\ r.kind = "retire" => inARow'[r.token] >= maxPushFailures
    BY <2>7, <2>8, <2>10
  <2>12. \A s : s # t /\ Strikes(r, s) => Strikes(req[h], s)
    BY <2>2
  <2>13. /\ req[h].kind # "idle" /\ (r.kind = "push" => r.left = {})
         /\ r.kind = "push" /\ req[h].kind = "push" => r.delivered \subseteq req[h].delivered
    BY <1>1, <2>8
  <2> QED BY <1>1, <1>10, <2>1, <2>6, <2>8, <2>9, <2>10, <2>11, <2>12, <2>13, NoticesCount
<1> QED BY <1>3, <1>8, <1>9, <1>10
LEMMA DeviceRegistered ==
    ASSUME NoticesInv, NEW h \in Handlers, N!CommitRegister(h)
    PROVE  NoticesInv' /\ N!SendsAndGivesUp
<1> PICK q : q = req[h]
  OBVIOUS
<1> PICK row : row = [user |-> q.user, isActive |-> TRUE, failureCount |-> 0]
  OBVIOUS
<1>1. /\ NoticesKnown /\ RequestsKept /\ DevicesTyped
      /\ q.kind = "register" /\ Continue(h, Idle)
      /\ devices' = [N!Deactivated(q.replaced) EXCEPT ![q.token] = row]
      /\ inARow' = [inARow EXCEPT ![q.token] = 0]
      /\ UNCHANGED <<owed, dead, failed>>
  BY DEF N!CommitRegister, N!Replace, N!Finish, N!Continue, N!Idle, Continue, Idle, NoticesInv,
     NoticesKnown
<1>2. q.user \in Recipients /\ q.token \in Tokens /\ q.replaced \subseteq N!Rows
  BY <1>1 DEF NoticesKnown, NoticeRequest
<1>3. IsDevice(row) /\ row # NULL /\ row.failureCount = 0 /\ row.user = q.user
  BY <1>2, DeviceRow
<1>4. req' = [req EXCEPT ![h] = Idle] /\ overlapped' = overlapped
  BY <1>1 DEF Continue
<1>5. /\ devices' = [t \in Tokens |-> devices'[t]]
      /\ \A t \in Tokens : devices'[t] = IF t = q.token THEN row
                                         ELSE IF t \in q.replaced
                                         THEN [devices[t] EXCEPT !.isActive = FALSE]
                                         ELSE devices[t]
  BY <1>1 DEF N!Deactivated
<1>6. ASSUME NEW t \in q.replaced, t # q.token
      PROVE  /\ IsDevice(devices'[t]) /\ devices'[t] # NULL
             /\ devices'[t].failureCount = devices[t].failureCount
             /\ devices'[t].isActive = FALSE
  <2>1. IsDevice(devices[t]) /\ devices'[t] = [devices[t] EXCEPT !.isActive = FALSE]
    BY <1>1, <1>2, <1>5, <1>6 DEF DevicesTyped, N!Rows
  <2> QED BY <2>1, SwitchedOff
<1>7. ASSUME NEW t \in Tokens
      PROVE  /\ devices'[t] # NULL <=> (t = q.token \/ devices[t] # NULL)
             /\ devices'[t] # NULL => IsDevice(devices'[t])
             /\ devices[t] # NULL => devices'[t].failureCount <= devices[t].failureCount
             /\ t # q.token => /\ devices[t] # NULL =>
                                    devices'[t].failureCount = devices[t].failureCount
                               /\ t \notin q.replaced => devices'[t] = devices[t]
                               /\ t \in q.replaced => ~ devices'[t].isActive
  <2>1. devices[t] # NULL => IsDevice(devices[t]) /\ devices[t].failureCount \in Nat
    BY <1>1 DEF DevicesTyped, IsDevice, N!Rows
  <2>2. CASE t = q.token
    <3>1. devices'[t] = row
      BY <1>5, <2>2
    <3> QED BY <1>3, <2>1, <2>2, <3>1
  <2>3. CASE t # q.token /\ t \in q.replaced
    <3>1. devices[t] # NULL
      BY <1>2, <2>3 DEF N!Rows
    <3>2. ~ devices'[t].isActive
      BY <1>6, <2>3
    <3>3. /\ IsDevice(devices'[t]) /\ devices'[t] # NULL
          /\ devices'[t].failureCount = devices[t].failureCount
      BY <1>6, <2>3
    <3> QED BY <2>1, <2>3, <3>1, <3>2, <3>3
  <2>4. CASE t # q.token /\ t \notin q.replaced
    <3>1. devices'[t] = devices[t]
      BY <1>5, <2>4
    <3> QED BY <2>1, <2>4, <3>1
  <2> QED BY <2>2, <2>3, <2>4
<1>8. N!Rows' = N!Rows \cup {q.token}
  BY <1>2, <1>7 DEF N!Rows
<1>9. DevicesTyped'
  BY <1>5, <1>7 DEF DevicesTyped, N!Rows
<1>10. \A t \in N!Rows' :
        /\ t \in Tokens /\ failed[t] \in Nat /\ inARow[t] \in Nat
        /\ t \in N!Rows => devices'[t].failureCount <= devices[t].failureCount
        /\ t \notin N!Rows => devices'[t].failureCount = 0
        /\ t = q.token => devices'[t].failureCount = 0
  <2>1. devices'[q.token].failureCount = 0
    BY <1>2, <1>3, <1>5
  <2>2. failed \in [Tokens -> Nat] /\ inARow \in [Tokens -> Nat]
    BY <1>1 DEF NoticesKnown
  <2> QED BY <1>2, <1>7, <1>8, <2>1, <2>2 DEF N!Rows
<1>11. StrikesBacked'
  <2> SUFFICES ASSUME NEW t \in N!Rows'
               PROVE  \/ failed[t] >= maxPushFailures
                      \/ devices'[t].failureCount + Cardinality(Striking(t)') <= failed[t]
    BY <1>1 DEF StrikesBacked
  <2>1. t \in N!Rows => \/ failed[t] >= maxPushFailures
                        \/ devices[t].failureCount + Cardinality(Striking(t)) <= failed[t]
    BY <1>1 DEF NoticesKnown, StrikesBacked
  <2> QED BY <1>1, <1>4, <1>9, <1>10, <2>1, IdleNotice, StrikesStay
<1>12. inARow' \in [Tokens -> Nat] /\ inARow'[q.token] = 0
       /\ \A t \in Tokens : t # q.token => inARow'[t] = inARow[t]
  <2>1. inARow \in [Tokens -> Nat]
    BY <1>1 DEF NoticesKnown
  <2> QED BY <1>1, <1>2, <2>1
<1>13. NoticesKnown'
  <2>1. NoticeRequest(Idle)'
    BY DEF NoticeRequest, Idle
  <2>2. /\ N!Rows \subseteq N!Rows' /\ dead \subseteq dead' /\ dead' \subseteq Tokens
        /\ failed' \in [Tokens -> Nat] /\ \A t \in Tokens : failed'[t] >= failed[t]
        /\ \A m \in owed' : m.user \in Recipients
    BY <1>1, <1>8 DEF NoticesKnown
  <2> QED BY <1>1, <1>4, <1>9, <1>11, <1>12, <2>1, <2>2, NoticesGoOn
<1>14. ASSUME ~ overlapped' PROVE NoticesAlone'
  <2>1. NoticesAlone
    BY <1>4, <1>14 DEF NoticesInv
  <2>2. OnlyMoves(h, Idle)
    BY <1>1, <2>1, GoesOnAlone DEF NoticesAlone
  <2>3. StrikesInARow'
    <3> SUFFICES ASSUME NEW t \in N!Rows'
                 PROVE  \/ inARow'[t] >= maxPushFailures
                        \/ devices'[t].failureCount + Cardinality(Striking(t)') <= inARow'[t]
      BY DEF StrikesInARow
    <3>1. CASE t = q.token
      <4>1. \A g \in Handlers : ~ Strikes(req'[g], t)
        BY <2>2, IdleNotice DEF OnlyMoves
      <4>2. Striking(t)' = {}
        BY <4>1 DEF Striking
      <4>3. Cardinality(Striking(t)') = 0
        BY <4>2, FS_EmptySet
      <4> QED BY <1>10, <1>12, <3>1, <4>3
    <3>2. CASE t # q.token
      <4>1. t \in N!Rows => \/ inARow[t] >= maxPushFailures
                            \/ devices[t].failureCount + Cardinality(Striking(t)) <= inARow[t]
        BY <2>1 DEF NoticesAlone, StrikesInARow
      <4>2. \/ inARow[t] >= maxPushFailures
            \/ devices'[t].failureCount + Cardinality(Striking(t)') <= inARow[t]
        BY <1>1, <1>4, <1>9, <1>10, <4>1, IdleNotice, StrikesStay
      <4> QED BY <1>10, <1>12, <3>2, <4>2
    <3> QED BY <3>1, <3>2
  <2>4. OneTokenOfEach'
    <3>1. q.token \notin Anonymous => q.replaced = N!Installed(q.user) \ {q.token}
      BY <1>1, <2>1 DEF NoticesAlone, NoticeFresh
    <3>2. ASSUME NEW u \in Recipients, NEW t \in N!Installed(u)', t # q.token
          PROVE  t \in N!Installed(u) /\ (q.token \notin Anonymous => u # q.user)
      <4>1. t \in Tokens /\ devices[t] # NULL /\ devices'[t].user = u /\ devices'[t].isActive
        BY <1>7, <3>2 DEF N!Installed, N!ActiveOf, N!Rows
      <4>2. t \notin q.replaced /\ devices'[t] = devices[t]
        BY <1>7, <3>2, <4>1
      <4>3. t \in N!Installed(u)
        BY <3>2, <4>1, <4>2 DEF N!Installed, N!ActiveOf, N!Rows
      <4> QED BY <3>1, <3>2, <4>2, <4>3
    <3>3. ASSUME NEW u \in Recipients, q.token \in N!Installed(u)'
          PROVE  u = q.user /\ q.token \notin Anonymous
      BY <1>2, <1>3, <1>5, <3>3 DEF N!Installed, N!ActiveOf
    <3> QED BY <2>1, <3>2, <3>3 DEF NoticesAlone, OneTokenOfEach, N!Installed
  <2>5. NoticeFresh(Idle)'
    BY DEF NoticeFresh, Idle
  <2> QED BY <2>2, <2>3, <2>4, <2>5, NoticesAloneGoOn
<1>15. \A t \in Tokens : ~ N!Retiring(t)
  <2>1. \A g \in Handlers : req'[g] # req[g] => g = h
    BY <1>1, <1>4 DEF RequestsKept
  <2> QED BY <1>1, <2>1 DEF N!Retiring
<1>16. \A g \in Handlers, t \in Tokens : ~ N!Pushing(g, t)
  <2>1. Idle.kind # "push"
    BY DEF Idle
  <2> QED BY <1>1, <1>4, <2>1, NothingSent
<1> QED BY <1>13, <1>14, <1>15, <1>16 DEF NoticesInv, N!SendsAndGivesUp

\* A step that moves no request, and gives up tokens at most.
LEMMA NoticesRest ==
    ASSUME NoticesKnown, req' = req, DevicesTyped', N!Rows' = N!Rows,
           \A t \in N!Rows : devices'[t].failureCount = devices[t].failureCount,
           dead \subseteq dead', dead' \subseteq Tokens, UNCHANGED <<failed, inARow>>,
           \A m \in owed' : m.user \in Recipients
    PROVE  /\ NoticesKnown' /\ (StrikesInARow => StrikesInARow')
           /\ \A g \in Handlers, t \in Tokens : ~ N!Pushing(g, t)
<1>1. \A t : Striking(t)' = Striking(t)
  BY DEF Striking
<1>2. StrikesBacked' /\ (StrikesInARow => StrikesInARow')
  BY <1>1 DEF NoticesKnown, StrikesBacked, StrikesInARow
<1>3. ASSUME NEW x, PushRequest(x) PROVE PushRequest(x)'
  BY <1>3 DEF PushRequest
<1>4. ASSUME NEW g \in Handlers PROVE NoticeRequest(req[g])'
  <2> PICK x : x = req[g]
    OBVIOUS
  <2>1. NoticeRequest(x) /\ req'[g] = x
    BY DEF NoticesKnown
  <2>2. NoticeRequest(x)'
    BY <1>3, <2>1 DEF NoticeRequest
  <2> QED BY <2>1, <2>2 DEF NoticeRequest
<1>5. ASSUME NEW g \in Handlers, NEW t \in Tokens PROVE ~ N!Pushing(g, t)
  <2>1. req[g].kind = "push" => req[g].left \cap req[g].delivered = {}
    BY DEF NoticesKnown, NoticeRequest, PushRequest
  <2> QED BY <2>1 DEF N!Pushing
<1> QED BY <1>2, <1>4, <1>5 DEF NoticesKnown, RequestsKept

LEMMA NoticeStatement ==
    ASSUME NoticesInv, N!Statement
    PROVE  NoticesInv' /\ N!SendsAndGivesUp
<1>1. /\ NoticesKnown /\ DevicesTyped /\ req' = req /\ UNCHANGED <<owed, dead, failed, inARow>>
      /\ overlapped' = (overlapped \/ \E h \in Handlers : req[h] # Idle)
  BY DEF N!Statement, N!Idle, Idle, NoticesInv, NoticesKnown
<1>2. \/ UNCHANGED devices
      \/ \E ts \in SUBSET N!Rows : devices' = N!Deactivated(ts)
  <2>1. ASSUME NEW u \in Recipients, NEW ts, N!UnregisterDevices(u, ts)
        PROVE  \E some \in SUBSET N!Rows : devices' = N!Deactivated(some)
    <3> PICK some : some = ts \cap N!ActiveOf(u)
      OBVIOUS
    <3>1. some \in SUBSET N!Rows /\ devices' = N!Deactivated(some)
      BY <2>1 DEF N!UnregisterDevices, N!ActiveOf
    <3> QED BY <3>1
  <2>2. ASSUME NEW u \in Recipients, NEW ns,
               N!SetPreference(u, ns) \/ N!MarkRead(u, ns) \/ N!DeleteNotices(u, ns)
        PROVE  UNCHANGED devices
    BY <2>2 DEF N!SetPreference, N!MarkRead, N!DeleteNotices
  <2> QED BY <2>1, <2>2, Zenon DEF N!Statement
<1>3. /\ DevicesTyped' /\ N!Rows' = N!Rows
      /\ \A t \in N!Rows : devices'[t].failureCount = devices[t].failureCount
      /\ \A u : N!ActiveOf(u)' \subseteq N!ActiveOf(u)
  <2>1. CASE UNCHANGED devices
    BY <1>1, <2>1 DEF DevicesTyped, N!Rows, N!ActiveOf
  <2>2. ASSUME NEW ts \in SUBSET N!Rows, devices' = N!Deactivated(ts)
        PROVE  /\ DevicesTyped' /\ N!Rows' = N!Rows
               /\ \A t \in N!Rows : devices'[t].failureCount = devices[t].failureCount
               /\ \A u : N!ActiveOf(u)' \subseteq N!ActiveOf(u)
    BY <1>1, <2>2, Deactivates
  <2> QED BY <1>2, <2>1, <2>2
<1>4. /\ NoticesKnown' /\ (StrikesInARow => StrikesInARow')
      /\ \A g \in Handlers, t \in Tokens : ~ N!Pushing(g, t)
  <2>1. /\ dead \subseteq dead' /\ dead' \subseteq Tokens /\ \A m \in owed' : m.user \in Recipients
    BY <1>1 DEF NoticesKnown
  <2> QED BY <1>1, <1>3, <2>1, NoticesRest
<1>5. ASSUME ~ overlapped' PROVE NoticesAlone'
  <2>1. ~ overlapped /\ \A h \in Handlers : req[h] = Idle
    BY <1>1, <1>5, Zenon
  <2>2. NoticesAlone
    BY <2>1 DEF NoticesInv
  <2>3. OneTokenOfEach'
    BY <1>3, <2>2, TokensFewer DEF NoticesAlone
  <2>4. Alone' /\ \A h \in Handlers : NoticeFresh(req[h])'
    BY <1>1, <2>1, <2>2 DEF NoticesAlone, Alone, NoticeFresh, Idle
  <2> QED BY <1>4, <2>2, <2>3, <2>4 DEF NoticesAlone
<1>6. \A t \in Tokens : ~ N!Retiring(t)
  BY <1>1 DEF N!Retiring
<1> QED BY <1>4, <1>5, <1>6 DEF NoticesInv, N!SendsAndGivesUp

\* The world goes on: an order moves, or Firebase forgets a token.
LEMMA NoticesWait ==
    ASSUME NoticesInv, UNCHANGED <<devices, failed, inARow, req, overlapped>>,
           dead \subseteq dead', dead' \subseteq Tokens, \A m \in owed' : m.user \in Recipients
    PROVE  NoticesInv' /\ N!SendsAndGivesUp
<1>1. /\ NoticesKnown /\ DevicesTyped' /\ N!Rows' = N!Rows
      /\ \A u : N!ActiveOf(u)' = N!ActiveOf(u)
  BY DEF NoticesInv, NoticesKnown, DevicesTyped, N!Rows, N!ActiveOf
<1>2. /\ NoticesKnown' /\ (StrikesInARow => StrikesInARow')
      /\ \A g \in Handlers, t \in Tokens : ~ N!Pushing(g, t)
  BY <1>1, NoticesRest
<1>3. NoticesAlone => NoticesAlone'
  BY <1>1, <1>2 DEF NoticesAlone, OneTokenOfEach, Alone, NoticeFresh, N!Installed
<1>4. \A t \in Tokens : ~ N!Retiring(t)
  BY DEF N!Retiring
<1> QED BY <1>2, <1>3, <1>4 DEF NoticesInv, N!SendsAndGivesUp

LEMMA NoticesRestart ==
    ASSUME NoticesInv, N!Restart, UNCHANGED <<devices, dead, failed, inARow>>, owed' = {}
    PROVE  NoticesInv' /\ N!SendsAndGivesUp
<1>1. Restart
  BY DEF N!Restart, N!Idle, Restart, Idle
<1>2. /\ RequestsKept' /\ Alone' /\ \A h \in Handlers : req'[h] = Idle
      /\ overlapped' = overlapped
  BY <1>1, RestartsAlone
<1>3. ASSUME NEW t PROVE Cardinality(Striking(t)') = 0
  <2>1. Striking(t)' = {}
    BY <1>2, IdleNotice DEF Striking
  <2> QED BY <2>1, FS_EmptySet
<1>4. N!Rows' = N!Rows /\ (\A u : N!ActiveOf(u)' = N!ActiveOf(u)) /\ NoticesKnown
  BY DEF N!Rows, N!ActiveOf, NoticesInv
<1>5. ASSUME NEW t \in N!Rows, NEW n \in Nat,
             n >= maxPushFailures \/ devices[t].failureCount + Cardinality(Striking(t)) <= n
      PROVE  n >= maxPushFailures \/ devices[t].failureCount + Cardinality(Striking(t)') <= n
  <2>1. Cardinality(Striking(t)) \in Nat /\ devices[t].failureCount \in Nat
    BY <1>4, StrikingCounted DEF NoticesKnown, DevicesTyped, IsDevice
  <2> QED BY <1>3, <1>5, <2>1
<1>6. \A t \in N!Rows : t \in Tokens /\ failed[t] \in Nat /\ inARow[t] \in Nat
  BY <1>4 DEF NoticesKnown, N!Rows
<1>7. StrikesBacked' /\ (StrikesInARow => StrikesInARow')
  BY <1>4, <1>5, <1>6 DEF NoticesKnown, StrikesBacked, StrikesInARow
<1>8. \A h \in Handlers : NoticeRequest(req[h])' /\ NoticeFresh(req[h])'
  BY <1>2 DEF NoticeRequest, NoticeFresh, Idle
<1>9. NoticesKnown'
  BY <1>2, <1>4, <1>7, <1>8 DEF NoticesKnown, DevicesTyped
<1>10. NoticesAlone => NoticesAlone'
  BY <1>2, <1>4, <1>7, <1>8 DEF NoticesAlone, OneTokenOfEach, N!Installed
<1>11. \A t \in Tokens : ~ N!Retiring(t)
  BY DEF N!Retiring
<1>12. \A g \in Handlers, t \in Tokens : ~ N!Pushing(g, t)
  BY <1>2 DEF N!Pushing, Idle
<1> QED BY <1>2, <1>9, <1>10, <1>11, <1>12 DEF NoticesInv, N!SendsAndGivesUp

LEMMA NoticesStart == N!Init => NoticesInv
<1> SUFFICES ASSUME N!Init PROVE NoticesInv
  OBVIOUS
<1>1. RequestsKept /\ Alone /\ \A h \in Handlers : req[h] = Idle
  BY DEF N!Init, N!NoRequests, N!Idle, Idle, RequestsKept, Alone
<1>2. /\ devices = [t \in Tokens |-> NULL] /\ dead = {} /\ owed = {}
      /\ failed = [t \in Tokens |-> 0] /\ inARow = [t \in Tokens |-> 0]
  BY DEF N!Init
<1>3. N!Rows = {} /\ \A u : N!ActiveOf(u) = {}
  BY <1>2 DEF N!Rows, N!ActiveOf
<1>4. \A h \in Handlers : NoticeRequest(req[h]) /\ NoticeFresh(req[h])
  BY <1>1, IdleNotice
<1>5. DevicesTyped /\ StrikesBacked /\ StrikesInARow /\ OneTokenOfEach
  BY <1>2, <1>3 DEF DevicesTyped, StrikesBacked, StrikesInARow, OneTokenOfEach,
     N!Installed
<1>6. NoticesKnown
  BY <1>1, <1>2, <1>4, <1>5 DEF NoticesKnown
<1>7. NoticesAlone
  BY <1>1, <1>4, <1>5 DEF NoticesAlone
<1> QED BY <1>6, <1>7 DEF NoticesInv

LEMMA NoticesKept == NoticesInv /\ [N!Next]_(N!vars) => NoticesInv' /\ [N!SendsAndGivesUp]_(N!vars)
<1> SUFFICES ASSUME NoticesInv, [N!Next]_(N!vars) PROVE NoticesInv' /\ N!SendsAndGivesUp
  OBVIOUS
<1>1. dead \subseteq Tokens /\ \A m \in owed : m.user \in Recipients
  BY DEF NoticesInv, NoticesKnown
<1>2. ASSUME NEW status, N!OrderEvent(status) PROVE NoticesInv' /\ N!SendsAndGivesUp
  <2>1. \A m \in owed' : m.user \in Recipients
    <3> SUFFICES ASSUME NEW m \in owed' PROVE m.user \in Recipients
      OBVIOUS
    <3>1. m \in owed \/ \E u \in N!MessagesFor(status) \cap Recipients :
                            m = [user |-> u, event |-> events']
      BY <1>2 DEF N!OrderEvent
    <3> QED BY <1>1, <3>1
  <2> QED BY <1>1, <1>2, <2>1, NoticesWait DEF N!OrderEvent
<1>3. ASSUME NEW t \in Tokens, N!TokenDies(t) PROVE NoticesInv' /\ N!SendsAndGivesUp
  <2>1. /\ UNCHANGED <<devices, failed, inARow, req, overlapped>>
        /\ dead \subseteq dead' /\ dead' \subseteq Tokens
        /\ \A m \in owed' : m.user \in Recipients
    BY <1>1, <1>3 DEF N!TokenDies
  <2> QED BY <2>1, NoticesWait
<1>4. CASE UNCHANGED N!vars
  BY <1>1, <1>4, NoticesWait DEF N!vars, N!notices
<1>5. ASSUME NEW h \in Handlers, N!Proceed(h) PROVE NoticesInv' /\ N!SendsAndGivesUp
  BY <1>5, DeviceRegistered, DeadlockEnds, NoticeWritten, DevicesFound, TokenRetired, Reconciled,
     Pushed DEF N!Proceed
<1>6. ASSUME NEW h \in Handlers, N!Request(h) PROVE NoticesInv' /\ N!SendsAndGivesUp
  BY <1>6, DeviceRegistering, NotifyBegins DEF N!Request
<1> QED BY <1>2, <1>3, <1>4, <1>5, <1>6, NoticeStatement, NoticesRestart DEF N!Next

\* However sends, registrations and sign-outs overlap, a token is given up only
\* if Firebase said it is gone, or after as many failures of sends; one at a time, wherever
\* the process dies, these were in a row, each user has one token at most and
\* what is delivered goes to the user it is for.
THEOREM PushesReachTheirUser == Spec => PushReachesItsUser
<1> DEFINE Inv == part = "notices" => NoticesInv
           Each == part = "notices" => N!OneTokenEach
           Gives == part = "notices" => N!SendsAndGivesUp
<1>1. Init => Inv
  BY NoticesStart DEF Init
<1>2. Inv /\ [Next]_vars => Inv' /\ [Gives]_vars
  <2> SUFFICES ASSUME Inv, [Next]_vars PROVE Inv' /\ (Gives \/ UNCHANGED vars)
    OBVIOUS
  <2>1. NoticesInv /\ UNCHANGED N!vars => N!SendsAndGivesUp
    <3> SUFFICES ASSUME NoticesInv, UNCHANGED N!vars PROVE N!SendsAndGivesUp
      OBVIOUS
    <3>1. /\ UNCHANGED <<devices, failed, inARow, req, overlapped, dead, owed>>
          /\ dead \subseteq Tokens /\ \A m \in owed : m.user \in Recipients
      BY DEF N!vars, N!notices, NoticesInv, NoticesKnown
    <3> QED BY <3>1, NoticesWait
  <2> QED BY <2>1, PartStays, NoticesOnly, NoticesKept
<1>3. Inv => Each
  <2> SUFFICES ASSUME NoticesInv, ~ overlapped, NEW u \in Recipients
               PROVE  N!Cardinality(N!Installed(u)) <= 1
    BY DEF N!OneTokenEach
  <2>1. \A s, t \in N!Installed(u) : s = t
    BY DEF NoticesInv, NoticesAlone, OneTokenOfEach
  <2>2. CASE N!Installed(u) = {}
    BY <2>2, NoticeCounts, FS_EmptySet
  <2>3. ASSUME NEW t \in N!Installed(u) PROVE N!Cardinality(N!Installed(u)) <= 1
    <3>1. N!Installed(u) = {t}
      BY <2>1
    <3>2. Cardinality(N!Installed(u)) = 1
      BY <3>1, FS_Singleton
    <3> QED BY <3>2, NoticeCounts
  <2> QED BY <2>2, <2>3
<1> QED BY <1>1, <1>2, <1>3, PTL DEF Spec, PushReachesItsUser
=============================================================================
