----------------------------- MODULE PhoneCodes -----------------------------
(***************************************************************************)
(* The codes texted to one number for one purpose.  Three Redis keys stand *)
(* for a number: the wait before another text, the texts of the day, and   *)
(* the code with the wrong tries counted against it.  Each Redis command   *)
(* is a step; keys with a lifetime go when it ends.                        *)
(***************************************************************************)
EXTENDS Integers, Requests

CONSTANTS
    OTP_MAX_ATTEMPTS,
    OTP_DAILY_LIMIT,
    LastCode,       \* bound: codes made in an instance
    LastDay,        \* bound: days an instance lasts
    LastTry,        \* bound: codes typed against one that was sent
    LastSend,       \* bound: the day's counter when another text is asked for
    NULL

VARIABLES
    cooldown,       \* the key of the wait: there or not
    daily,          \* the day's counter, and whether it ends with the day
    code,           \* the stored code and its attempts, or NULL
    made,           \* history: codes made so far
    day,            \* history: which life of the counter this is
    texts,          \* history: texts sent on the account of each day
    tried,          \* history: wrong tries at each code that were answered
    accepted        \* history: times each code let somebody in

tables == <<cooldown, daily, code, made, day, texts, tried, accepted>>
vars == <<tables, req, overlapped>>

-----------------------------------------------------------------------------
CodeIds == 1 .. LastCode
CodeDays == 1 .. LastDay
NoCount == [count |-> 0, ends |-> FALSE]

Init ==
    /\ cooldown = FALSE
    /\ daily = NoCount
    /\ code = NULL
    /\ made = 0
    /\ day = 1
    /\ texts = [d \in CodeDays |-> 0]
    /\ tried = [c \in CodeIds |-> 0]
    /\ accepted = [c \in CodeIds |-> 0]
    /\ NoRequests

-----------------------------------------------------------------------------
(* Sending.                                                                *)

\* setIfAbsent: a number that was just texted is refused.
Send(h) ==
    /\ ~ cooldown /\ daily.count < LastSend
    /\ cooldown' = TRUE
    /\ Begin(h, [kind |-> "count"])
    /\ UNCHANGED <<daily, code, made, day, texts, tried, accepted>>

\* Faulty variant: the count is compared before this text is on it.
WithinStale(count) == count - 1 <= OTP_DAILY_LIMIT

WithinLimit(count) == count <= OTP_DAILY_LIMIT

\* INCR: only the command that creates the counter arms its lifetime, in a
\* command of its own; over the limit the send is refused and the wait stays.
CountSend(h) ==
    /\ req[h].kind = "count"
    /\ daily' = [daily EXCEPT !.count = @ + 1]
    /\ IF ~ WithinLimit(daily.count + 1) THEN Finish(h)
       ELSE Continue(h, [kind |-> IF daily.count = 0 THEN "arm" ELSE "store", day |-> day])
    /\ UNCHANGED <<cooldown, code, made, day, texts, tried, accepted>>

\* EXPIRE
ArmDay(h) ==
    /\ req[h].kind = "arm"
    /\ daily' = IF daily.count > 0 THEN [daily EXCEPT !.ends = TRUE] ELSE daily
    /\ Continue(h, [req[h] EXCEPT !.kind = "store"])
    /\ UNCHANGED <<cooldown, code, made, day, texts, tried, accepted>>

StoreCode(h) ==
    /\ req[h].kind = "store" /\ made < LastCode
    /\ made' = made + 1
    /\ code' = [id |-> made + 1, attempts |-> 0]
    /\ Continue(h, [req[h] EXCEPT !.kind = "text"])
    /\ UNCHANGED <<cooldown, daily, day, texts, tried, accepted>>

SendText(h) ==
    /\ req[h].kind = "text"
    /\ texts' = [texts EXCEPT ![req[h].day] = @ + 1]
    /\ Finish(h)
    /\ UNCHANGED <<cooldown, daily, code, made, day, tried, accepted>>

\* Nothing reached the phone: whatever code is stored goes, and the wait.
TextFails(h) ==
    /\ req[h].kind = "text"
    /\ code' = NULL /\ cooldown' = FALSE
    /\ Finish(h)
    /\ UNCHANGED <<daily, made, day, texts, tried, accepted>>

-----------------------------------------------------------------------------
(* Verifying.                                                              *)

Burned(stored) == stored.attempts >= OTP_MAX_ATTEMPTS

\* getJson: without a code the request is refused.
Verify(h, right) ==
    /\ code # NULL /\ tried[code.id] + accepted[code.id] < LastTry
    /\ Begin(h, [kind |-> IF Burned(code) THEN "burn" ELSE IF right THEN "spend" ELSE "wrong",
                 stored |-> code])
    /\ UNCHANGED tables

\* "The fixed code works whether or not one was sent", where one is set.
VerifyFixed(h) ==
    /\ Begin(h, [kind |-> "fixed"])
    /\ UNCHANGED tables

\* A code that took too many tries is deleted without a comparison, the right
\* one and the fixed one delete it and let their owner in: whatever code is
\* stored by then.
DeleteCode(h) ==
    /\ req[h].kind \in {"burn", "spend", "fixed"}
    /\ code' = NULL
    /\ accepted' = IF req[h].kind = "spend"
                   THEN [accepted EXCEPT ![req[h].stored.id] = @ + 1] ELSE accepted
    /\ Finish(h)
    /\ UNCHANGED <<cooldown, daily, made, day, texts, tried>>

Answer(h) ==
    /\ tried' = [tried EXCEPT ![req[h].stored.id] = @ + 1]
    /\ Finish(h)

\* A wrong try asks how long the key has left,
ReadLifetime(h) ==
    /\ req[h].kind = "wrong"
    /\ IF code = NULL THEN Answer(h)
       ELSE Continue(h, [req[h] EXCEPT !.kind = "recount"]) /\ UNCHANGED tried
    /\ UNCHANGED <<cooldown, daily, code, made, day, texts, accepted>>

\* Faulty variant: the code is written back as it was.
Uncounted(stored) == stored

Counted(stored) == [stored EXCEPT !.attempts = @ + 1]

\* and writes the code it read back over what is stored by then.
WriteBack(h) ==
    /\ req[h].kind = "recount"
    /\ code' = Counted(req[h].stored)
    /\ Answer(h)
    /\ UNCHANGED <<cooldown, daily, made, day, texts, accepted>>

-----------------------------------------------------------------------------
(* Lifetimes.                                                              *)

CooldownLapses ==
    /\ cooldown
    /\ cooldown' = FALSE
    /\ UNCHANGED <<daily, code, made, day, texts, tried, accepted, req, overlapped>>

CodeLapses ==
    /\ code # NULL
    /\ code' = NULL
    /\ UNCHANGED <<cooldown, daily, made, day, texts, tried, accepted, req, overlapped>>

DayEnds ==
    /\ daily.ends /\ day < LastDay
    /\ daily' = NoCount
    /\ day' = day + 1
    /\ UNCHANGED <<cooldown, code, made, texts, tried, accepted, req, overlapped>>

-----------------------------------------------------------------------------
Proceed(h) ==
    \/ CountSend(h) \/ ArmDay(h) \/ StoreCode(h) \/ SendText(h) \/ TextFails(h)
    \/ DeleteCode(h) \/ ReadLifetime(h) \/ WriteBack(h)

Next ==
    \/ \E h \in Handlers :
        Proceed(h) \/ Send(h) \/ VerifyFixed(h) \/ \E right \in BOOLEAN : Verify(h, right)
    \/ CooldownLapses \/ CodeLapses \/ DayEnds
    \/ Restart /\ UNCHANGED tables

Spec == Init /\ [][Next]_vars

-----------------------------------------------------------------------------
(* Properties.                                                             *)

\* "Codes one number may be sent in a day": however the sends of one number
\* overlap, fail or are cut short, no day's counter pays for more texts than
\* the limit.
TextsWithinLimit == \A d \in CodeDays : texts[d] <= OTP_DAILY_LIMIT

\* "Wrong guesses before a code is burned": one request at a time, nobody
\* is told of more wrong tries at a code than the attempts allow, and a code
\* that was accepted is not accepted again.
TriesWithinLimit ==
    ~ overlapped => \A c \in CodeIds : tried[c] <= OTP_MAX_ATTEMPTS /\ accepted[c] <= 1

-----------------------------------------------------------------------------
(* Claims that do not hold.                                                *)

\* "Spends a code": two requests with the right one both read it first, and a
\* wrong try that read it writes it back once it was spent.
CodeIsSpentOnce == \A c \in CodeIds : accepted[c] <= 1

\* "Arm the TTL on creation": a process that dies between the two commands
\* leaves a counter that never ends, and with it a number that is never
\* texted again.
CounterEnds ==
    daily.count > 0 => daily.ends \/ \E h \in Handlers : req[h].kind = "arm"
=============================================================================
