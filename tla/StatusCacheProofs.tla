-------------------------- MODULE StatusCacheProofs --------------------------
(***************************************************************************)
(* Theorems about StatusCache, for all values of its constants.            *)
(***************************************************************************)
EXTENDS StatusCache, TLAPS

(***************************************************************************)
(* The inductive invariant                                                 *)
(***************************************************************************)

\* One fetch at a time; a request that does not fetch has read nothing, and
\* has an answer when it is done.
OneFlight ==
    /\ \A r \in Reader : Fetching(r) <=> flight = r
    /\ \A r \in Reader : ~Fetching(r) => fetch[r] = Nothing
    /\ \A r \in Reader : Answered(r) => phase[r] \in {"filled", "done"}
    /\ \A r \in Reader : phase[r] = "filled" =>
        answer[r] \in Answer /\ ~answer[r].stale
    /\ \A r \in Reader : \A q \in before[r] : phase[q] = "done"

\* No answer is newer than the entry, which is not newer than what a running
\* fetch has read, which is not newer than the source.
Ordered ==
    /\ cache # None => \A s \in Source : cache.tags[s] <= Current(s)
    /\ \A q \in Reader : Answered(q) => \A s \in Source :
        /\ answer[q].tags[s] <= Current(s)
        /\ cache # None => answer[q].tags[s] <= cache.tags[s]
    /\ \A r \in Reader : phase[r] = "lead" => \A s \in Source : fetch[r][s] # None =>
        /\ fetch[r][s] <= Current(s)
        /\ cache # None => cache.tags[s] <= fetch[r][s]
        /\ \A q \in Reader : Answered(q) => answer[q].tags[s] <= fetch[r][s]
    /\ \A r \in Reader : phase[r] = "filled" => \A s \in Source :
        /\ answer[r].tags[s] <= Current(s)
        /\ cache # None => cache.tags[s] <= answer[r].tags[s]
        /\ \A q \in Reader : Answered(q) => answer[q].tags[s] <= answer[r].tags[s]

\* Version v of s was replaced, if at all, not long before t.
Recent(s, v, t) == v < Current(s) => t <= ended[s][v + 1] + FetchTimeout

\* How old an entry can be when it is stored.
Aged ==
    /\ cache # None =>
        /\ cache.fetchedAt <= now
        /\ \A s \in Source : Recent(s, cache.tags[s], cache.fetchedAt)
    /\ \A r \in Reader : Fetching(r) =>
        now <= deadline[r] /\ deadline[r] <= now + FetchTimeout
    /\ \A r \in Reader : phase[r] = "lead" => \A s \in Source : fetch[r][s] # None =>
        Recent(s, fetch[r][s], deadline[r])
    /\ \A r \in Reader : phase[r] = "filled" => \A s \in Source :
        Recent(s, answer[r].tags[s], deadline[r])

\* Who was served a stale entry is answered by an entry that is gone.
Evicted ==
    \A q \in Reader : Answered(q) /\ answer[q].stale =>
        /\ answer[q].fetchedAt < now
        /\ cache # None => answer[q].fetchedAt < cache.fetchedAt

StatusInv ==
    /\ TypeOK
    /\ OneFlight
    /\ Ordered
    /\ Aged
    /\ Evicted
    /\ MonotoneReads
    /\ StaleServedOnce

(***************************************************************************)
(* Types                                                                   *)
(***************************************************************************)

LEMMA CachedIsAnswer ==
    ASSUME TypeOK, cache # None, NEW stale \in BOOLEAN
    PROVE  Cached(stale) \in Answer
  BY DEF TypeOK, Cached, Entry, Answer

\* What a finished fetch has read is a matrix.
LEMMA ReadIsMatrix ==
    ASSUME TypeOK, NEW r \in Reader, Fill(r)
    PROVE  fetch[r] \in Matrix
  BY DEF TypeOK, Fill, Matrix

LEMMA ReturnTypes ==
    ASSUME TypeOK, NEW r \in Reader, NEW a \in Answer \cup {Error, None}, Return(r, a)
    PROVE  /\ flight' \in Reader \cup {None}
           /\ phase' \in [Reader -> Phase]
           /\ fetch' \in [Reader -> [Source -> Version \cup {None}]]
           /\ deadline' \in [Reader -> Nat]
           /\ answer' \in [Reader -> Answer \cup {Error, None}]
<1>1. Nothing \in [Source -> Version \cup {None}]
  BY DEF Nothing
<1>. QED
  BY <1>1 DEF TypeOK, Return, Phase

LEMMA TypeInit == Init => TypeOK
  BY DEF Init, TypeOK, Nothing, Phase

LEMMA TypeStep == TypeOK /\ [Next]_vars => TypeOK'
<1>. SUFFICES ASSUME TypeOK, [Next]_vars PROVE TypeOK'
  OBVIOUS
<1>. USE StatusConstants
<1>1. ASSUME NEW r \in Reader, Arrive(r) \/ Miss(r) \/ Join(r) PROVE TypeOK'
  <2>1. CASE Arrive(r)
    BY <2>1 DEF TypeOK, Arrive, Move, Phase
  <2>2. CASE Miss(r) \/ Join(r)
    BY <2>2 DEF TypeOK, Miss, Join, Move, Phase
  <2>. QED
    BY <1>1, <2>1, <2>2
<1>2. ASSUME NEW r \in Reader, Hit(r) \/ StaleHit(r) PROVE TypeOK'
  <2>1. cache # None
    BY <1>2 DEF Hit, StaleHit, Fresh
  <2>2. Cached(TRUE) \in Answer /\ Cached(FALSE) \in Answer
    BY <2>1, CachedIsAnswer
  <2>3. CASE Hit(r)
    BY <2>2, <2>3 DEF TypeOK, Hit, Move, Phase
  <2>4. CASE StaleHit(r)
    BY <2>2, <2>4 DEF TypeOK, StaleHit, Move, Phase
  <2>. QED
    BY <1>2, <2>3, <2>4
<1>3. ASSUME NEW r \in Reader, Lead(r) PROVE TypeOK'
  BY <1>3 DEF TypeOK, Lead, Move, Phase
<1>4. ASSUME NEW r \in Reader, NEW s \in Source, Read(r, s) PROVE TypeOK'
  <2>1. Current(s) \in Nat
    BY DEF TypeOK, Current
  <2>. QED
    BY <1>4, <2>1 DEF TypeOK, Read, Version
<1>5. ASSUME NEW r \in Reader, Fill(r) PROVE TypeOK'
  <2>1. fetch[r] \in Matrix
    BY <1>5, ReadIsMatrix
  <2>2. [tags |-> fetch[r], fetchedAt |-> now] \in Entry
    BY <2>1 DEF TypeOK, Entry
  <2>3. [tags |-> fetch[r], stale |-> FALSE, fetchedAt |-> now] \in Answer
    BY <2>1 DEF TypeOK, Answer
  <2>. QED
    BY <1>5, <2>2, <2>3 DEF TypeOK, Fill, Move, Phase
<1>6. ASSUME NEW r \in Reader, Land(r) PROVE TypeOK'
  <2>1. answer[r] \in Answer \cup {Error, None} /\ Return(r, answer[r])
    BY <1>6 DEF Land, TypeOK
  <2>. QED
    BY <1>6, <2>1, ReturnTypes DEF TypeOK, Land
<1>7. ASSUME NEW r \in Reader, Fail(r) PROVE TypeOK'
  <2>1. Return(r, Error)
    BY <1>7 DEF Fail
  <2>. QED
    BY <1>7, <2>1, ReturnTypes DEF TypeOK, Fail
<1>8. ASSUME NEW s \in Source, Write(s) PROVE TypeOK'
  <2>1. Append(ended[s], now) \in Seq(Nat)
    BY DEF TypeOK
  <2>. QED
    BY <1>8, <2>1 DEF TypeOK, Write
<1>9. CASE Tick
  BY <1>9 DEF TypeOK, Tick
<1>10. CASE UNCHANGED vars
  BY <1>10 DEF TypeOK, vars
<1>. QED
  BY <1>1, <1>2, <1>3, <1>4, <1>5, <1>6, <1>7, <1>8, <1>9, <1>10
  DEF Next, Handle, Expire, Quiet

\* Every entry and every answer is complete: fetchAndCache stores nothing before
\* every source has been read.
THEOREM TypeCorrect == Spec => []TypeOK
  BY TypeInit, TypeStep, PTL DEF Spec

(***************************************************************************)
(* Order and age                                                           *)
(***************************************************************************)

\* Answers are matrices of versions.
LEMMA AnsweredIsAnswer ==
    ASSUME TypeOK, NEW r \in Reader, Answered(r)
    PROVE  answer[r] \in Answer
  BY DEF TypeOK, Answered

LEMMA StatusInit == Init => StatusInv
<1>. SUFFICES ASSUME Init PROVE StatusInv
  OBVIOUS
<1>1. TypeOK
  BY TypeInit
<1>2. \A r \in Reader : ~Fetching(r) /\ ~Answered(r)
  BY DEF Init, Fetching, Answered
<1>. QED
  BY <1>1, <1>2, StatusConstants
  DEF Init, StatusInv, OneFlight, Ordered, Aged, Evicted, MonotoneReads,
      StaleServedOnce, Fetching

\* What has been answered is disturbed only by a new answer or a new entry.
LEMMA AnswersStay ==
    ASSUME StatusInv, TypeOK', UNCHANGED <<cache, answer, before>>, now <= now'
    PROVE  Evicted' /\ MonotoneReads' /\ StaleServedOnce'
<1>1. Evicted'
  BY DEF StatusInv, TypeOK, Evicted, Answered, Answer
<1>2. MonotoneReads'
  BY DEF StatusInv, MonotoneReads, Answered
<1>3. StaleServedOnce'
  BY DEF StatusInv, StaleServedOnce, Answered
<1>. QED
  BY <1>1, <1>2, <1>3

LEMMA ArriveStep ==
    ASSUME StatusInv, TypeOK', NEW r \in Reader, Arrive(r)
    PROVE  StatusInv'
<1>. USE StatusConstants DEF StatusInv
<1>1. OneFlight'
  BY DEF OneFlight, Fetching, Answered, Arrive, Move
<1>2. Ordered'
  BY DEF Ordered, Answered, Current, Arrive, Move
<1>3. Aged'
  BY DEF Aged, Fetching, Recent, Current, Arrive, Move
<1>4. Evicted'
  BY DEF Evicted, Answered, Arrive
<1>5. MonotoneReads'
  BY DEF MonotoneReads, Answered, Arrive, OneFlight
<1>6. StaleServedOnce'
  BY DEF StaleServedOnce, Answered, Arrive
<1>. QED
  BY <1>1, <1>2, <1>3, <1>4, <1>5, <1>6

LEMMA WaitStep ==
    ASSUME StatusInv, TypeOK', NEW r \in Reader, Miss(r) \/ Join(r)
    PROVE  StatusInv'
<1>. USE StatusConstants DEF StatusInv
<1>1. /\ UNCHANGED <<now, ended, cache, flight, fetch, deadline, answer, before>>
      /\ \E p \in {"miss", "wait"} : phase' = [phase EXCEPT ![r] = p]
      /\ phase[r] \in {"look", "miss"} /\ phase \in [Reader -> Phase]
  BY DEF Miss, Join, Move, TypeOK
<1>2. OneFlight'
  BY <1>1 DEF OneFlight, Fetching, Answered
<1>3. Ordered'
  BY <1>1 DEF Ordered, Answered, Current
<1>4. Aged'
  BY <1>1 DEF Aged, Fetching, Recent, Current
<1>5. Evicted' /\ MonotoneReads' /\ StaleServedOnce'
  BY AnswersStay DEF TypeOK, Miss, Join
<1>. QED
  BY <1>2, <1>3, <1>4, <1>5

LEMMA HitStep ==
    ASSUME StatusInv, TypeOK', NEW r \in Reader, Hit(r)
    PROVE  StatusInv'
<1>. USE StatusConstants DEF StatusInv
<1>1. OneFlight'
  BY DEF TypeOK, OneFlight, Fetching, Answered, Hit, Move, Cached
<1>2. Ordered'
  BY DEF TypeOK, Ordered, Answered, Current, Hit, Move, Cached, Fresh, Answer, Matrix, Version
<1>3. Aged'
  BY DEF Aged, Fetching, Recent, Current, Hit, Move, Cached
<1>4. Evicted'
  BY DEF Evicted, Answered, Hit, Cached
<1>5. MonotoneReads'
  BY DEF TypeOK, MonotoneReads, Answered, Hit, OneFlight, Ordered, Cached, Fresh
<1>6. StaleServedOnce'
  BY DEF StaleServedOnce, Answered, Hit, Cached
<1>. QED
  BY <1>1, <1>2, <1>3, <1>4, <1>5, <1>6

LEMMA StaleHitStep ==
    ASSUME StatusInv, TypeOK', NEW r \in Reader, StaleHit(r)
    PROVE  StatusInv'
<1>. USE StatusConstants DEF StatusInv
<1>1. OneFlight'
  BY DEF TypeOK, OneFlight, Fetching, Answered, StaleHit, Move, Cached
<1>2. Ordered'
  BY DEF Ordered, Answered, Current, StaleHit, Move, Cached
<1>3. Aged'
  BY DEF Aged, Fetching, Recent, Current, StaleHit, Move, Cached
<1>4. Evicted'
  BY DEF TypeOK, Evicted, Answered, StaleHit, Cached, Fresh, Answer
<1>5. MonotoneReads'
  BY DEF TypeOK, MonotoneReads, Answered, StaleHit, OneFlight, Ordered, Cached
<1>6. StaleServedOnce'
  BY DEF TypeOK, StaleServedOnce, Evicted, Answered, StaleHit, Cached, Answer
<1>. QED
  BY <1>1, <1>2, <1>3, <1>4, <1>5, <1>6

LEMMA LeadStep ==
    ASSUME StatusInv, TypeOK', NEW r \in Reader, Lead(r)
    PROVE  StatusInv'
<1>. USE StatusConstants DEF StatusInv
<1>1. OneFlight'
  BY DEF TypeOK, OneFlight, Fetching, Answered, Lead, Move
<1>2. Ordered'
  BY DEF Ordered, Answered, Current, Lead, Move, OneFlight, Nothing
<1>3. Aged'
  BY DEF TypeOK, Aged, Fetching, Recent, Current, Lead, Move, OneFlight, Nothing
<1>4. Evicted' /\ MonotoneReads' /\ StaleServedOnce'
  BY AnswersStay DEF TypeOK, Lead
<1>. QED
  BY <1>1, <1>2, <1>3, <1>4

LEMMA ReadStep ==
    ASSUME StatusInv, TypeOK', NEW r \in Reader, NEW s \in Source, Read(r, s)
    PROVE  StatusInv'
<1>. USE StatusConstants DEF StatusInv
<1>1. OneFlight'
  BY DEF OneFlight, Fetching, Answered, Read
<1>2. Ordered'
  BY DEF Ordered, Answered, Current, Read
<1>3. Aged'
  BY DEF Aged, Fetching, Recent, Current, Read
<1>4. Evicted' /\ MonotoneReads' /\ StaleServedOnce'
  BY AnswersStay DEF TypeOK, Read
<1>. QED
  BY <1>1, <1>2, <1>3, <1>4

LEMMA FillStep ==
    ASSUME StatusInv, TypeOK', NEW r \in Reader, Fill(r)
    PROVE  StatusInv'
<1>. USE StatusConstants DEF StatusInv
<1>1. OneFlight'
  BY DEF TypeOK, OneFlight, Fetching, Answered, Fill, Move, Answer, Matrix
<1>2. Ordered'
  <2>1. fetch[r] \in Matrix
    BY ReadIsMatrix
  <2>2. \A s \in Source :
            /\ fetch[r][s] <= Current(s)
            /\ \A q \in Reader : Answered(q) => answer[q].tags[s] <= fetch[r][s]
    BY DEF Fill, Ordered
  <2>3. cache'.tags = fetch[r] /\ answer'[r].tags = fetch[r]
    BY DEF Fill, TypeOK
  <2>4. \A q \in Reader : q # r => ~Fetching(q)' /\ answer'[q] = answer[q]
    BY DEF Fill, Move, OneFlight, Fetching, TypeOK
  <2>5. \A s \in Source : Current(s)' = Current(s) /\ fetch[r][s] \in Nat
    BY <2>1 DEF Fill, Current, Matrix, Version
  <2>6. phase'[r] = "filled"
    BY DEF Fill, Move, TypeOK
  <2>7. \A q \in Reader, s \in Source : Answered(q)' => answer'[q].tags[s] <= fetch[r][s]
    BY <2>2, <2>3, <2>4, <2>5 DEF Answered
  <2>. QED
    BY <2>2, <2>3, <2>4, <2>5, <2>6, <2>7 DEF Ordered, Answered, Fetching
<1>3. Aged'
  BY SMTT(30) DEF TypeOK, Aged, Fetching, Recent, Current, Fill, Move, Version
<1>4. Evicted'
  BY DEF Evicted, Answered, Fill
<1>5. MonotoneReads'
  BY DEF TypeOK, MonotoneReads, Answered, Fill, OneFlight, Ordered
<1>6. StaleServedOnce'
  BY DEF StaleServedOnce, Answered, Fill
<1>. QED
  BY <1>1, <1>2, <1>3, <1>4, <1>5, <1>6

LEMMA LandStep ==
    ASSUME StatusInv, TypeOK', NEW r \in Reader, Land(r)
    PROVE  StatusInv'
<1>. USE StatusConstants DEF StatusInv
<1>1. OneFlight'
  BY DEF TypeOK, OneFlight, Fetching, Answered, Land, Return
<1>2. Ordered'
  BY DEF Ordered, Answered, Current, Land, Return
<1>3. Aged'
  BY DEF Aged, Fetching, Recent, Current, Land, Return
<1>4. Evicted'
  BY DEF Evicted, Answered, Land, Return
<1>5. MonotoneReads'
  BY DEF TypeOK, MonotoneReads, Answered, Land, Return, OneFlight, Ordered
<1>6. StaleServedOnce'
  BY DEF StaleServedOnce, Answered, Land, Return, OneFlight
<1>. QED
  BY <1>1, <1>2, <1>3, <1>4, <1>5, <1>6

LEMMA FailStep ==
    ASSUME StatusInv, TypeOK', NEW r \in Reader, Fail(r)
    PROVE  StatusInv'
<1>. USE StatusConstants DEF StatusInv
<1>1. OneFlight'
  BY DEF TypeOK, OneFlight, Fetching, Answered, Fail, Return
<1>2. Ordered'
  BY DEF Ordered, Answered, Current, Fail, Return
<1>3. Aged'
  BY DEF Aged, Fetching, Recent, Current, Fail, Return
<1>4. Evicted'
  BY DEF Evicted, Answered, Fail, Return
<1>5. MonotoneReads'
  BY DEF TypeOK, MonotoneReads, Answered, Fail, Return
<1>6. StaleServedOnce'
  BY DEF StaleServedOnce, Answered, Fail, Return
<1>. QED
  BY <1>1, <1>2, <1>3, <1>4, <1>5, <1>6

\* A change that happens now leaves recent what was recent.
LEMMA RecentAfterWrite ==
    ASSUME TypeOK, NEW s \in Source, Write(s),
           NEW t \in Source, NEW v \in Nat, NEW u \in Nat,
           v <= Current(t), u <= now + FetchTimeout, Recent(t, v, u)
    PROVE  Recent(t, v, u)'
<1>. USE StatusConstants
<1>1. CASE t # s
  BY <1>1 DEF TypeOK, Write, Recent, Current
<1>2. CASE t = s
  <2>1. ended[s] \in Seq(Nat) /\ ended'[s] = Append(ended[s], now)
    BY DEF TypeOK, Write
  <2>2. CASE v < Current(s)
    BY <1>2, <2>1, <2>2 DEF TypeOK, Recent, Current
  <2>3. CASE v = Current(s)
    BY <1>2, <2>1, <2>3 DEF TypeOK, Recent, Current
  <2>. QED
    BY <1>2, <2>2, <2>3 DEF TypeOK, Current
<1>. QED
  BY <1>1, <1>2

LEMMA WriteStep ==
    ASSUME StatusInv, TypeOK', NEW s \in Source, Write(s)
    PROVE  StatusInv'
<1>. USE StatusConstants DEF StatusInv
<1>1. OneFlight'
  BY DEF OneFlight, Fetching, Answered, Write
<1>2. Ordered'
  BY DEF TypeOK, Ordered, Answered, Current, Write, OneFlight, Entry, Answer, Matrix, Version
<1>3. Aged'
  <2>1. \A t \in Source, v \in Nat, u \in Nat :
            v <= Current(t) /\ u <= now + FetchTimeout /\ Recent(t, v, u) => Recent(t, v, u)'
    BY RecentAfterWrite
  <2>2. cache # None => \A t \in Source :
            cache.tags[t] \in Nat /\ cache.tags[t] <= Current(t) /\ cache.fetchedAt \in Nat
    BY DEF TypeOK, Ordered, Entry, Matrix, Version
  <2>3. \A q \in Reader : phase[q] = "lead" => \A t \in Source :
            fetch[q][t] # None => fetch[q][t] \in Nat /\ fetch[q][t] <= Current(t)
    BY DEF TypeOK, Ordered, Version
  <2>4. \A q \in Reader : phase[q] = "filled" => \A t \in Source :
            answer[q].tags[t] \in Nat /\ answer[q].tags[t] <= Current(t)
    BY DEF OneFlight, Ordered, Answer, Matrix, Version
  <2>5. UNCHANGED <<now, cache, phase, fetch, deadline, answer>>
    BY DEF Write
  <2>6. now \in Nat /\ deadline \in [Reader -> Nat]
    BY DEF TypeOK
  <2>. QED
    BY <2>1, <2>2, <2>3, <2>4, <2>5, <2>6 DEF Aged, Fetching
<1>4. Evicted' /\ MonotoneReads' /\ StaleServedOnce'
  BY AnswersStay DEF TypeOK, Write
<1>. QED
  BY <1>1, <1>2, <1>3, <1>4

LEMMA TickStep ==
    ASSUME StatusInv, TypeOK', Tick
    PROVE  StatusInv'
<1>. USE StatusConstants DEF StatusInv
<1>1. OneFlight'
  BY DEF OneFlight, Fetching, Answered, Tick
<1>2. Ordered'
  BY DEF Ordered, Answered, Current, Tick
<1>3. Aged'
  BY DEF TypeOK, Aged, Fetching, Recent, Current, Tick, Entry
<1>4. Evicted' /\ MonotoneReads' /\ StaleServedOnce'
  BY AnswersStay DEF TypeOK, Tick
<1>. QED
  BY <1>1, <1>2, <1>3, <1>4

LEMMA StatusStep == StatusInv /\ TypeOK' /\ [Next]_vars => StatusInv'
<1>. SUFFICES ASSUME StatusInv, TypeOK', [Next]_vars PROVE StatusInv'
  OBVIOUS
<1>1. ASSUME NEW r \in Reader, Arrive(r) \/ Handle(r) \/ Fail(r) PROVE StatusInv'
  BY <1>1, ArriveStep, HitStep, StaleHitStep, WaitStep, LeadStep, FillStep,
     LandStep, FailStep
  DEF Handle, Expire
<1>2. ASSUME NEW r \in Reader, NEW s \in Source, Read(r, s) PROVE StatusInv'
  BY <1>2, ReadStep
<1>3. ASSUME NEW s \in Source, Write(s) PROVE StatusInv'
  BY <1>3, WriteStep
<1>4. CASE Tick
  BY <1>4, TickStep
<1>5. CASE UNCHANGED vars
  BY <1>5
  DEF StatusInv, TypeOK, OneFlight, Fetching, Answered, Ordered, Current, Aged,
      Recent, Evicted, MonotoneReads, StaleServedOnce, vars
<1>. QED
  BY <1>1, <1>2, <1>3, <1>4, <1>5 DEF Next, Quiet

\* Every reachable state of the cache satisfies the inductive invariant.
THEOREM StatusInvariant == Spec => []StatusInv
<1>1. Init => StatusInv
  BY StatusInit
<1>2. StatusInv /\ [Next]_vars => StatusInv'
  BY TypeStep, StatusStep DEF StatusInv
<1>. QED
  BY <1>1, <1>2, PTL DEF Spec

\* Whoever has seen a version never sees an older one in a later request to
\* the replica: GetStatus stores entries in the order in which they were read.
THEOREM ReadsAreMonotone == Spec => []MonotoneReads
<1>1. StatusInv => MonotoneReads
  BY DEF StatusInv
<1>. QED
  BY <1>1, StatusInvariant, PTL

\* lookupCache serves an entry past its time to one request only.
THEOREM StaleIsServedOnce == Spec => []StaleServedOnce
<1>1. StatusInv => StaleServedOnce
  BY DEF StatusInv
<1>. QED
  BY <1>1, StatusInvariant, PTL

(***************************************************************************)
(* How old an answer is                                                    *)
(***************************************************************************)

\* The step of FreshEnough, without its subscript.
Young(r, s) ==
    /\ answer'[r] # answer[r] /\ answer'[r] # Error
    /\ ~answer'[r].stale
    /\ answer'[r].tags[s] < Current(s)
    => ended[s][answer'[r].tags[s] + 1] + Ttl + FetchTimeout > now

LEMMA FreshStep ==
    StatusInv /\ TypeOK' /\ [Next]_vars => \A r \in Reader, s \in Source : Young(r, s)
<1>. SUFFICES ASSUME StatusInv, TypeOK', [Next]_vars,
                     NEW r \in Reader, NEW s \in Source,
                     answer'[r] # answer[r], answer'[r] # Error, ~answer'[r].stale,
                     answer'[r].tags[s] < Current(s)
              PROVE  ended[s][answer'[r].tags[s] + 1] + Ttl + FetchTimeout > now
  BY DEF Young
<1>. USE StatusConstants DEF StatusInv
<1>. DEFINE end == ended[s][answer'[r].tags[s] + 1]
<1>0. now \in Nat /\ deadline \in [Reader -> Nat]
  BY DEF TypeOK
<1>1. answer'[r] \in Answer => end \in Nat
  BY SMTT(30) DEF TypeOK, Answer, Matrix, Version, Current
<1>. HIDE DEF end
<1>2. ASSUME NEW q \in Reader, Hit(q) PROVE end + Ttl + FetchTimeout > now
  <2>1. q = r /\ answer'[r] = Cached(FALSE)
    BY <1>2 DEF Hit, TypeOK
  <2>2. cache \in Entry /\ now - cache.fetchedAt < Ttl
    BY <1>2 DEF Hit, Fresh, TypeOK
  <2>3. answer'[r] \in Answer /\ answer'[r].tags = cache.tags
    BY <2>1, <2>2 DEF Cached, Entry, Answer
  <2>4. cache.fetchedAt <= end + FetchTimeout
    BY <2>2, <2>3, <1>2 DEF Aged, Recent, Hit, Fresh, end
  <2>. QED
    BY <2>2, <2>3, <2>4, <1>1, <1>0 DEF Entry
<1>3. ASSUME NEW q \in Reader, StaleHit(q) PROVE FALSE
  <2>1. q = r /\ answer'[r] = Cached(TRUE)
    BY <1>3 DEF StaleHit, TypeOK
  <2>. QED
    BY <2>1 DEF Cached
<1>4. ASSUME NEW q \in Reader, Fill(q) PROVE end + Ttl + FetchTimeout > now
  <2>1. q = r /\ answer'[r].tags = fetch[r] /\ fetch[r][s] # None /\ phase[r] = "lead"
    BY <1>4 DEF Fill, TypeOK
  <2>2. answer'[r] \in Answer
    BY <1>4, <2>1, ReadIsMatrix DEF Fill, TypeOK, Answer
  <2>3. now <= deadline[r] /\ deadline[r] <= end + FetchTimeout
    BY <2>1 DEF Aged, Recent, Fetching, end
  <2>. QED
    BY <2>2, <2>3, <1>1, <1>0
<1>5. ASSUME NEW q \in Reader, Land(q) PROVE end + Ttl + FetchTimeout > now
  <2>1. phase[q] = "filled" /\ answer[q] \in Answer /\ answer'[r] = answer[q]
    BY <1>5 DEF Land, Return, OneFlight, TypeOK
  <2>2. now <= deadline[q] /\ deadline[q] <= end + FetchTimeout
    BY <2>1 DEF Aged, Recent, Fetching, end
  <2>. QED
    BY <2>1, <2>2, <1>1, <1>0
<1>6. ASSUME NEW q \in Reader, Fail(q) PROVE FALSE
  BY <1>6 DEF Fail, Return, TypeOK
<1>7. answer' = answer
      \/ \E q \in Reader : Hit(q) \/ StaleHit(q) \/ Fill(q) \/ Land(q) \/ Fail(q)
  BY DEF Next, Handle, Arrive, Miss, Lead, Join, Read, Expire, Write, Tick, Quiet, vars
<1>. QED
  BY <1>2, <1>3, <1>4, <1>5, <1>6, <1>7 DEF end

\* An answer of GetStatus not marked stale says of each source what it was at
\* some time in the last Ttl + FetchTimeout.
THEOREM AnswersAreFresh == Spec => FreshEnough
<1>1. StatusInv /\ StatusInv' /\ [Next]_vars =>
          [\A r \in Reader, s \in Source : Young(r, s)]_vars
  BY FreshStep DEF StatusInv
<1>. QED
  BY <1>1, StatusInvariant, PTL DEF Spec, FreshEnough, Young

==============================================================================
