--------------------------- MODULE LongPollProofs ---------------------------
(***************************************************************************)
(* Proofs about the long poll: what the object that parks the requests     *)
(* remembers is enough, a request ends early only with a cause, and paging *)
(* by created_at skips only the stragglers, for any number of clients and  *)
(* emails, any batch and any timeout.                                      *)
(***************************************************************************)
EXTENDS LongPoll, FiniteSetTheorems, WellFoundedInduction, TLAPS

Step == {"idle", "list", "call", "parked", "poll", "relist"}

Poll == [step : Step, since : Nat, deadline : Nat, asks : Nat]

News == [given : [Client -> SUBSET Mail], start : [Client -> Nat], seen : [Client -> Nat],
         late : SUBSET (Client \X Mail), full : SUBSET (Client \X Nat),
         early : SUBSET {"stray", "deleted", "nothing"}, strays : SUBSET Client]

PollType ==
    /\ clock \in Nat \ {0}
    /\ email \in [Mail -> [step : {"due", "taken", "stored", "told"}, at : Nat, gone : BOOLEAN]]
    /\ waiter \in [last : Nat, pending : SUBSET Client]
    /\ poll \in [Client -> Poll]
    /\ breaks \in Nat
    /\ news \in News

Told == {m \in Mail : email[m].step = "told"}

\* The clock is never behind a created_at nor behind what a client has seen.
TimesPass ==
    /\ \A m \in Mail : email[m].at <= clock
    /\ \A c \in Client : Busy(c) => poll[c].since = news.seen[c]

\* The object knows of the requests parked in it, and of a message told last.
ObjectKnows ==
    /\ \A c \in waiter.pending : At(c, "parked")
    /\ waiter.last > 0 => \E m \in Told : email[m].at = waiter.last
    /\ breaks = 0 =>
         /\ \A m \in Mail : email[m].step = "told" => email[m].at <= waiter.last
         /\ \A c \in waiter.pending : waiter.last <= poll[c].since

\* A request that is about to answer, whatever it finds, has no time left, was woken
\* for a message that is not newer than its since, or comes after a newer one was told.
WokenForSomething ==
    \A c \in Client : At(c, "relist") =>
        \/ c \in news.strays
        \/ clock >= poll[c].deadline
        \/ \E m \in Told : email[m].at > poll[c].since

PollInvariant ==
    /\ PollType /\ TimesPass /\ ObjectKnows /\ WokenForSomething
    /\ EmptyNeedsCause /\ SkipsOnlyStragglers
-----------------------------------------------------------------------------
(* Numbers and pages *)

\* Numbers that are some have a least.
LEMMA LeastNumber ==
  ASSUME NEW T \in SUBSET Nat, T # {}
  PROVE  \E x \in T : \A y \in T : x <= y
<1> DEFINE R == OpToRel(<, Nat)
<1>1. \E x \in T : \A y \in T : ~ (<<y, x>> \in R)
  BY NatLessThanWellFounded, WFMin, Zenon
<1>2. \A x, y \in Nat : y < x => <<y, x>> \in R
  BY DEF OpToRel
<1> HIDE DEF R
<1>3. PICK x \in T : \A y \in T : ~ (<<y, x>> \in R)
  BY <1>1
<1>4. \A y \in T : ~ (y < x)
  BY <1>2, <1>3
<1>5. QED
  BY <1>4

\* Numbers that are some and bounded have a greatest.
LEMMA GreatestNumber ==
  ASSUME NEW T \in SUBSET Nat, T # {}, NEW b \in Nat, \A t \in T : t <= b
  PROVE  \E x \in T : \A y \in T : y <= x
<1> DEFINE U == {u \in Nat : \A t \in T : t <= u}
<1>1. U \in SUBSET Nat /\ U # {}
  OBVIOUS
<1>2. PICK u \in U : \A v \in U : u <= v
  BY <1>1, LeastNumber
<1>3. u \in T
  <2> SUFFICES ASSUME u \notin T PROVE FALSE
    OBVIOUS
  <2>1. \A t \in T : t < u
    OBVIOUS
  <2>2. u > 0
    <3>1. PICK t \in T : TRUE
      OBVIOUS
    <3>2. t \in Nat /\ t < u
      BY <2>1
    <3>3. QED
      BY <3>2
  <2>3. u - 1 \in U
    BY <2>1, <2>2
  <2>4. QED
    BY <1>2, <2>3
<1>4. QED
  BY <1>3

\* Newest is the greatest of the created_at of a page and of least.
LEMMA NewestFacts ==
  ASSUME PollInvariant, NEW S \in SUBSET Mail, NEW least \in Nat
  PROVE  /\ Newest(S, least) \in Nat
         /\ Newest(S, least) \in {least} \cup {email[m].at : m \in S}
         /\ Newest(S, least) >= least /\ \A m \in S : Newest(S, least) >= email[m].at
<1> DEFINE T == {least} \cup {email[m].at : m \in S}
<1>1. T \in SUBSET Nat /\ T # {} /\ \A m \in S : email[m].at \in T /\ email[m].at \in Nat
  BY DEF PollInvariant, PollType
<1>2. clock + least \in Nat /\ \A t \in T : t <= clock + least
  BY DEF PollInvariant, PollType, TimesPass
<1>3. PICK x \in T : \A y \in T : y <= x
  BY <1>1, <1>2, GreatestNumber
<1>4. \A m \in S : x >= email[m].at /\ x >= least
  BY <1>1, <1>3
<1>5. \E t \in T : \A m \in S : t >= email[m].at /\ t >= least
  BY <1>4
<1>6. Newest(S, least) \in T /\ \A m \in S : Newest(S, least) >= email[m].at /\ Newest(S, least) >= least
  BY <1>5 DEF Newest
<1>7. Newest(S, least) >= least
  <2>1. CASE S = {}
    BY <1>6, <2>1
  <2>2. CASE S # {}
    BY <1>6, <2>2
  <2>3. QED
    BY <2>1, <2>2
<1>8. QED
  BY <1>1, <1>6, <1>7

\* A page holds only what is newer than its since, the oldest of it, is empty only when
\* there is nothing, and leaves something out only when it is full.
LEMMA PageFacts ==
  ASSUME PollInvariant, NEW since \in Nat, NEW S \in Pages(since)
  PROVE  /\ S \subseteq Stored /\ S \in SUBSET Mail /\ \A m \in S : email[m].at > since
         /\ S = {} => \A m \in Stored : ~(email[m].at > since)
         /\ \A n \in Stored : email[n].at > since /\ n \notin S =>
              /\ S # {} /\ Cardinality(S) = WaitBatch
              /\ \A m \in S : email[m].at <= email[n].at
<1> DEFINE found == {m \in Stored : email[m].at > since}
<1>1. /\ S \in SUBSET found
      /\ \A m \in S, n \in found \ S : email[m].at <= email[n].at
      /\ Cardinality(S) = IF Cardinality(found) < WaitBatch THEN Cardinality(found) ELSE WaitBatch
  BY DEF Pages
<1>2. found \in SUBSET Mail /\ S \in SUBSET Mail
  BY <1>1 DEF Stored, Landed, Told
<1>3. IsFiniteSet(found) /\ IsFiniteSet(S) /\ WaitBatch \in Nat \ {0}
  BY <1>2, FS_Subset, LongPollAssumption DEF LongPollAssumption
<1>4. Cardinality(found) \in Nat /\ Cardinality(S) \in Nat
  BY <1>3, FS_CardinalityType
<1>5. S = {} => found = {}
  <2>1. S = {} => Cardinality(S) = 0
    BY FS_EmptySet
  <2>2. Cardinality(found) = 0 => found = {}
    BY <1>3, FS_EmptySet
  <2>3. QED
    BY <1>1, <1>3, <1>4, <2>1, <2>2
<1>6. S # found => Cardinality(S) = WaitBatch
  <2>1. Cardinality(S) = Cardinality(found) => S = found
    BY <1>1, <1>3, FS_Subset
  <2>2. QED
    BY <1>1, <1>4, <2>1
<1>7. QED
  BY <1>1, <1>2, <1>5, <1>6

-----------------------------------------------------------------------------
(* The steps *)

\* The invariant of the long poll holds at first.
LEMMA PollInvariantInit == PollInit => PollInvariant
<1> SUFFICES ASSUME PollInit PROVE PollInvariant
  OBVIOUS
<1>1. Quiet \in Poll /\ Quiet.step = "idle"
  BY DEF Quiet, Poll, Step
<1>2. news \in News
  BY DEF PollInit, News
<1>3. PollType
  BY <1>1, <1>2 DEF PollInit, PollType
<1>4. TimesPass /\ ObjectKnows /\ WokenForSomething
  BY <1>1 DEF PollInit, TimesPass, ObjectKnows, WokenForSomething, Busy, At
<1>5. EmptyNeedsCause /\ SkipsOnlyStragglers
  BY DEF PollInit, EmptyNeedsCause, SkipsOnlyStragglers, Stored, Landed, Told
<1>6. QED
  BY <1>3, <1>4, <1>5 DEF PollInvariant

\* The clock only makes more requests due.
LEMMA PollTickKeeps == ASSUME PollInvariant, PollTick PROVE PollInvariant'
<1> USE DEF PollInvariant
<1>1. clock' = clock + 1 /\ UNCHANGED <<email, waiter, poll, breaks, news>>
  BY DEF PollTick
<1>2. PollType'
  BY <1>1 DEF PollType
<1>3. TimesPass'
  <2>1. \A m \in Mail : email[m].at \in Nat /\ email[m].at <= clock /\ clock \in Nat
    BY DEF PollType, TimesPass
  <2>2. \A m \in Mail : email'[m].at <= clock'
    BY <1>1, <2>1
  <2>3. QED
    BY <1>1, <2>2 DEF TimesPass, Busy
<1>4. ObjectKnows'
  BY <1>1 DEF ObjectKnows, At, Stored, Landed, Told
<1>5. WokenForSomething'
  <2>1. \A c \in Client : poll[c].deadline \in Nat
    BY DEF PollType, Poll
  <2>2. \A c \in Client : clock >= poll[c].deadline => clock' >= poll[c].deadline
    BY <1>1, <2>1 DEF PollType
  <2>3. QED
    BY <1>1, <2>2 DEF WokenForSomething, At, Stored, Landed, Told
<1>6. (EmptyNeedsCause /\ SkipsOnlyStragglers)'
  BY <1>1 DEF EmptyNeedsCause, SkipsOnlyStragglers, Stored, Landed, Told
<1>7. QED
  BY <1>2, <1>3, <1>4, <1>5, <1>6

\* An email that takes its created_at is not stored yet.
LEMMA AcceptKeeps == ASSUME PollInvariant, NEW m \in Mail, Accept(m) PROVE PollInvariant'
<1> USE DEF PollInvariant
<1>1. /\ email[m].step = "due" /\ email' = [email EXCEPT ![m].step = "taken", ![m].at = clock]
      /\ UNCHANGED <<clock, waiter, poll, breaks, news>>
  BY DEF Accept
<1>2. PollType'
  BY <1>1 DEF PollType
<1>3. /\ email'[m].step = "taken" /\ email'[m].at = clock
      /\ \A n \in Mail \ {m} : email'[n] = email[n]
  BY <1>1 DEF PollType
<1>4. /\ Stored' = Stored /\ \A n \in Stored : email'[n] = email[n]
      /\ Told' = Told /\ \A n \in Told : email'[n] = email[n]
  BY <1>1, <1>3 DEF Stored, Landed, Told
<1>5. TimesPass'
  BY <1>1, <1>3 DEF TimesPass, Busy, PollType
<1>6. ObjectKnows'
  BY <1>1, <1>3, <1>4 DEF ObjectKnows, At
<1>7. WokenForSomething'
  BY <1>1, <1>4 DEF WokenForSomething, At
<1>8. (EmptyNeedsCause /\ SkipsOnlyStragglers)'
  BY <1>1, <1>4 DEF EmptyNeedsCause, SkipsOnlyStragglers
<1>9. QED
  BY <1>2, <1>5, <1>6, <1>7, <1>8

\* An email inserted behind what a client has seen is late for it.
LEMMA InsertKeeps == ASSUME PollInvariant, NEW m \in Mail, Insert(m) PROVE PollInvariant'
<1> USE DEF PollInvariant
<1> DEFINE passed == {<<c, m>> : c \in {d \in Client : news.seen[d] >= email[m].at}}
<1>1. /\ email[m].step = "taken" /\ email' = [email EXCEPT ![m].step = "stored"]
      /\ news' = [news EXCEPT !.late = @ \cup passed]
      /\ UNCHANGED <<clock, waiter, poll, breaks>>
  BY DEF Insert
<1>2. /\ email'[m].step = "stored" /\ email'[m].at = email[m].at
      /\ \A n \in Mail \ {m} : email'[n] = email[n]
      /\ email' \in [Mail -> [step : {"due", "taken", "stored", "told"}, at : Nat, gone : BOOLEAN]]
  BY <1>1 DEF PollType
<1>3. /\ Stored' \subseteq Stored \cup {m} /\ Told' = Told
      /\ \A n \in Mail : email'[n].at = email[n].at
  BY <1>1, <1>2 DEF Stored, Landed, Told
<1>4. /\ news'.given = news.given /\ news'.start = news.start /\ news'.seen = news.seen
      /\ news'.full = news.full /\ news'.early = news.early /\ news'.strays = news.strays
      /\ news'.late = news.late \cup passed /\ news' \in News
  <2>1. passed \in SUBSET (Client \X Mail)
    OBVIOUS
  <2> HIDE DEF passed
  <2>2. QED
    BY <1>1, <2>1 DEF PollType, News
<1>5. PollType'
  BY <1>1, <1>2, <1>4 DEF PollType
<1>6. TimesPass'
  BY <1>1, <1>3, <1>4 DEF TimesPass, Busy
<1>7. ObjectKnows'
  BY <1>1, <1>2, <1>3 DEF ObjectKnows, At
<1>8. WokenForSomething'
  BY <1>1, <1>3, <1>4 DEF WokenForSomething, At
<1>9. EmptyNeedsCause'
  BY <1>4 DEF EmptyNeedsCause
<1>10. SkipsOnlyStragglers'
  <2> SUFFICES ASSUME NEW c \in Client, NEW n \in Stored', email[n].at > news.start[c],
                      email[n].at <= news.seen[c], n \notin news.given[c]
               PROVE  <<c, n>> \in news'.late \/ <<c, email[n].at>> \in news.full
    BY <1>3, <1>4 DEF SkipsOnlyStragglers, Stored, Landed, Told
  <2>1. CASE n \in Stored
    BY <1>4, <2>1 DEF SkipsOnlyStragglers
  <2>2. CASE n = m
    <3>1. news.seen[c] >= email[m].at
      BY <2>2 DEF PollType, News
    <3>2. QED
      BY <1>4, <2>2, <3>1
  <2>3. QED
    BY <1>3, <2>1, <2>2
<1>11. QED
  BY <1>5, <1>6, <1>7, <1>8, <1>9, <1>10

\* A deletion takes nothing back from what the object was told.
LEMMA DeleteMailKeeps == ASSUME PollInvariant, NEW m \in Mail, DeleteMail(m) PROVE PollInvariant'
<1> USE DEF PollInvariant
<1>1. /\ email' = [email EXCEPT ![m].gone = TRUE] /\ UNCHANGED <<clock, waiter, poll, breaks, news>>
  BY DEF DeleteMail
<1>2. PollType' /\ \A n \in Mail : email'[n].at = email[n].at /\ email'[n].step = email[n].step
  BY <1>1 DEF PollType
<1>3. Stored' \subseteq Stored /\ Told' = Told
  BY <1>1, <1>2 DEF Stored, Landed, Told, PollType
<1>4. TimesPass'
  BY <1>1, <1>2 DEF TimesPass, Busy
<1>5. ObjectKnows' /\ WokenForSomething'
  BY <1>1, <1>2, <1>3 DEF ObjectKnows, WokenForSomething, At, Told
<1>6. EmptyNeedsCause' /\ SkipsOnlyStragglers'
  BY <1>1, <1>2, <1>3 DEF EmptyNeedsCause, SkipsOnlyStragglers, Stored, Landed
<1>7. QED
  BY <1>2, <1>4, <1>5, <1>6

\* A notification wakes every parked request, for the email or as a stray.
LEMMA TellKeeps == ASSUME PollInvariant, NEW m \in Mail, Tell(m) PROVE PollInvariant'
<1> USE DEF PollInvariant
<1> DEFINE at == email[m].at
           woken == {c \in waiter.pending : poll[c].since >= at}
<1>1. /\ email[m].step = "stored" /\ email' = [email EXCEPT ![m].step = "told"]
      /\ waiter' = [last |-> LastNotifiedAt(at), pending |-> {}]
      /\ poll' = [c \in Client |-> IF c \in waiter.pending
                                   THEN [poll[c] EXCEPT !.step = "relist"] ELSE poll[c]]
      /\ news' = [news EXCEPT !.strays = @ \cup woken]
      /\ UNCHANGED <<clock, breaks>>
  BY DEF Tell
<1>2. /\ email'[m].step = "told" /\ \A n \in Mail : email'[n].at = email[n].at
      /\ \A n \in Mail \ {m} : email'[n] = email[n]
      /\ email' \in [Mail -> [step : {"due", "taken", "stored", "told"}, at : Nat, gone : BOOLEAN]]
  BY <1>1 DEF PollType
<1>3. Stored' = Stored /\ Told' = Told \cup {m}
  BY <1>1, <1>2 DEF Stored, Landed, Told
<1>4. at \in Nat /\ waiter.last \in Nat /\ waiter.pending \in SUBSET Client
  BY DEF PollType
<1>5. /\ waiter'.last \in Nat /\ waiter'.last >= at /\ waiter'.last >= waiter.last
      /\ waiter'.last = at \/ waiter'.last = waiter.last
      /\ waiter'.pending = {}
      /\ waiter' \in [last : Nat, pending : SUBSET Client]
  BY <1>1, <1>4 DEF LastNotifiedAt
<1>6. /\ news'.given = news.given /\ news'.start = news.start /\ news'.seen = news.seen
      /\ news'.full = news.full /\ news'.early = news.early /\ news'.late = news.late
      /\ news'.strays = news.strays \cup woken /\ news' \in News
  BY <1>1, <1>4 DEF PollType, News
<1>7. /\ poll' \in [Client -> Poll]
      /\ \A c \in Client : /\ poll'[c].since = poll[c].since /\ poll'[c].deadline = poll[c].deadline
                           /\ c \in waiter.pending => poll'[c].step = "relist"
                           /\ c \notin waiter.pending => poll'[c].step = poll[c].step
  BY <1>1 DEF PollType, Poll, Step
<1>8. PollType'
  BY <1>1, <1>2, <1>5, <1>6, <1>7 DEF PollType
<1>9. TimesPass'
  <2>1. \A c \in Client : Busy(c)' => Busy(c)
    BY <1>7 DEF ObjectKnows, Busy, At
  <2>2. QED
    BY <1>1, <1>2, <1>6, <1>7, <2>1 DEF TimesPass
<1>10. ObjectKnows'
  <2>1. waiter'.last > 0 => \E n \in Told' : email[n].at = waiter'.last
    BY <1>3, <1>4, <1>5 DEF ObjectKnows
  <2>2. ASSUME breaks = 0, NEW n \in Mail, email'[n].step = "told"
        PROVE  email[n].at <= waiter'.last
    <3>1. CASE n = m
      BY <1>4, <1>5, <3>1
    <3>2. CASE n # m
      <4>1. email[n].at <= waiter.last /\ email[n].at \in Nat
        BY <1>2, <2>2, <3>2 DEF ObjectKnows, PollType
      <4>2. QED
        BY <1>4, <1>5, <4>1
    <3>3. QED
      BY <3>1, <3>2
  <2>3. QED
    BY <1>1, <1>2, <1>3, <1>5, <2>1, <2>2 DEF ObjectKnows
<1>11. WokenForSomething'
  <2> SUFFICES ASSUME NEW c \in Client, poll'[c].step = "relist"
               PROVE  \/ c \in news'.strays
                      \/ clock >= poll[c].deadline
                      \/ \E n \in Told' : email[n].at > poll[c].since
    BY <1>1, <1>2, <1>3, <1>7 DEF WokenForSomething, At, Stored, Landed, Told
  <2>1. CASE c \in waiter.pending
    <3>1. poll[c].since \in Nat
      BY DEF PollType, Poll
    <3>2. CASE poll[c].since >= at
      BY <1>6, <2>1, <3>2
    <3>3. CASE at > poll[c].since
      BY <1>3, <3>3
    <3>4. QED
      BY <1>4, <3>1, <3>2, <3>3
  <2>2. CASE c \notin waiter.pending
    BY <1>3, <1>6, <1>7, <2>2 DEF WokenForSomething, At
  <2>3. QED
    BY <2>1, <2>2
<1>12. (EmptyNeedsCause /\ SkipsOnlyStragglers)'
  BY <1>2, <1>3, <1>6 DEF EmptyNeedsCause, SkipsOnlyStragglers, Stored, Landed, Told
<1>13. QED
  BY <1>8, <1>9, <1>10, <1>11, <1>12

\* A notification that is lost is a break.
LEMMA TellLostKeeps == ASSUME PollInvariant, NEW m \in Mail, TellLost(m) PROVE PollInvariant'
<1> USE DEF PollInvariant
<1>1. /\ email[m].step = "stored" /\ email' = [email EXCEPT ![m].step = "told"]
      /\ breaks' = breaks + 1 /\ UNCHANGED <<clock, waiter, poll, news>>
  BY DEF TellLost
<1>2. PollType' /\ \A n \in Mail : email'[n].at = email[n].at
  BY <1>1 DEF PollType
<1>3. Stored' = Stored /\ Told' = Told \cup {m}
  BY <1>1 DEF Stored, Landed, Told, PollType
<1>4. breaks' # 0
  BY <1>1 DEF PollType
<1>5. TimesPass' /\ WokenForSomething'
  BY <1>1, <1>2, <1>3 DEF TimesPass, WokenForSomething, Busy, At, Stored, Landed, Told
<1>6. ObjectKnows'
  BY <1>1, <1>2, <1>3, <1>4 DEF ObjectKnows, At, Stored, Landed, Told
<1>7. (EmptyNeedsCause /\ SkipsOnlyStragglers)'
  BY <1>1, <1>2, <1>3 DEF EmptyNeedsCause, SkipsOnlyStragglers, Stored, Landed, Told
<1>8. QED
  BY <1>2, <1>5, <1>6, <1>7

\* An evicted object knows of no message, and parks nobody.
LEMMA EvictKeeps == ASSUME PollInvariant, Evict PROVE PollInvariant'
<1> USE DEF PollInvariant
<1>1. /\ breaks' = breaks + 1 /\ waiter' = [last |-> 0, pending |-> {}]
      /\ poll' = [c \in Client |-> IF c \in waiter.pending
                                   THEN [poll[c] EXCEPT !.step = "poll"] ELSE poll[c]]
      /\ UNCHANGED <<clock, email, news>>
  BY DEF Evict
<1>2. /\ poll' \in [Client -> Poll]
      /\ \A c \in Client : /\ poll'[c].since = poll[c].since /\ poll'[c].deadline = poll[c].deadline
                           /\ c \in waiter.pending => poll'[c].step = "poll"
                           /\ c \notin waiter.pending => poll'[c].step = poll[c].step
  BY <1>1 DEF PollType, Poll, Step
<1>3. PollType'
  BY <1>1, <1>2 DEF PollType
<1>4. breaks' # 0
  BY <1>1 DEF PollType
<1>5. TimesPass'
  <2>1. \A c \in Client : Busy(c)' => Busy(c)
    BY <1>2 DEF ObjectKnows, Busy, At
  <2>2. QED
    BY <1>1, <1>2, <2>1 DEF TimesPass
<1>6. ObjectKnows'
  BY <1>1, <1>4 DEF ObjectKnows
<1>7. WokenForSomething'
  BY <1>1, <1>2 DEF WokenForSomething, At, Stored, Landed, Told
<1>8. (EmptyNeedsCause /\ SkipsOnlyStragglers)'
  BY <1>1 DEF EmptyNeedsCause, SkipsOnlyStragglers, Stored, Landed, Told
<1>9. QED
  BY <1>3, <1>5, <1>6, <1>7, <1>8

\* A step of one client that leaves the emails, the clock and the history alone, and
\* touches what the object knows of nobody else.
LEMMA ClientMoves ==
  ASSUME PollInvariant, NEW c \in Client, NEW step \in Step, Move(c, step), Busy(c),
         UNCHANGED <<clock, email, news>>, breaks' \in Nat, breaks' = 0 => breaks = 0,
         waiter' \in [last : Nat, pending : SUBSET Client], waiter'.last = waiter.last,
         \/ step = "parked" /\ waiter'.pending = waiter.pending \cup {c} /\ waiter.last <= poll[c].since
         \/ step # "parked" /\ waiter'.pending = waiter.pending \ {c},
         step = "relist" => \/ clock >= poll[c].deadline
                            \/ \E m \in Told : email[m].at > poll[c].since
  PROVE  PollInvariant'
<1> USE DEF PollInvariant
<1>1. /\ poll' \in [Client -> Poll]
      /\ poll'[c].step = step /\ poll'[c].since = poll[c].since /\ poll'[c].deadline = poll[c].deadline
      /\ \A d \in Client \ {c} : poll'[d] = poll[d]
  BY DEF Move, PollType, Poll
<1>2. PollType'
  BY <1>1 DEF PollType
<1>3. TimesPass'
  BY <1>1 DEF TimesPass, Busy
<1>4. Stored' = Stored /\ Told' = Told
  BY DEF Stored, Landed, Told
<1>5. ObjectKnows'
  <2>1. \A d \in waiter'.pending : (d = c /\ step = "parked") \/ d \in waiter.pending \ {c}
    OBVIOUS
  <2>2. \A d \in waiter'.pending : poll'[d].step = "parked"
    BY <1>1, <2>1 DEF ObjectKnows, At, PollType
  <2>3. breaks' = 0 => \A d \in waiter'.pending : waiter.last <= poll'[d].since
    BY <1>1, <2>1 DEF ObjectKnows, PollType
  <2>4. QED
    BY <1>4, <2>2, <2>3 DEF ObjectKnows, At
<1>6. WokenForSomething'
  BY <1>1, <1>4 DEF WokenForSomething, At
<1>7. (EmptyNeedsCause /\ SkipsOnlyStragglers)'
  BY <1>4 DEF EmptyNeedsCause, SkipsOnlyStragglers
<1>8. QED
  BY <1>2, <1>3, <1>5, <1>6, <1>7

\* A request is parked only when nothing newer was told.
LEMMA ParkKeeps == ASSUME PollInvariant, NEW c \in Client, Park(c) PROVE PollInvariant'
<1> USE DEF PollInvariant
<1>1. /\ poll[c].step = "call" /\ UNCHANGED <<clock, email, breaks, news>>
      /\ IF waiter.last > poll[c].since
         THEN Move(c, "relist") /\ UNCHANGED waiter
         ELSE Move(c, "parked") /\ waiter' = [waiter EXCEPT !.pending = @ \cup {c}]
  BY DEF Park, At
<1>2. /\ waiter \in [last : Nat, pending : SUBSET Client] /\ poll[c].since \in Nat /\ breaks \in Nat
      /\ waiter.last \in Nat /\ Busy(c) /\ c \notin waiter.pending
  BY <1>1 DEF PollType, Poll, Busy, ObjectKnows, At
<1>3. CASE waiter.last > poll[c].since
  <2>1. \E m \in Told : email[m].at > poll[c].since
    BY <1>2, <1>3 DEF ObjectKnows
  <2>2. waiter.pending = waiter.pending \ {c}
    BY <1>2
  <2>3. QED
    BY <1>1, <1>2, <1>3, <2>1, <2>2, ClientMoves DEF Step
<1>4. CASE ~(waiter.last > poll[c].since)
  <2>1. waiter.last <= poll[c].since
    BY <1>2, <1>4
  <2>2. /\ waiter'.pending = waiter.pending \cup {c} /\ waiter'.last = waiter.last
        /\ waiter' \in [last : Nat, pending : SUBSET Client]
    BY <1>1, <1>2, <1>4
  <2>3. QED
    BY <1>1, <1>2, <1>4, <2>1, <2>2, ClientMoves DEF Step
<1>5. QED
  BY <1>3, <1>4

\* A call that throws falls back to polling.
LEMMA ParkFailsKeeps == ASSUME PollInvariant, NEW c \in Client, ParkFails(c) PROVE PollInvariant'
<1> USE DEF PollInvariant
<1>1. /\ poll[c].step = "call" /\ Move(c, "poll") /\ breaks' = breaks + 1
      /\ UNCHANGED <<clock, email, waiter, news>>
  BY DEF ParkFails, At
<1>2. /\ waiter \in [last : Nat, pending : SUBSET Client] /\ breaks' \in Nat /\ breaks' # 0
      /\ Busy(c) /\ waiter.pending = waiter.pending \ {c}
  BY <1>1 DEF PollType, Busy, ObjectKnows, At
<1>3. QED
  BY <1>1, <1>2, ClientMoves DEF Step

\* A request whose time is up is woken.
LEMMA TimerKeeps == ASSUME PollInvariant, NEW c \in Client, Timer(c) PROVE PollInvariant'
<1> USE DEF PollInvariant
<1>1. /\ poll[c].step = "parked" /\ clock >= poll[c].deadline /\ Move(c, "relist")
      /\ waiter' = [waiter EXCEPT !.pending = @ \ {c}] /\ UNCHANGED <<clock, email, breaks, news>>
  BY DEF Timer, At, Due
<1>2. /\ waiter'.pending = waiter.pending \ {c} /\ waiter'.last = waiter.last
      /\ waiter' \in [last : Nat, pending : SUBSET Client] /\ Busy(c) /\ breaks' \in Nat
  BY <1>1 DEF PollType, Busy
<1>3. QED
  BY <1>1, <1>2, ClientMoves DEF Step

\* A request starts where its client was.
LEMMA AskKeeps ==
  ASSUME PollInvariant, NEW c \in Client, Ask(c, IF news.seen[c] = 0 THEN clock ELSE news.seen[c])
  PROVE  PollInvariant'
<1> USE DEF PollInvariant
<1> DEFINE since == IF news.seen[c] = 0 THEN clock ELSE news.seen[c]
           p == [step |-> "list", since |-> since, asks |-> poll[c].asks + 1, deadline |-> clock + Timeout]
<1>1. /\ ~Busy(c) /\ poll' = [poll EXCEPT ![c] = p]
      /\ news' = IF news.seen[c] = 0
                 THEN [news EXCEPT !.start[c] = since, !.seen[c] = since] ELSE news
      /\ UNCHANGED <<clock, email, waiter, breaks>>
  BY DEF Ask
<1>2. since \in Nat
  BY DEF PollType, News
<1>3. p \in Poll /\ p.step = "list" /\ p.since = since
  BY <1>2, LongPollAssumption DEF LongPollAssumption, Poll, Step, PollType
<1> HIDE DEF p
<1>4. /\ poll' \in [Client -> Poll] /\ poll'[c].step = "list" /\ poll'[c].since = since
      /\ \A d \in Client \ {c} : poll'[d] = poll[d]
  BY <1>1, <1>3 DEF PollType
<1>5. /\ news'.start = [news.start EXCEPT ![c] = IF news.seen[c] = 0 THEN since ELSE @]
      /\ news'.seen = [news.seen EXCEPT ![c] = since]
      /\ news'.given = news.given /\ news'.full = news.full /\ news'.early = news.early
      /\ news'.late = news.late /\ news'.strays = news.strays /\ news' \in News
  <2>1. CASE news.seen[c] = 0
    BY <1>1, <1>2, <2>1 DEF PollType, News
  <2>2. CASE news.seen[c] # 0
    BY <1>1, <1>2, <2>2 DEF PollType, News
  <2>3. QED
    BY <2>1, <2>2
<1>6. PollType'
  BY <1>1, <1>4, <1>5 DEF PollType
<1>7. TimesPass'
  BY <1>1, <1>4, <1>5 DEF TimesPass, Busy, PollType, News
<1>8. Stored' = Stored /\ Told' = Told /\ c \notin waiter.pending
  BY <1>1 DEF Stored, Landed, Told, ObjectKnows, Busy, At
<1>9. ObjectKnows'
  BY <1>1, <1>4, <1>8 DEF ObjectKnows, At, PollType
<1>10. WokenForSomething'
  BY <1>1, <1>4, <1>5, <1>8 DEF WokenForSomething, At
<1>11. EmptyNeedsCause'
  BY <1>5 DEF EmptyNeedsCause
<1>12. SkipsOnlyStragglers'
  <2> SUFFICES ASSUME NEW d \in Client, NEW m \in Stored, email[m].at > news'.start[d],
                      email[m].at <= news'.seen[d], m \notin news.given[d]
               PROVE  <<d, m>> \in news.late \/ <<d, email[m].at>> \in news.full
    BY <1>1, <1>5, <1>8 DEF SkipsOnlyStragglers
  <2>1. CASE d # c \/ news.seen[c] # 0
    <3>1. news'.start[d] = news.start[d] /\ news'.seen[d] = news.seen[d]
      BY <1>5, <2>1 DEF PollType, News
    <3>2. QED
      BY <3>1 DEF SkipsOnlyStragglers
  <2>2. CASE d = c /\ news.seen[c] = 0
    <3>1. news'.start[c] = since /\ news'.seen[c] = since
      BY <1>5, <2>2 DEF PollType, News
    <3>2. email[m].at \in Nat
      BY DEF Stored, Landed, Told, PollType
    <3>3. QED
      BY <1>2, <2>2, <3>1, <3>2
  <2>3. QED
    BY <2>1, <2>2
<1>13. QED
  BY <1>6, <1>7, <1>9, <1>10, <1>11, <1>12

\* An answer makes the client idle, and what it has seen now is the newest of the page.
LEMMA AnswerFacts ==
  ASSUME PollInvariant, NEW c \in Client, NEW S \in SUBSET Mail, Answer(c, S)
  PROVE  /\ PollType' /\ UNCHANGED <<clock, email, waiter, breaks>>
         /\ poll'[c].step = "idle" /\ \A d \in Client \ {c} : poll'[d] = poll[d]
         /\ news'.given = [news.given EXCEPT ![c] = @ \cup S]
         /\ news'.seen = [news.seen EXCEPT ![c] = Newest(S, news.seen[c])]
         /\ news'.full = IF Cardinality(S) = WaitBatch THEN news.full \cup {<<c, Newest(S, 0)>>}
                         ELSE news.full
         /\ news'.early = IF S = {} /\ clock < poll[c].deadline
                          THEN news.early \cup {Cause(c)} ELSE news.early
         /\ news'.strays = news.strays \ {c}
         /\ news'.start = news.start /\ news'.late = news.late
<1> USE DEF PollInvariant
<1> DEFINE p == [Quiet EXCEPT !.asks = poll[c].asks]
           top == Newest(S, news.seen[c])
           mark == <<c, Newest(S, 0)>>
           kind == Cause(c)
           full == IF Cardinality(S) = WaitBatch THEN news.full \cup {mark} ELSE news.full
           early == IF S = {} /\ clock < poll[c].deadline THEN news.early \cup {kind} ELSE news.early
<1>1. /\ poll' = [poll EXCEPT ![c] = p] /\ UNCHANGED <<clock, email, waiter, breaks>>
      /\ news' = [news EXCEPT !.given[c] = @ \cup S, !.seen[c] = top, !.full = full, !.early = early,
                              !.strays = @ \ {c}]
  BY DEF Answer
<1>2. p \in Poll /\ p.step = "idle"
  BY DEF Quiet, Poll, Step, PollType
<1>3. top \in Nat /\ mark \in Client \X Nat /\ kind \in {"stray", "deleted", "nothing"}
  BY NewestFacts DEF PollType, News, Cause
<1>4. full \in SUBSET (Client \X Nat) /\ early \in SUBSET {"stray", "deleted", "nothing"}
  BY <1>3 DEF PollType, News
<1> HIDE DEF p, top, mark, kind, full, early
<1>5. /\ poll' \in [Client -> Poll] /\ poll'[c].step = "idle"
      /\ \A d \in Client \ {c} : poll'[d] = poll[d]
  BY <1>1, <1>2 DEF PollType
<1>6. /\ news'.given = [news.given EXCEPT ![c] = @ \cup S]
      /\ news'.seen = [news.seen EXCEPT ![c] = top]
      /\ news'.full = full /\ news'.early = early /\ news'.strays = news.strays \ {c}
      /\ news'.start = news.start /\ news'.late = news.late
      /\ news' = [given |-> news'.given, start |-> news'.start, seen |-> news'.seen, late |-> news'.late,
                  full |-> news'.full, early |-> news'.early, strays |-> news'.strays]
  BY <1>1 DEF PollType, News
<1>7. news' \in News
  BY <1>3, <1>4, <1>6 DEF PollType, News
<1>8. PollType'
  BY <1>1, <1>5, <1>7 DEF PollType
<1>9. QED
  BY <1>1, <1>5, <1>6, <1>8 DEF top, mark, kind, full, early

\* A page is all a request is answered with, once there is something, no time left, or it
\* was woken.
LEMMA AnswerKeeps ==
  ASSUME PollInvariant, NEW c \in Client, NEW S \in Pages(poll[c].since), Answer(c, S),
         Busy(c), c \notin waiter.pending,
         S = {} => poll[c].step = "relist" \/ clock >= poll[c].deadline
  PROVE  PollInvariant'
<1> USE DEF PollInvariant
<1> DEFINE since == poll[c].since
<1>1. since \in Nat /\ since = news.seen[c] /\ poll[c].deadline \in Nat /\ clock \in Nat
  BY DEF PollType, Poll, TimesPass
<1>2. /\ S \subseteq Stored /\ S \in SUBSET Mail /\ \A m \in S : email[m].at > since
      /\ S = {} => \A m \in Stored : ~(email[m].at > since)
      /\ \A n \in Stored : email[n].at > since /\ n \notin S =>
           /\ S # {} /\ Cardinality(S) = WaitBatch
           /\ \A m \in S : email[m].at <= email[n].at
  BY <1>1, PageFacts
<1>3. /\ PollType' /\ UNCHANGED <<clock, email, waiter, breaks>>
      /\ poll'[c].step = "idle" /\ \A d \in Client \ {c} : poll'[d] = poll[d]
      /\ news'.given = [news.given EXCEPT ![c] = @ \cup S]
      /\ news'.seen = [news.seen EXCEPT ![c] = Newest(S, news.seen[c])]
      /\ news'.full = IF Cardinality(S) = WaitBatch THEN news.full \cup {<<c, Newest(S, 0)>>}
                      ELSE news.full
      /\ news'.early = IF S = {} /\ clock < poll[c].deadline
                       THEN news.early \cup {Cause(c)} ELSE news.early
      /\ news'.strays = news.strays \ {c}
      /\ news'.start = news.start /\ news'.late = news.late
  BY <1>2, AnswerFacts
<1>4. Stored' = Stored /\ Told' = Told
  BY <1>3 DEF Stored, Landed, Told
<1>5. TimesPass'
  BY <1>3 DEF TimesPass, Busy, PollType, News
<1>6. ObjectKnows'
  BY <1>3, <1>4 DEF ObjectKnows, At, PollType
<1>7. WokenForSomething'
  BY <1>3, <1>4 DEF WokenForSomething, At
<1>8. EmptyNeedsCause'
  <2>1. S = {} /\ clock < poll[c].deadline /\ c \notin news.strays => Withdrawn(c)
    <3>1. SUFFICES ASSUME S = {}, clock < poll[c].deadline, c \notin news.strays
                   PROVE  Withdrawn(c)
      OBVIOUS
    <3>2. PICK m \in Told : email[m].at > poll[c].since
      BY <1>1, <3>1 DEF WokenForSomething, At
    <3>3. m \notin Stored
      BY <1>2, <3>1, <3>2
    <3>4. QED
      BY <3>2, <3>3 DEF Withdrawn, Stored, Landed, Told
  <2>2. QED
    BY <1>3, <2>1 DEF EmptyNeedsCause, Cause
<1>9. SkipsOnlyStragglers'
  <2> SUFFICES ASSUME NEW d \in Client, NEW m \in Stored, email[m].at > news.start[d],
                      email[m].at <= news'.seen[d], m \notin news'.given[d]
               PROVE  <<d, m>> \in news.late \/ <<d, email[m].at>> \in news'.full
    BY <1>3, <1>4 DEF SkipsOnlyStragglers
  <2>1. m \notin news.given[d] /\ news.full \subseteq news'.full
    BY <1>3 DEF PollType, News
  <2>2. CASE email[m].at <= news.seen[d]
    BY <2>1, <2>2 DEF SkipsOnlyStragglers
  <2>3. CASE ~(email[m].at <= news.seen[d])
    <3>1. d = c /\ email[m].at \in Nat /\ m \in Mail
      BY <1>3, <2>3 DEF PollType, News, Stored, Landed, Told
    <3>2. email[m].at > since /\ m \notin S /\ email[m].at <= Newest(S, since)
      BY <1>1, <1>3, <2>3, <3>1 DEF PollType, News
    <3>3. S # {} /\ Cardinality(S) = WaitBatch /\ \A n \in S : email[n].at <= email[m].at
      BY <1>2, <3>2
    <3>4. /\ Newest(S, since) \in {since} \cup {email[n].at : n \in S}
          /\ Newest(S, 0) \in {0} \cup {email[n].at : n \in S}
          /\ \A n \in S : Newest(S, 0) >= email[n].at /\ Newest(S, since) >= email[n].at
          /\ Newest(S, 0) \in Nat
      BY <1>1, <1>2, NewestFacts
    <3>5. PICK n \in S : email[n].at = Newest(S, since)
      BY <1>1, <3>1, <3>2, <3>4
    <3>6. email[n].at = email[m].at /\ email[n].at \in Nat
      <4>1. email[n].at \in Nat
        BY <1>2 DEF PollType
      <4>2. email[m].at <= email[n].at /\ email[n].at <= email[m].at
        BY <3>2, <3>3, <3>5
      <4>3. QED
        BY <3>1, <4>1, <4>2
    <3>7. Newest(S, 0) = email[m].at
      <4>1. Newest(S, 0) >= email[m].at /\ email[m].at > 0
        BY <1>1, <3>1, <3>2, <3>4, <3>6
      <4>2. PICK k \in S : Newest(S, 0) = email[k].at
        BY <3>1, <3>4, <4>1
      <4>3. Newest(S, 0) <= email[m].at
        BY <3>3, <4>2
      <4>4. QED
        BY <3>1, <3>4, <4>1, <4>3
    <3>8. QED
      BY <1>3, <3>1, <3>3, <3>7
  <2>4. QED
    BY <2>2, <2>3
<1>10. QED
  BY <1>3, <1>5, <1>6, <1>7, <1>8, <1>9

\* The first query answers with what it finds.
LEMMA ListKeeps == ASSUME PollInvariant, NEW c \in Client, List(c) PROVE PollInvariant'
<1> USE DEF PollInvariant
<1>1. poll[c].step = "list" /\ Busy(c) /\ c \notin waiter.pending
  BY DEF List, At, Busy, ObjectKnows
<1>2. PICK S \in Pages(poll[c].since) :
        IF S = {} THEN Move(c, "call") /\ UNCHANGED <<clock, email, waiter, breaks, news>>
        ELSE Answer(c, S)
  BY DEF List
<1>3. CASE S = {}
  <2>1. /\ Move(c, "call") /\ UNCHANGED <<clock, email, waiter, breaks, news>>
        /\ waiter \in [last : Nat, pending : SUBSET Client] /\ breaks \in Nat
        /\ waiter.pending = waiter.pending \ {c}
    BY <1>1, <1>2, <1>3 DEF PollType
  <2>2. QED
    BY <1>1, <2>1, ClientMoves DEF Step
<1>4. CASE S # {}
  BY <1>1, <1>2, <1>4, AnswerKeeps
<1>5. QED
  BY <1>3, <1>4

\* A request that was woken answers with what is there.
LEMMA RelistKeeps == ASSUME PollInvariant, NEW c \in Client, Relist(c) PROVE PollInvariant'
<1>1. poll[c].step = "relist" /\ Busy(c) /\ c \notin waiter.pending
  BY DEF Relist, At, Busy, PollInvariant, ObjectKnows
<1>2. PICK S \in Pages(poll[c].since) : Answer(c, S)
  BY DEF Relist
<1>3. QED
  BY <1>1, <1>2, AnswerKeeps

\* A round of polling answers with what it finds, or at the deadline.
LEMMA PollRoundKeeps == ASSUME PollInvariant, NEW c \in Client, PollRound(c) PROVE PollInvariant'
<1>1. poll[c].step = "poll" /\ Busy(c) /\ c \notin waiter.pending
  BY DEF PollRound, At, Busy, PollInvariant, ObjectKnows
<1>2. PICK S \in Pages(poll[c].since) : (S # {} \/ clock >= poll[c].deadline) /\ Answer(c, S)
  BY DEF PollRound, Due
<1>3. QED
  BY <1>1, <1>2, AnswerKeeps

\* Every step of the long poll keeps the invariant.
LEMMA PollInvariantNext == PollInvariant /\ [PollNext]_pollVars => PollInvariant'
<1>1. ASSUME PollInvariant, PollNext PROVE PollInvariant'
  <2>1. CASE PollTick \/ Evict
    BY <1>1, <2>1, PollTickKeeps, EvictKeeps
  <2>2. CASE Arrivals
    BY <1>1, <2>2, AcceptKeeps, InsertKeeps, TellKeeps, TellLostKeeps, DeleteMailKeeps DEF Arrivals
  <2>3. ASSUME NEW c \in Client, WaitStep(c) PROVE PollInvariant'
    BY <1>1, <2>3, ListKeeps, ParkKeeps, ParkFailsKeeps, TimerKeeps, RelistKeeps, PollRoundKeeps
    DEF WaitStep
  <2>4. QED
    BY <1>1, <2>1, <2>2, <2>3, AskKeeps DEF PollNext
<1>2. ASSUME PollInvariant, UNCHANGED pollVars PROVE PollInvariant'
  BY <1>2 DEF pollVars, PollInvariant, PollType, TimesPass, ObjectKnows, WokenForSomething,
              EmptyNeedsCause, SkipsOnlyStragglers, Busy, At, Stored, Landed, Told
<1>3. QED
  BY <1>1, <1>2

(* The invariant, and what follows from it (waiter.ts and waitForMessage),     *)
(* for any number of clients and emails.                                       *)
THEOREM PollInvariantHolds == PollSpec => []PollInvariant
BY PollInvariantInit, PollInvariantNext, PTL DEF PollSpec

(* While the object lives and hears of every email, no request is parked       *)
(* behind a notification it was waiting for (waiter.ts).                       *)
THEOREM NothingIsMissed == PollSpec => []ParkedMissesNothing
<1>1. PollInvariant => ParkedMissesNothing
  <2> SUFFICES ASSUME PollInvariant, breaks = 0, NEW c \in waiter.pending, NEW m \in Mail,
                      email[m].step = "told"
               PROVE  email[m].at <= poll[c].since
    BY DEF ParkedMissesNothing
  <2>1. email[m].at <= waiter.last /\ waiter.last <= poll[c].since
    BY DEF PollInvariant, ObjectKnows
  <2>2. email[m].at \in Nat /\ waiter.last \in Nat /\ poll[c].since \in Nat
    BY DEF PollInvariant, PollType, Poll
  <2>3. QED
    BY <2>1, <2>2
<1>2. QED
  BY <1>1, PollInvariantHolds, PTL

(* A request that ends early with nothing was woken for a message that is not  *)
(* newer than its since, or comes after a newer one that was told and has been *)
(* deleted; what was told and is there is in its answer (waitForMessage).      *)
THEOREM EarlyHasACause == PollSpec => []EmptyNeedsCause
<1>1. PollInvariant => EmptyNeedsCause
  BY DEF PollInvariant
<1>2. QED
  BY <1>1, PollInvariantHolds, PTL

(* A client that pages by created_at misses only a message inserted behind it, *)
(* or one that shares the created_at of the last of a full page                *)
(* (listMessagesSince).                                                        *)
THEOREM OnlyStragglersSkipped == PollSpec => []SkipsOnlyStragglers
<1>1. PollInvariant => SkipsOnlyStragglers
  BY DEF PollInvariant
<1>2. QED
  BY <1>1, PollInvariantHolds, PTL
=============================================================================
