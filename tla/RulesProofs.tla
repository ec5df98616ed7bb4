---------------------------- MODULE RulesProofs ----------------------------
(***************************************************************************)
(* Proofs about the rules of the edges: one send over a transport, for any *)
(* replies and recipients; who may call what, for any accounts, keys,      *)
(* inboxes and requests; what evidence the door adds to a verdict; and the *)
(* DMARC totals, for any reports, mails and failures.                      *)
(***************************************************************************)
EXTENDS Transports, Access, Intake, Dmarc, SequenceTheorems, FiniteSetTheorems,
        WellFoundedInduction, TLAPS

-----------------------------------------------------------------------------
(* Sums over finite sets *)

\* The sum of f over S, and the equation of the function that computes it.
Total(f, S) == MapThenSumSet(LAMBDA x : f[x], S)

Pick(s) == CHOOSE x \in s : TRUE

SumsUp(g, f, S) ==
    g = [s \in SUBSET S |-> IF s = {} THEN 0 ELSE f[Pick(s)] + g[s \ {Pick(s)}]]

\* What is picked from a set is in it.
LEMMA PickFacts == ASSUME NEW s, s # {} PROVE Pick(s) \in s
BY DEF Pick

\* A sum is the value at the whole set of the function that sums up.
LEMMA TotalIsChosen ==
  ASSUME NEW f, NEW S
  PROVE  Total(f, S) = (CHOOSE g : SumsUp(g, f, S))[S]
BY DEF Total, MapThenSumSet, MapThenFoldSet, SumsUp, Pick

\* Induction over the subsets of a finite set, as a fact about a set of them.
LEMMA SubsetInduction ==
  ASSUME NEW S, IsFiniteSet(S), NEW T,
         \A s \in SUBSET S : (\A r \in SUBSET s : r # s => r \in T) => s \in T
  PROVE  \A s \in SUBSET S : s \in T
<1> DEFINE Rest == {s \in SUBSET S : s \notin T}
           R == StrictSubsetOrdering(S)
<1> SUFFICES ASSUME Rest # {} PROVE FALSE
  OBVIOUS
<1>1. IsWellFoundedOn(R, SUBSET S)
  <2>1. IsWellFoundedOn(StrictSubsetOrdering(S), FiniteSubsetsOf(S))
    BY ONLY FS_StrictSubsetOrderingWellFounded
  <2>2. FiniteSubsetsOf(S) = SUBSET S
    BY ONLY IsFiniteSet(S), FS_FiniteSubsetsOfFinite
  <2> QED
    BY ONLY <2>1, <2>2
<1>2. Rest \subseteq SUBSET S
  OBVIOUS
<1> HIDE DEF Rest, R
<1>3. PICK s \in Rest : \A r \in Rest : ~(<<r, s>> \in R)
  BY ONLY <1>1, <1>2, Rest # {}, WFMin
<1>4. \A r \in SUBSET s : r # s => r \in T
  <2> SUFFICES ASSUME NEW r \in SUBSET s, r # s, r \notin T PROVE FALSE
    OBVIOUS
  <2>1. s \in SUBSET S /\ r \in SUBSET S
    BY <1>2
  <2>2. r \in Rest
    BY <2>1 DEF Rest
  <2>3. <<r, s>> \in R
    BY <2>1 DEF R, StrictSubsetOrdering
  <2> QED
    BY <2>2, <2>3, <1>3
<1> QED
  BY <1>2, <1>4 DEF Rest

\* Two functions that sum up agree on the sets they share.
LEMMA SumsUpUnique ==
  ASSUME NEW S, IsFiniteSet(S), NEW R, NEW f, NEW e, NEW g, NEW h,
         SumsUp(g, f, S), SumsUp(h, e, R), S \subseteq R, \A x \in S : f[x] = e[x]
  PROVE  \A s \in SUBSET S : g[s] = h[s]
<1> DEFINE T == {s \in SUBSET S : g[s] = h[s]}
<1>1. ASSUME NEW s \in SUBSET S, \A r \in SUBSET s : r # s => r \in T
      PROVE  s \in T
  <2>1. g[s] = IF s = {} THEN 0 ELSE f[Pick(s)] + g[s \ {Pick(s)}]
    BY DEF SumsUp
  <2>2. h[s] = IF s = {} THEN 0 ELSE e[Pick(s)] + h[s \ {Pick(s)}]
    BY DEF SumsUp
  <2>3. CASE s = {}
    BY <2>1, <2>2, <2>3
  <2>4. CASE s # {}
    <3>1. Pick(s) \in s
      BY <2>4, PickFacts
    <3>2. s \ {Pick(s)} \in T
      BY <3>1, <1>1
    <3>3. f[Pick(s)] = e[Pick(s)]
      BY <3>1
    <3> QED
      BY <2>1, <2>2, <2>4, <3>2, <3>3
  <2> QED
    BY <2>3, <2>4
<1> HIDE DEF T
<1>2. \A s \in SUBSET S : s \in T
  BY <1>1, SubsetInduction
<1> QED
  BY <1>2 DEF T

\* There is a function that sums up the subsets of a finite set.
LEMMA SumsUpExists ==
  ASSUME NEW S, IsFiniteSet(S), NEW f
  PROVE  \A s \in SUBSET S : SumsUp(CHOOSE g : SumsUp(g, f, s), f, s)
<1> DEFINE G(s) == CHOOSE g : SumsUp(g, f, s)
           T == {s \in SUBSET S : SumsUp(G(s), f, s)}
<1>1. ASSUME NEW s \in SUBSET S, \A r \in SUBSET s : r # s => r \in T
      PROVE  s \in T
  <2> DEFINE g == [r \in SUBSET s |-> IF r = {} THEN 0 ELSE f[Pick(r)] + G(r \ {Pick(r)})[r \ {Pick(r)}]]
  <2>1. ASSUME NEW r \in SUBSET s, r # s PROVE g[r] = G(r)[r]
    <3>1. SumsUp(G(r), f, r)
      BY <1>1, <2>1
    <3> HIDE DEF G
    <3>2. G(r)[r] = IF r = {} THEN 0 ELSE f[Pick(r)] + G(r)[r \ {Pick(r)}]
      BY <3>1 DEF SumsUp
    <3>3. CASE r = {}
      BY <3>2, <3>3
    <3>4. CASE r # {}
      <4> DEFINE q == r \ {Pick(r)}
      <4>1. Pick(r) \in r
        BY <3>4, PickFacts
      <4>2. q \in SUBSET s /\ q # s /\ q \subseteq r
        BY <4>1
      <4>3. SumsUp(G(q), f, q)
        BY <4>2, <1>1
      <4>4. IsFiniteSet(q)
        BY <4>2, FS_Subset
      <4>5. G(q)[q] = G(r)[q]
        BY <4>2, <4>3, <4>4, <3>1, SumsUpUnique
      <4>6. g[r] = f[Pick(r)] + G(q)[q]
        BY <3>4
      <4> QED
        BY <4>5, <4>6, <3>2, <3>4
    <3> QED
      BY <3>3, <3>4
  <2>2. ASSUME NEW r \in SUBSET s
        PROVE  g[r] = IF r = {} THEN 0 ELSE f[Pick(r)] + g[r \ {Pick(r)}]
    <3>1. CASE r = {}
      BY <3>1
    <3>2. CASE r # {}
      <4>1. Pick(r) \in r
        BY <3>2, PickFacts
      <4>2. r \ {Pick(r)} \in SUBSET s /\ r \ {Pick(r)} # s
        BY <4>1
      <4>3. g[r \ {Pick(r)}] = G(r \ {Pick(r)})[r \ {Pick(r)}]
        BY <4>2, <2>1
      <4>4. g[r] = f[Pick(r)] + G(r \ {Pick(r)})[r \ {Pick(r)}]
        BY <3>2
      <4> QED
        BY <4>3, <4>4, <3>2
    <3> QED
      BY <3>1, <3>2
  <2>3. SumsUp(g, f, s)
    <3> DEFINE h == [r \in SUBSET s |-> IF r = {} THEN 0 ELSE f[Pick(r)] + g[r \ {Pick(r)}]]
    <3>1. g \in [SUBSET s -> {g[r] : r \in SUBSET s}] /\ DOMAIN g = SUBSET s
      OBVIOUS
    <3>2. \A r \in SUBSET s : g[r] = h[r]
      BY <2>2
    <3>3. g = [r \in SUBSET s |-> g[r]]
      OBVIOUS
    <3> HIDE DEF g
    <3> QED
      BY <3>2, <3>3 DEF SumsUp
  <2>4. SumsUp(G(s), f, s)
    BY <2>3
  <2> QED
    BY <2>4
<1> HIDE DEF T
<1>2. \A s \in SUBSET S : s \in T
  BY <1>1, SubsetInduction
<1> QED
  BY <1>2 DEF T

\* The sum over nothing is 0, and a sum takes the picked element first.
LEMMA TotalUnfolds ==
  ASSUME NEW S, IsFiniteSet(S), NEW f
  PROVE  Total(f, S) = IF S = {} THEN 0 ELSE f[Pick(S)] + Total(f, S \ {Pick(S)})
<1> DEFINE G(s) == CHOOSE g : SumsUp(g, f, s)
<1>1. \A s \in SUBSET S : SumsUp(G(s), f, s) /\ Total(f, s) = G(s)[s]
  BY SumsUpExists, TotalIsChosen
<1> HIDE DEF G
<1>2. CASE S = {}
  BY <1>1, <1>2 DEF SumsUp
<1>3. CASE S # {}
  <2> DEFINE q == S \ {Pick(S)}
  <2>1. q \in SUBSET S /\ IsFiniteSet(q)
    BY FS_Subset
  <2>2. G(q)[q] = G(S)[q]
    BY <2>1, <1>1, SumsUpUnique
  <2>3. SumsUp(G(S), f, S)
    BY <1>1
  <2>4. G(S)[S] = f[Pick(S)] + G(S)[q]
    BY <1>3, <2>3 DEF SumsUp
  <2> QED
    BY <1>1, <1>3, <2>1, <2>2, <2>4
<1> QED
  BY <1>2, <1>3

\* A sum of numbers is a number.
LEMMA TotalIsNat ==
  ASSUME NEW S, IsFiniteSet(S), NEW f, \A x \in S : f[x] \in Nat
  PROVE  Total(f, S) \in Nat
<1> DEFINE T == {s \in SUBSET S : Total(f, s) \in Nat}
<1>1. ASSUME NEW s \in SUBSET S, \A r \in SUBSET s : r # s => r \in T
      PROVE  s \in T
  <2>1. IsFiniteSet(s)
    BY FS_Subset
  <2>2. Total(f, s) = IF s = {} THEN 0 ELSE f[Pick(s)] + Total(f, s \ {Pick(s)})
    BY ONLY <2>1, TotalUnfolds
  <2>3. s # {} => Pick(s) \in s /\ s \ {Pick(s)} \in T
    BY <1>1, PickFacts
  <2> QED
    BY <2>2, <2>3
<1> HIDE DEF T
<1>2. \A s \in SUBSET S : s \in T
  BY <1>1, SubsetInduction
<1> QED
  BY <1>2 DEF T

\* Whichever element is taken first, the sum is the same.
LEMMA TotalSplits ==
  ASSUME NEW S, IsFiniteSet(S), NEW f, \A x \in S : f[x] \in Nat
  PROVE  \A x \in S : Total(f, S) = f[x] + Total(f, S \ {x})
<1> DEFINE T == {s \in SUBSET S : \A x \in s : Total(f, s) = f[x] + Total(f, s \ {x})}
<1>1. ASSUME NEW s \in SUBSET S, \A r \in SUBSET s : r # s => r \in T
      PROVE  s \in T
  <2> SUFFICES ASSUME NEW x \in s PROVE Total(f, s) = f[x] + Total(f, s \ {x})
    OBVIOUS
  <2> DEFINE c == Pick(s)
  <2>1. c \in s
    BY PickFacts
  <2>2. IsFiniteSet(s)
    BY FS_Subset
  <2>3. Total(f, s) = f[c] + Total(f, s \ {c})
    BY ONLY <2>1, <2>2, TotalUnfolds
  <2> HIDE DEF c
  <2>4. CASE x = c
    BY <2>3, <2>4
  <2>5. CASE x # c
    <3>1. s \ {c} \in T /\ s \ {x} \in T /\ (s \ {c}) \ {x} = (s \ {x}) \ {c}
      BY <1>1, <2>1
    <3>2. Total(f, s \ {c}) = f[x] + Total(f, (s \ {c}) \ {x})
      BY <3>1, <2>5
    <3>3. Total(f, s \ {x}) = f[c] + Total(f, (s \ {c}) \ {x})
      BY <3>1, <2>1, <2>5
    <3>4. Total(f, (s \ {c}) \ {x}) \in Nat
      <4>1. IsFiniteSet((s \ {c}) \ {x})
        BY <2>2, FS_Subset
      <4>2. \A y \in (s \ {c}) \ {x} : f[y] \in Nat
        OBVIOUS
      <4> QED
        BY ONLY <4>1, <4>2, TotalIsNat
    <3>5. f[x] \in Nat /\ f[c] \in Nat
      BY <2>1
    <3> QED
      BY ONLY <2>3, <3>2, <3>3, <3>4, <3>5
  <2> QED
    BY <2>4, <2>5
<1> HIDE DEF T
<1>2. \A s \in SUBSET S : s \in T
  BY <1>1, SubsetInduction
<1>3. S \in T
  BY <1>2
<1> QED
  BY <1>3 DEF T

\* A sum over fewer elements is no larger.
LEMMA TotalGrows ==
  ASSUME NEW S, IsFiniteSet(S), NEW f, \A x \in S : f[x] \in Nat
  PROVE  \A r \in SUBSET S : Total(f, r) <= Total(f, S)
<1> DEFINE T == {s \in SUBSET S : \A r \in SUBSET s : Total(f, r) <= Total(f, s)}
<1>1. ASSUME NEW s \in SUBSET S, \A r \in SUBSET s : r # s => r \in T
      PROVE  s \in T
  <2> SUFFICES ASSUME NEW r \in SUBSET s PROVE Total(f, r) <= Total(f, s)
    OBVIOUS
  <2>1. \A q \in SUBSET S : Total(f, q) \in Nat
    BY FS_Subset, TotalIsNat
  <2>2. CASE r = s
    BY <2>1, <2>2
  <2>3. CASE r # s
    <3>1. PICK x \in s : x \notin r
      BY <2>3
    <3>2. s \ {x} \in T /\ r \in SUBSET (s \ {x})
      BY <1>1, <3>1
    <3>3. Total(f, s) = f[x] + Total(f, s \ {x})
      BY FS_Subset, TotalSplits
    <3>4. Total(f, r) <= Total(f, s \ {x})
      BY <3>2
    <3> QED
      BY <2>1, <3>3, <3>4
  <2> QED
    BY <2>2, <2>3
<1> HIDE DEF T
<1>2. \A s \in SUBSET S : s \in T
  BY <1>1, SubsetInduction
<1>3. S \in T
  BY <1>2
<1> QED
  BY <1>3 DEF T

\* Renaming the elements of a set leaves the sum as it is.
LEMMA TotalRenamed ==
  ASSUME NEW S, IsFiniteSet(S), NEW f, NEW e, NEW h,
         \A x \in S : f[x] \in Nat /\ e[h[x]] = f[x],
         \A x, y \in S : h[x] = h[y] => x = y
  PROVE  Total(f, S) = Total(e, {h[x] : x \in S})
<1> DEFINE Image(s) == {h[x] : x \in s}
           T == {s \in SUBSET S : Total(f, s) = Total(e, Image(s))}
<1>1. ASSUME NEW s \in SUBSET S, \A r \in SUBSET s : r # s => r \in T
      PROVE  s \in T
  <2>1. IsFiniteSet(s)
    BY FS_Subset
  <2>2. Total(f, s) = IF s = {} THEN 0 ELSE f[Pick(s)] + Total(f, s \ {Pick(s)})
    BY ONLY <2>1, TotalUnfolds
  <2>3. IsFiniteSet(Image(s))
    <3> DEFINE g == [x \in s |-> h[x]]
    <3>1. g \in Surjection(s, Image(s))
      BY DEF Surjection
    <3> HIDE DEF g
    <3> QED
      BY <2>1, <3>1, FS_Surjection
  <2>4. CASE s = {}
    <3>1. Image(s) = {}
      BY <2>4
    <3>2. Total(e, Image(s)) = 0
      BY ONLY <2>3, <3>1, TotalUnfolds
    <3> QED
      BY <2>2, <2>4, <3>2
  <2>5. CASE s # {}
    <3>1. Pick(s) \in s
      BY <2>5, PickFacts
    <3> DEFINE q == s \ {Pick(s)}
    <3>2. q \in T
      BY <1>1, <3>1
    <3>3. Image(q) = Image(s) \ {h[Pick(s)]}
      BY <3>1
    <3>4. \A y \in Image(s) : e[y] \in Nat
      OBVIOUS
    <3>5. h[Pick(s)] \in Image(s)
      BY <3>1
    <3>6. Total(e, Image(s)) = e[h[Pick(s)]] + Total(e, Image(q))
      <4> HIDE DEF Image
      <4> QED
        BY <2>3, <3>3, <3>4, <3>5, TotalSplits
    <3>7. e[h[Pick(s)]] = f[Pick(s)]
      BY <3>1
    <3> QED
      BY <2>2, <2>5, <3>2, <3>6, <3>7
  <2> QED
    BY <2>4, <2>5
<1> HIDE DEF T
<1>2. \A s \in SUBSET S : s \in T
  BY <1>1, SubsetInduction
<1> QED
  BY <1>2 DEF T

-----------------------------------------------------------------------------
(* Transports *)

Place == {"select", "greeting", "ehlo", "starttls", "auth", "user", "password", "mail", "rcpt",
          "text", "quit", "request", "closed"}

TransportType ==
    /\ session \in [at : Place, rcpt : Nat, secure : BOOLEAN, mechanisms : SUBSET {"PLAIN", "LOGIN"}]
    /\ server \in [taken : BOOLEAN, shown : BOOLEAN, hangups : Nat]

\* Authentication is reached only over TLS, and only the end of the text, or of the
\* request, hands the mail over.
SessionIsOrdered ==
    /\ session.at \in {"auth", "user", "password"} => session.secure
    /\ session.at = "quit" => server.taken
    /\ session.at \notin {"quit", "closed"} => ~server.taken

TransportInvariant ==
    TransportType /\ SessionIsOrdered /\ CredentialsStayInTls /\ FailedMailNeedsHangup

\* The invariant holds at first: nothing was said to the server.
LEMMA TransportInvariantInit == TransportInit => TransportInvariant
<1> SUFFICES ASSUME TransportInit PROVE TransportInvariant
  OBVIOUS
<1>1. /\ session = [at |-> "select", rcpt |-> 0, secure |-> FALSE, mechanisms |-> {}]
      /\ server = [taken |-> FALSE, shown |-> FALSE, hangups |-> 0]
  BY DEF TransportInit
<1>2. session \in [at : Place, rcpt : Nat, secure : BOOLEAN, mechanisms : SUBSET {"PLAIN", "LOGIN"}]
  BY <1>1 DEF Place
<1>3. server \in [taken : BOOLEAN, shown : BOOLEAN, hangups : Nat]
  BY <1>1
<1>4. session.at = "select" /\ ~server.taken /\ ~server.shown
  BY <1>1
<1>5. QED
  BY <1>2, <1>3, <1>4 DEF TransportInvariant, TransportType, SessionIsOrdered,
       CredentialsStayInTls, FailedMailNeedsHangup

\* A step within the session, before the mail is handed over.
LEMMA WithinSession ==
  ASSUME TransportInvariant, session.at \notin {"quit", "closed"},
         session' \in [at : Place \ {"quit", "closed"}, rcpt : Nat, secure : BOOLEAN,
                       mechanisms : SUBSET {"PLAIN", "LOGIN"}],
         session'.at \in {"auth", "user", "password"} => session'.secure,
         server' = server
  PROVE  TransportInvariant'
BY DEF TransportInvariant, TransportType, Place, SessionIsOrdered, CredentialsStayInTls,
       FailedMailNeedsHangup

\* A throw before the mail is handed over leaves none with the server.
LEMMA ThrowsBefore ==
  ASSUME TransportInvariant, session.at \notin {"quit", "closed"}, NEW code, Throw(code),
         code # "sent", server' = server
  PROVE  TransportInvariant'
BY DEF TransportInvariant, TransportType, Place, SessionIsOrdered, CredentialsStayInTls,
       FailedMailNeedsHangup, Throw

\* A move within the session keeps its fields.
LEMMA GoFacts ==
  ASSUME TransportInvariant, NEW where \in Place, Go(where)
  PROVE  /\ session' \in [at : Place, rcpt : Nat, secure : BOOLEAN, mechanisms : SUBSET {"PLAIN", "LOGIN"}]
         /\ session'.at = where /\ session'.secure = session.secure
BY DEF TransportInvariant, TransportType, Go, Place

\* A move to another place before the mail is handed over.
LEMMA GoKeeps ==
  ASSUME TransportInvariant, session.at \notin {"quit", "closed"},
         NEW where \in Place \ {"quit", "closed"}, Go(where), server' = server,
         where \in {"auth", "user", "password"} => session.secure
  PROVE  TransportInvariant'
<1>1. /\ session' \in [at : Place, rcpt : Nat, secure : BOOLEAN, mechanisms : SUBSET {"PLAIN", "LOGIN"}]
      /\ session'.at = where /\ session'.secure = session.secure
  BY GoFacts
<1>2. session' \in [at : Place \ {"quit", "closed"}, rcpt : Nat, secure : BOOLEAN,
                    mechanisms : SUBSET {"PLAIN", "LOGIN"}]
  BY <1>1
<1>3. QED
  BY <1>1, <1>2, WithinSession

\* Selecting the transport and the exchanges up to the authentication keep it.
LEMMA OpeningKeeps ==
  ASSUME TransportInvariant,
         \/ Select
         \/ \E code : Greeting(code) \/ StartTls(code)
         \/ \E code : \E offered \in SUBSET {"PLAIN", "LOGIN"} : Ehlo(code, offered)
  PROVE  TransportInvariant'
<1>1. CASE Select
  <2>1. session.at = "select" /\ server' = server
    BY <1>1 DEF Select
  <2>2. CASE Throw("sender_not_verified")
    BY <2>1, <2>2, ThrowsBefore
  <2>3. CASE Go("request")
    BY <2>1, <2>3, GoKeeps DEF Place
  <2>4. CASE session' = [session EXCEPT !.at = "greeting",
                           !.secure = Security(setup.secure, setup.implicitPort) = "tls"]
    <3>1. (Security(setup.secure, setup.implicitPort) = "tls") \in BOOLEAN
      OBVIOUS
    <3>2. session' \in [at : Place \ {"quit", "closed"}, rcpt : Nat, secure : BOOLEAN,
                        mechanisms : SUBSET {"PLAIN", "LOGIN"}] /\ session'.at = "greeting"
      BY <2>4, <3>1 DEF TransportInvariant, TransportType, Place
    <3>3. QED
      BY <2>1, <3>2, WithinSession
  <2>5. QED
    BY <1>1, <2>2, <2>3, <2>4 DEF Select
<1>2. ASSUME NEW code, Greeting(code) PROVE TransportInvariant'
  BY <1>2, GoKeeps, ThrowsBefore DEF Greeting, Place
<1>3. ASSUME NEW code, StartTls(code) PROVE TransportInvariant'
  <2>1. session.at = "starttls" /\ server' = server
    BY <1>3 DEF StartTls
  <2>2. CASE code # 220
    BY <1>3, <2>1, <2>2, ThrowsBefore DEF StartTls
  <2>3. CASE code = 220
    <3>1. session' = [session EXCEPT !.secure = TRUE, !.at = "ehlo"]
      BY <1>3, <2>3 DEF StartTls
    <3>2. session' \in [at : Place \ {"quit", "closed"}, rcpt : Nat, secure : BOOLEAN,
                        mechanisms : SUBSET {"PLAIN", "LOGIN"}] /\ session'.at = "ehlo"
      BY <3>1 DEF TransportInvariant, TransportType, Place
    <3>3. QED
      BY <2>1, <3>2, WithinSession
  <2>4. QED
    BY <2>2, <2>3
<1>4. ASSUME NEW code, NEW offered \in SUBSET {"PLAIN", "LOGIN"}, Ehlo(code, offered)
      PROVE  TransportInvariant'
  <2>1. session.at = "ehlo" /\ server' = server
    BY <1>4 DEF Ehlo
  <2>2. CASE code # 250
    BY <1>4, <2>1, <2>2, ThrowsBefore DEF Ehlo
  <2>3. CASE code = 250
    <3>1. session' = [session EXCEPT !.mechanisms = offered,
                        !.at = IF session.secure THEN "auth" ELSE "starttls"]
      BY <1>4, <2>3 DEF Ehlo
    <3>2. /\ session' \in [at : Place \ {"quit", "closed"}, rcpt : Nat, secure : BOOLEAN,
                           mechanisms : SUBSET {"PLAIN", "LOGIN"}]
          /\ session'.at = (IF session.secure THEN "auth" ELSE "starttls")
          /\ session'.secure = session.secure
      BY <3>1 DEF TransportInvariant, TransportType, Place
    <3>3. QED
      BY <2>1, <3>2, WithinSession
  <2>4. QED
    BY <2>2, <2>3
<1>5. QED
  BY <1>1, <1>2, <1>3, <1>4

\* The answer to a credential: on to the envelope, or an error.
LEMMA RefusedKeeps ==
  ASSUME TransportInvariant, session.at \in {"auth", "user", "password"}, NEW code, Refused(code),
         server' = server
  PROVE  TransportInvariant'
BY GoKeeps, ThrowsBefore DEF Refused, Place

\* What is shown over TLS is not shown in clear.
LEMMA ShownOverTls ==
  ASSUME TransportInvariant, session.at \in {"auth", "password"},
         server' = [server EXCEPT !.shown = @ \/ ~session.secure]
  PROVE  server' = server
<1>1. session.secure /\ ~server.shown /\ server \in [taken : BOOLEAN, shown : BOOLEAN, hangups : Nat]
  BY DEF TransportInvariant, TransportType, SessionIsOrdered, CredentialsStayInTls
<1>2. (server.shown \/ ~session.secure) = FALSE
  BY <1>1
<1>3. server' = [server EXCEPT !.shown = FALSE] /\ server.shown = FALSE
  BY <1>1, <1>2
<1>4. QED
  BY <1>1, <1>3

\* The authentication keeps it.
LEMMA AuthKeeps ==
  ASSUME TransportInvariant, NEW code, AuthPlain(code) \/ AuthLogin(code) \/ AuthPassword(code)
  PROVE  TransportInvariant'
<1>1. CASE AuthPlain(code)
  BY <1>1, ShownOverTls, RefusedKeeps DEF AuthPlain
<1>2. CASE AuthLogin(code)
  <2>1. session.at \in {"auth", "user"} /\ server' = server /\ session.secure
    BY <1>2 DEF AuthLogin, TransportInvariant, SessionIsOrdered
  <2>2. CASE code # 334
    BY <1>2, <2>1, <2>2, RefusedKeeps DEF AuthLogin
  <2>3. CASE code = 334
    BY <1>2, <2>1, <2>3, GoKeeps DEF AuthLogin, Place
  <2>4. QED
    BY <2>2, <2>3
<1>3. CASE AuthPassword(code)
  BY <1>3, ShownOverTls, RefusedKeeps DEF AuthPassword
<1>4. QED
  BY <1>1, <1>2, <1>3

\* The envelope and DATA keep it.
LEMMA EnvelopeKeeps ==
  ASSUME TransportInvariant, NEW code, MailFrom(code) \/ RcptTo(code) \/ Data(code)
  PROVE  TransportInvariant'
<1>1. CASE MailFrom(code)
  <2>1. session.at = "mail" /\ server' = server
    BY <1>1 DEF MailFrom
  <2>2. Throw("sender_not_verified") \/ Throw("too_many_requests") \/ Go("rcpt")
    BY <1>1 DEF MailFrom
  <2>3. QED
    BY <2>1, <2>2, GoKeeps, ThrowsBefore DEF Place
<1>2. CASE RcptTo(code)
  <2>1. session.at = "rcpt" /\ server' = server
    BY <1>2 DEF RcptTo
  <2>2. \/ Throw("recipient_suppressed") \/ Throw("too_many_requests")
        \/ session' = [session EXCEPT !.rcpt = @ + 1]
    BY <1>2 DEF RcptTo
  <2>3. CASE session' = [session EXCEPT !.rcpt = @ + 1]
    <3>1. session' \in [at : Place \ {"quit", "closed"}, rcpt : Nat, secure : BOOLEAN,
                        mechanisms : SUBSET {"PLAIN", "LOGIN"}] /\ session'.at = "rcpt"
      BY <2>1, <2>3 DEF TransportInvariant, TransportType, Place
    <3>2. QED
      BY <2>1, <3>1, WithinSession
  <2>4. QED
    BY <2>1, <2>2, <2>3, ThrowsBefore
<1>3. CASE Data(code)
  BY <1>3, GoKeeps, ThrowsBefore DEF Data, Place
<1>4. QED
  BY <1>1, <1>2, <1>3

\* What a throw leaves: a closed session with the error thrown.
LEMMA ThrowFacts ==
  ASSUME TransportInvariant, NEW code, Throw(code)
  PROVE  /\ session' \in [at : Place, rcpt : Nat, secure : BOOLEAN, mechanisms : SUBSET {"PLAIN", "LOGIN"}]
         /\ session'.at = "closed" /\ error' = code
BY DEF TransportInvariant, TransportType, Throw, Place

\* A session that is closed keeps the invariant when what it reports is what happened.
LEMMA ClosedKeeps ==
  ASSUME TransportInvariant, NEW code, Throw(code),
         server' \in [taken : BOOLEAN, shown : BOOLEAN, hangups : Nat],
         server'.shown = server.shown, code = "sent" => server'.taken,
         code # "sent" /\ server'.taken => server'.hangups > 0
  PROVE  TransportInvariant'
<1>1. /\ session' \in [at : Place, rcpt : Nat, secure : BOOLEAN, mechanisms : SUBSET {"PLAIN", "LOGIN"}]
      /\ session'.at = "closed" /\ error' = code
  BY ThrowFacts
<1>2. ~server.shown
  BY DEF TransportInvariant, CredentialsStayInTls
<1>3. QED
  BY <1>1, <1>2 DEF TransportInvariant, TransportType, SessionIsOrdered, CredentialsStayInTls,
       FailedMailNeedsHangup

\* The reply to the text decides whether the mail is taken; QUIT changes nothing more.
LEMMA ClosingKeeps ==
  ASSUME TransportInvariant, NEW code, Text(code) \/ Quit(code)
  PROVE  TransportInvariant'
<1>1. server \in [taken : BOOLEAN, shown : BOOLEAN, hangups : Nat]
  BY DEF TransportInvariant, TransportType
<1>2. CASE Text(code)
  <2>1. (code = 250) \in BOOLEAN
    OBVIOUS
  <2>2. /\ server' \in [taken : BOOLEAN, shown : BOOLEAN, hangups : Nat]
        /\ server'.taken = (code = 250) /\ server'.shown = server.shown
    BY <1>1, <1>2, <2>1 DEF Text
  <2>3. CASE code = 250
    <3>1. Go("quit")
      BY <1>2, <2>3 DEF Text
    <3>2. /\ session' \in [at : Place, rcpt : Nat, secure : BOOLEAN, mechanisms : SUBSET {"PLAIN", "LOGIN"}]
          /\ session'.at = "quit"
      BY <3>1, GoFacts DEF Place
    <3>3. ~server.shown
      BY DEF TransportInvariant, CredentialsStayInTls
    <3>4. QED
      BY <2>2, <2>3, <3>2, <3>3 DEF TransportInvariant, TransportType, SessionIsOrdered,
         CredentialsStayInTls, FailedMailNeedsHangup
  <2>4. CASE code # 250
    <3>1. Throw("message_rejected") /\ ~server'.taken
      BY <1>2, <2>2, <2>4 DEF Text
    <3>2. QED
      BY <2>2, <3>1, ClosedKeeps
  <2>5. QED
    BY <2>3, <2>4
<1>3. CASE Quit(code)
  <2>1. session.at = "quit" /\ Throw("sent") /\ server' = server
    BY <1>3 DEF Quit
  <2>2. server.taken
    BY <2>1 DEF TransportInvariant, SessionIsOrdered
  <2>3. QED
    BY <1>1, <2>1, <2>2, ClosedKeeps
<1>4. QED
  BY <1>2, <1>3

\* A broken connection is counted, whether or not the mail was taken.
LEMMA BreakKeeps ==
  ASSUME TransportInvariant, HangUp \/ RequestLost
  PROVE  TransportInvariant'
<1>1. server \in [taken : BOOLEAN, shown : BOOLEAN, hangups : Nat]
  BY DEF TransportInvariant, TransportType
<1>2. PICK code \in {"message_rejected", "internal_error"} : Throw(code)
  BY DEF HangUp, RequestLost
<1>3. PICK t \in BOOLEAN : server' = [server EXCEPT !.hangups = @ + 1, !.taken = t]
  <2>1. {server.taken} \subseteq BOOLEAN
    BY <1>1
  <2>2. CASE HangUp
    <3>1. PICK t \in IF session.at = "text" THEN BOOLEAN ELSE {server.taken} :
            server' = [server EXCEPT !.hangups = @ + 1, !.taken = t]
      BY <2>2 DEF HangUp
    <3>2. t \in BOOLEAN
      BY <2>1, <3>1
    <3>3. QED
      BY <3>1, <3>2
  <2>3. CASE RequestLost
    BY <2>3 DEF RequestLost
  <2>4. QED
    BY <2>2, <2>3
<1>4. /\ server' \in [taken : BOOLEAN, shown : BOOLEAN, hangups : Nat]
      /\ server'.shown = server.shown /\ server'.hangups = server.hangups + 1
  <2>1. server.hangups \in Nat /\ server.shown \in BOOLEAN
    BY <1>1
  <2>2. server' = [taken |-> t, shown |-> server.shown, hangups |-> server.hangups + 1]
    BY <1>1, <1>3
  <2>3. QED
    BY <2>1, <2>2
<1>5. server'.hangups > 0
  BY <1>1, <1>4
<1>6. QED
  BY <1>2, <1>4, <1>5, ClosedKeeps

\* An answer of a provider maps to success only when it is one.
LEMMA MappedSent ==
  ASSUME NEW name, NEW answer \in Answers(name)
  PROVE  (Mapped(name, answer) = "sent") <=> (answer = "ok")
<1>1. CASE name = "cloudflare"
  BY <1>1 DEF Answers, Mapped, CloudflareError
<1>2. CASE name = "ses"
  BY <1>2 DEF Answers, Mapped, SesError
<1>3. CASE name \notin {"cloudflare", "ses"}
  BY <1>3 DEF Answers, Mapped, ResendError
<1>4. QED
  BY <1>1, <1>2, <1>3

\* The one request of the other transports reports what the provider did.
LEMMA RequestKeeps ==
  ASSUME TransportInvariant, NEW answer \in Answers(Selected(setup)), Request(answer)
  PROVE  TransportInvariant'
<1>1. server \in [taken : BOOLEAN, shown : BOOLEAN, hangups : Nat]
  BY DEF TransportInvariant, TransportType
<1>2. (answer = "ok") \in BOOLEAN
  OBVIOUS
<1>3. /\ server' \in [taken : BOOLEAN, shown : BOOLEAN, hangups : Nat]
      /\ server'.taken = (answer = "ok") /\ server'.shown = server.shown
  BY <1>1, <1>2 DEF Request
<1>4. Throw(Mapped(Selected(setup), answer))
  BY DEF Request
<1>5. (Mapped(Selected(setup), answer) = "sent") <=> (answer = "ok")
  BY MappedSent
<1>6. QED
  BY <1>3, <1>4, <1>5, ClosedKeeps

\* Every step keeps the invariant.
LEMMA TransportInvariantNext ==
  TransportInvariant /\ [TransportNext]_transportVars => TransportInvariant'
<1> SUFFICES ASSUME TransportInvariant, [TransportNext]_transportVars PROVE TransportInvariant'
  OBVIOUS
<1>1. CASE Select
  BY <1>1, OpeningKeeps
<1>2. CASE HangUp \/ RequestLost
  BY <1>2, BreakKeeps
<1>3. ASSUME NEW code \in Reply, Replied(code) PROVE TransportInvariant'
  BY <1>3, OpeningKeeps, AuthKeeps, EnvelopeKeeps, ClosingKeeps DEF Replied
<1>4. ASSUME NEW code \in Reply, NEW offered \in SUBSET {"PLAIN", "LOGIN"}, Ehlo(code, offered)
      PROVE  TransportInvariant'
  BY <1>4, OpeningKeeps
<1>5. ASSUME NEW answer \in Answers(Selected(setup)), Request(answer) PROVE TransportInvariant'
  BY <1>5, RequestKeeps
<1>6. CASE UNCHANGED transportVars
  BY <1>6 DEF transportVars, TransportInvariant, TransportType, SessionIsOrdered,
     CredentialsStayInTls, FailedMailNeedsHangup
<1>7. QED
  BY <1>1, <1>2, <1>3, <1>4, <1>5, <1>6 DEF TransportNext

\* In every state of a send.
LEMMA TransportInvariantHolds == TransportSpec => []TransportInvariant
BY TransportInvariantInit, TransportInvariantNext, PTL DEF TransportSpec

(* However the server answers EHLO, STARTTLS and the credentials, and whatever *)
(* the port and SMTP_SECURE are, smtp.ts writes the password to an encrypted   *)
(* connection only.                                                            *)
THEOREM PasswordsStayInTls == TransportSpec => []CredentialsStayInTls
<1>1. TransportInvariant => CredentialsStayInTls
  BY DEF TransportInvariant
<1>2. QED
  BY <1>1, TransportInvariantHolds, PTL

(* For any replies, a send that throws left mail with the provider only if the *)
(* connection broke on the way, and one that returns did hand it over.         *)
THEOREM FailuresAreHonest == TransportSpec => []FailedMailNeedsHangup
<1>1. TransportInvariant => FailedMailNeedsHangup
  BY DEF TransportInvariant
<1>2. QED
  BY <1>1, TransportInvariantHolds, PTL

-----------------------------------------------------------------------------
(* Access: which keys survive a recovery *)

KeyRows == [account : Owner, scopes : {Wildcard} \cup SUBSET Box,
            state : {"live", "pending", "revoked"}, root : Nat]

Requests == [at : {"none", "mint", "activate", "revoke", "redeem", "evict"}, key : Nat,
             scopes : {Wildcard} \cup SUBSET Box, account : Owner \cup {Nobody}]

AccessType ==
    /\ keys \in Seq(KeyRows)
    /\ recovered \in [Owner -> Nat]
    /\ client \in [Client -> Requests]

\* A line of minting stays within an account, and a pending key begins one.
LinesHold ==
    \A k \in KeyIds :
      /\ keys[k].root \in KeyIds
      /\ keys[keys[k].root].account = keys[k].account
      /\ keys[k].state = "pending" => keys[k].root = k

\* A request holds a key that exists; the one it verifies began its line.
RequestsHold ==
    \A c \in Client :
      /\ client[c].at = "mint" => client[c].key \in {TokenKey} \cup KeyIds
      /\ client[c].at \in {"activate", "revoke"} =>
           client[c].key \in KeyIds /\ keys[client[c].key].root = client[c].key
      /\ client[c].at = "redeem" => client[c].account \in Owner

AccessInvariant == AccessType /\ LinesHold /\ RequestsHold /\ SurvivorNeedsOverlap

\* A key of the sequence is a row.
LEMMA KeyFacts ==
  ASSUME AccessInvariant
  PROVE  /\ Len(keys) \in Nat
         /\ \A k \in KeyIds : k \in Nat /\ keys[k] \in KeyRows
BY LenProperties, ElementOfSeq DEF AccessInvariant, AccessType, KeyIds

\* The empty slot of a request.
LEMMA NoClientFacts ==
  NoClient \in Requests /\ NoClient.at = "none"
BY DEF NoClient, Asking, Requests, TokenKey

\* Before any request, one live key that began its own line.
LEMMA AccessInvariantInit == AccessInit => AccessInvariant
<1> SUFFICES ASSUME AccessInit PROVE AccessInvariant
  OBVIOUS
<1>1. PICK a \in Owner : keys = <<KeyRow(a, Wildcard, "live", 1)>>
  BY DEF AccessInit
<1>2. KeyRow(a, Wildcard, "live", 1) \in KeyRows
  BY DEF KeyRow, KeyRows
<1>3. keys \in Seq(KeyRows) /\ Len(keys) = 1 /\ keys[1] = KeyRow(a, Wildcard, "live", 1)
  BY <1>1, <1>2
<1>4. KeyIds = {1}
  BY <1>3 DEF KeyIds
<1>5. recovered \in [Owner -> Nat] /\ recovered[a] = TokenKey
  BY DEF AccessInit, TokenKey
<1>6. /\ client \in [Client -> Requests]
      /\ \A c \in Client : client[c].at = "none"
  BY NoClientFacts DEF AccessInit
<1>7. keys[1].root = 1 /\ keys[1].state = "live" /\ keys[1].account = a
  BY <1>3 DEF KeyRow
<1>8. QED
  BY <1>3, <1>4, <1>5, <1>6, <1>7 DEF AccessInvariant, AccessType, LinesHold, RequestsHold,
     SurvivorNeedsOverlap

\* Steps that leave the keys and the requests alone.
LEMMA SameKeysKeep ==
  ASSUME AccessInvariant, UNCHANGED <<keys, client, recovered, loose, exchanged>>
  PROVE  AccessInvariant'
BY DEF AccessInvariant, AccessType, LinesHold, RequestsHold, SurvivorNeedsOverlap, KeyIds, TokenKey

\* A row added at the end that continues the line of a key of its account, or begins one.
LEMMA KeyAddedKeeps ==
  ASSUME AccessInvariant, NEW row \in KeyRows, keys' = Append(keys, row),
         client' \in [Client -> Requests],
         \A c \in Client : client'[c] = client[c] \/ client'[c].at = "none",
         \A c \in Client : client[c].at = "revoke" => client'[c] = client[c],
         UNCHANGED recovered, loose \subseteq loose', exchanged \subseteq exchanged',
         \/ row.root = Len(keys) + 1
         \/ /\ row.root \in KeyIds /\ keys[row.root].account = row.account
            /\ row.state # "pending",
         \/ row.state # "live" \/ Len(keys) + 1 \in loose'
         \/ row.root = Len(keys) + 1 /\ Len(keys) + 1 \in exchanged'
         \/ \E j \in KeyIds : /\ keys[j].root = row.root /\ keys[j].account = row.account
                              /\ keys[j].state = "live" /\ j \notin loose
  PROVE  AccessInvariant'
<1>1. Len(keys) \in Nat /\ \A k \in KeyIds : k \in Nat /\ keys[k] \in KeyRows
  BY KeyFacts
<1> DEFINE n == Len(keys) + 1
<1>2. /\ keys' \in Seq(KeyRows) /\ Len(keys') = n
      /\ keys'[n] = row /\ \A k \in KeyIds : keys'[k] = keys[k]
  BY AppendProperties DEF AccessInvariant, AccessType, KeyIds
<1>3. KeyIds' = KeyIds \cup {n} /\ n \notin KeyIds /\ n \in Nat
  BY <1>1, <1>2 DEF KeyIds
<1>4. n = Len(keys) + 1
  OBVIOUS
<1> HIDE DEF n
<1>5. AccessType'
  BY <1>2 DEF AccessInvariant, AccessType
<1>6. LinesHold'
  <2> SUFFICES ASSUME NEW k \in KeyIds'
               PROVE  /\ keys'[k].root \in KeyIds'
                      /\ keys'[keys'[k].root].account = keys'[k].account
                      /\ keys'[k].state = "pending" => keys'[k].root = k
    BY DEF LinesHold
  <2>1. CASE k \in KeyIds
    <3>1. /\ keys[k].root \in KeyIds
          /\ keys[keys[k].root].account = keys[k].account
          /\ keys[k].state = "pending" => keys[k].root = k
      BY <2>1 DEF AccessInvariant, LinesHold
    <3>2. keys'[k] = keys[k] /\ keys'[keys[k].root] = keys[keys[k].root]
      BY <1>2, <2>1, <3>1
    <3>3. QED
      BY <1>3, <3>1, <3>2
  <2>2. CASE k = n
    BY <1>2, <1>3, <1>4, <2>2
  <2>3. QED
    BY <1>3, <2>1, <2>2
<1>7. RequestsHold'
  <2> SUFFICES ASSUME NEW c \in Client, client'[c] = client[c]
               PROVE  /\ client[c].at = "mint" => client[c].key \in {TokenKey} \cup KeyIds'
                      /\ client[c].at \in {"activate", "revoke"} =>
                           client[c].key \in KeyIds' /\ keys'[client[c].key].root = client[c].key
                      /\ client[c].at = "redeem" => client[c].account \in Owner
    BY DEF RequestsHold, TokenKey
  <2>1. /\ client[c].at = "mint" => client[c].key \in {TokenKey} \cup KeyIds
        /\ client[c].at \in {"activate", "revoke"} =>
             client[c].key \in KeyIds /\ keys[client[c].key].root = client[c].key
        /\ client[c].at = "redeem" => client[c].account \in Owner
    BY DEF AccessInvariant, RequestsHold
  <2>2. client[c].key \in KeyIds => keys'[client[c].key] = keys[client[c].key]
    BY <1>2
  <2>3. QED
    BY <1>3, <2>1, <2>2
<1>8. SurvivorNeedsOverlap'
  <2> SUFFICES ASSUME NEW k \in KeyIds'
               PROVE  \/ keys'[k].state # "live" \/ recovered[keys'[k].account] = TokenKey
                      \/ k \in loose' \/ keys'[k].root \in loose' \cup exchanged'
                      \/ keys'[k].root = recovered[keys'[k].account]
                      \/ \E c \in Client : client'[c].at = "revoke" /\ keys'[k].root = client'[c].key
    BY DEF SurvivorNeedsOverlap, TokenKey
  <2>1. ASSUME NEW j \in KeyIds
        PROVE  \/ keys[j].state # "live" \/ recovered[keys[j].account] = TokenKey
               \/ j \in loose \/ keys[j].root \in loose' \cup exchanged'
               \/ keys[j].root = recovered[keys[j].account]
               \/ \E c \in Client : client'[c].at = "revoke" /\ keys[j].root = client'[c].key
    BY <2>1 DEF AccessInvariant, SurvivorNeedsOverlap
  <2>2. CASE k \in KeyIds
    <3>1. keys'[k] = keys[k] /\ (k \in loose => k \in loose')
      BY <1>2, <2>2
    <3>2. QED
      BY <2>1, <2>2, <3>1
  <2>3. CASE k = n
    BY <1>2, <1>4, <2>1, <2>3
  <2>4. QED
    BY <1>3, <2>2, <2>3
<1>9. QED
  BY <1>5, <1>6, <1>7, <1>8 DEF AccessInvariant

\* Rows that change their state only.
LEMMA KeysKeptKeep ==
  ASSUME AccessInvariant, keys' \in Seq(KeyRows), Len(keys') = Len(keys),
         \A k \in KeyIds : /\ keys'[k].account = keys[k].account
                           /\ keys'[k].root = keys[k].root
                           /\ keys'[k].state = "pending" => keys[k].state = "pending"
  PROVE  KeyIds' = KeyIds /\ LinesHold'
BY DEF AccessInvariant, LinesHold, KeyIds

\* A client moves, or stays.
LEMMA ClientFacts ==
  ASSUME AccessInvariant, NEW c \in Client
  PROVE  /\ client[c] \in Requests
         /\ client[c].at \in {"activate", "revoke"} =>
              /\ client[c].key \in KeyIds
              /\ keys[client[c].key].root = client[c].key
         /\ client[c].at = "mint" => client[c].key \in {TokenKey} \cup KeyIds
         /\ client[c].at = "redeem" => client[c].account \in Owner
BY DEF AccessInvariant, AccessType, RequestsHold

\* Beginning a request keeps it: a pending key to verify began its line, and a code to
\* redeem is an account's.
LEMMA RequestBegins ==
  ASSUME AccessInvariant, NEW c \in Client,
         \/ \E k \in {TokenKey} \cup KeyIds, S \in {Wildcard} \cup (SUBSET Box \ {{}}) : CreateKeyStart(c, k, S)
         \/ \E k \in KeyIds : VerifyStart(c, k)
         \/ \E a \in Owner : ExchangeStart(c, a)
         \/ \E k \in {TokenKey} \cup KeyIds, a \in Owner : RemoveStart(c, k, a)
  PROVE  AccessInvariant'
<1>0. \A k \in KeyIds : k \in Nat
  BY KeyFacts
<1>1. client[c].at = "none" /\ UNCHANGED <<keys, recovered, loose, exchanged>>
  BY DEF CreateKeyStart, VerifyStart, ExchangeStart, RemoveStart, Free
<1>2. PICK r \in Requests :
        /\ client' = [client EXCEPT ![c] = r]
        /\ \/ r.at = "mint" /\ r.key \in {TokenKey} \cup KeyIds
           \/ r.at = "activate" /\ r.key \in KeyIds /\ keys[r.key].root = r.key
           \/ r.at = "redeem" /\ r.account \in Owner
           \/ r.at = "evict"
  <2>1. ASSUME NEW k \in {TokenKey} \cup KeyIds, NEW S \in {Wildcard} \cup (SUBSET Box \ {{}}),
               CreateKeyStart(c, k, S)
        PROVE  \E r \in Requests :
                 /\ client' = [client EXCEPT ![c] = r]
                 /\ r.at = "mint" /\ r.key \in {TokenKey} \cup KeyIds
    <3>1. k \in Nat
      BY <1>0 DEF TokenKey
    <3> DEFINE r == Asking("mint", k, S, Nobody)
    <3>2. /\ r \in Requests /\ r.at = "mint" /\ r.key = k
      BY <3>1 DEF Requests, Asking
    <3>3. client' = [client EXCEPT ![c] = r]
      BY <2>1 DEF CreateKeyStart
    <3>4. QED
      BY <3>2, <3>3
  <2>2. ASSUME NEW k \in KeyIds, VerifyStart(c, k)
        PROVE  \E r \in Requests :
                 /\ client' = [client EXCEPT ![c] = r]
                 /\ r.at = "activate" /\ r.key \in KeyIds /\ keys[r.key].root = r.key
    <3> DEFINE r == Asking("activate", k, {}, Nobody)
    <3>1. r \in Requests /\ r.at = "activate" /\ r.key = k
      BY <1>0 DEF Requests, Asking
    <3>2. keys[k].root = k
      BY <2>2 DEF VerifyStart, AccessInvariant, LinesHold
    <3>3. client' = [client EXCEPT ![c] = r]
      BY <2>2 DEF VerifyStart
    <3>4. QED
      BY <3>1, <3>2, <3>3
  <2>3. ASSUME NEW a \in Owner, ExchangeStart(c, a)
        PROVE  \E r \in Requests : /\ client' = [client EXCEPT ![c] = r]
                                   /\ r.at = "redeem" /\ r.account \in Owner
    <3> DEFINE r == Asking("redeem", TokenKey, {}, a)
    <3>1. r \in Requests /\ r.at = "redeem" /\ r.account = a
      BY DEF Requests, Asking, TokenKey
    <3>2. client' = [client EXCEPT ![c] = r]
      BY <2>3 DEF ExchangeStart
    <3>3. QED
      BY <3>1, <3>2
  <2>4. ASSUME NEW k, NEW a \in Owner, RemoveStart(c, k, a)
        PROVE  \E r \in Requests : client' = [client EXCEPT ![c] = r] /\ r.at = "evict"
    <3> DEFINE r == Asking("evict", TokenKey, {}, a)
    <3>1. r \in Requests /\ r.at = "evict"
      BY DEF Requests, Asking, TokenKey
    <3>2. client' = [client EXCEPT ![c] = r]
      BY <2>4 DEF RemoveStart
    <3>3. QED
      BY <3>1, <3>2
  <2>5. QED
    BY <2>1, <2>2, <2>3, <2>4
<1>3. /\ client' \in [Client -> Requests] /\ client'[c] = r
      /\ \A d \in Client : d # c => client'[d] = client[d]
  BY <1>2 DEF AccessInvariant, AccessType
<1>4. RequestsHold'
  <2> SUFFICES ASSUME NEW d \in Client
               PROVE  /\ client'[d].at = "mint" => client'[d].key \in {TokenKey} \cup KeyIds
                      /\ client'[d].at \in {"activate", "revoke"} =>
                           client'[d].key \in KeyIds /\ keys[client'[d].key].root = client'[d].key
                      /\ client'[d].at = "redeem" => client'[d].account \in Owner
    BY <1>1 DEF RequestsHold, KeyIds, TokenKey
  <2>1. CASE d = c
    BY <1>2, <1>3, <2>1
  <2>2. CASE d # c
    BY <1>3, <2>2, ClientFacts
  <2>3. QED
    BY <2>1, <2>2
<1>5. SurvivorNeedsOverlap'
  BY <1>1, <1>3 DEF AccessInvariant, SurvivorNeedsOverlap, KeyIds, TokenKey
<1>6. QED
  BY <1>1, <1>3, <1>4, <1>5 DEF AccessInvariant, AccessType, LinesHold, KeyIds

\* A key is minted along the line of the key the request was let in with.
LEMMA MintKeeps ==
  ASSUME AccessInvariant, NEW c \in Client, MintKey(c), OperatorAccount \in Owner
  PROVE  AccessInvariant'
<1> DEFINE i == client[c].key
           p == Principal(i)
           n == Len(keys) + 1
           row == KeyRow(p.account, client[c].scopes, "live",
                         IF p.key = TokenKey THEN n ELSE keys[p.key].root)
<1>1. /\ client[c].at = "mint" /\ client[c] \in Requests /\ i \in {TokenKey} \cup KeyIds
  BY ClientFacts DEF MintKey
<1>2. /\ Len(keys) \in Nat
      /\ \A k \in KeyIds : k \in Nat /\ keys[k] \in KeyRows
  BY KeyFacts
<1>3. TokenKey \notin KeyIds
  BY <1>2 DEF KeyIds, TokenKey
<1>4. p.key = i /\ p.account = IF i = TokenKey THEN OperatorAccount ELSE keys[i].account
  BY DEF Principal
<1>5. /\ keys' = Append(keys, row)
      /\ loose' = IF p.key = TokenKey \/ ActsLate(p.key) THEN loose \cup {n} ELSE loose
      /\ client' = [client EXCEPT ![c] = NoClient] /\ UNCHANGED <<recovered, exchanged>>
  BY DEF MintKey
<1>6. /\ row.root = (IF i = TokenKey THEN n ELSE keys[i].root)
      /\ row.account = p.account /\ row.state = "live" /\ row.scopes = client[c].scopes
  BY <1>4 DEF KeyRow
<1>7. row \in KeyRows
  <2>1. p.account \in Owner
    BY <1>1, <1>2, <1>4 DEF KeyRows
  <2>2. client[c].scopes \in {Wildcard} \cup SUBSET Box
    BY <1>1 DEF Requests
  <2>3. (IF p.key = TokenKey THEN n ELSE keys[p.key].root) \in Nat
    BY <1>1, <1>2, <1>4 DEF KeyRows
  <2>4. QED
    BY <2>1, <2>2, <2>3 DEF KeyRow, KeyRows
<1>8. /\ NoClient \in Requests /\ NoClient.at = "none"
  BY NoClientFacts
<1>9. /\ client' \in [Client -> Requests] /\ client'[c] = NoClient
      /\ \A d \in Client : d # c => client'[d] = client[d]
  BY <1>5, <1>8 DEF AccessInvariant, AccessType
<1>10. \/ row.root = Len(keys) + 1
       \/ /\ row.root \in KeyIds /\ keys[row.root].account = row.account
          /\ row.state # "pending"
  BY ZenonT(30), <1>1, <1>4, <1>6 DEF AccessInvariant, LinesHold
<1>11. \/ row.state # "live" \/ n \in loose'
       \/ \E j \in KeyIds : /\ keys[j].root = row.root /\ keys[j].account = row.account
                            /\ keys[j].state = "live" /\ j \notin loose
  <2>1. CASE p.key = TokenKey \/ ActsLate(p.key)
    BY <1>5, <2>1
  <2>2. CASE ~(p.key = TokenKey \/ ActsLate(p.key))
    <3>1. i \in KeyIds /\ keys[i].state = "live" /\ i \notin loose
      BY <1>1, <1>4, <2>2 DEF ActsLate, KeyState
    <3>2. QED
      BY <1>4, <1>6, <2>2, <3>1
  <2>3. QED
    BY <2>1, <2>2
<1>12. loose \subseteq loose'
  BY <1>5
<1>13. keys' = Append(keys, row) /\ UNCHANGED <<recovered, exchanged>>
  BY <1>5
<1>14. /\ \A d \in Client : client'[d] = client[d] \/ client'[d].at = "none"
       /\ \A d \in Client : client[d].at = "revoke" => client'[d] = client[d]
  BY <1>1, <1>8, <1>9
<1> HIDE DEF row, p, i
<1>15. QED
  BY <1>7, <1>9, <1>10, <1>11, <1>12, <1>13, <1>14, KeyAddedKeeps

\* signup for an existing account adds a pending key that begins its line.
LEMMA SignupKeeps ==
  ASSUME AccessInvariant, NEW a \in Owner, SignupAgain(a)
  PROVE  AccessInvariant'
<1> DEFINE row == KeyRow(a, Wildcard, "pending", Len(keys) + 1)
<1>1. Len(keys) \in Nat
  BY KeyFacts
<1>2. keys' = Append(keys, row) /\ UNCHANGED <<client, recovered, loose, exchanged>>
  BY DEF SignupAgain
<1>3. row \in KeyRows /\ row.root = Len(keys) + 1 /\ row.state = "pending"
  BY <1>1 DEF KeyRow, KeyRows
<1>4. client' \in [Client -> Requests] /\ \A c \in Client : client'[c] = client[c]
  BY <1>2 DEF AccessInvariant, AccessType
<1> HIDE DEF row
<1>5. QED
  BY <1>2, <1>3, <1>4, KeyAddedKeeps

\* A key revoked by its account escapes nothing.
LEMMA RevokeKeeps ==
  ASSUME AccessInvariant, NEW k, NEW j \in KeyIds, RevokeKey(k, j)
  PROVE  AccessInvariant'
<1>1. \A i \in KeyIds : i \in Nat /\ keys[i] \in KeyRows
  BY KeyFacts
<1>2. keys' = [keys EXCEPT ![j] = [keys[j] EXCEPT !.state = "revoked"]]
  BY DEF RevokeKey
<1> DEFINE e == [keys[j] EXCEPT !.state = "revoked"]
<1>3. /\ e \in KeyRows /\ e.state = "revoked" /\ e.account = keys[j].account
      /\ e.root = keys[j].root
  BY <1>1 DEF KeyRows
<1> HIDE DEF e
<1>4. keys' = [keys EXCEPT ![j] = e]
  BY <1>2 DEF e
<1>5. /\ keys' \in Seq(KeyRows) /\ Len(keys') = Len(keys)
      /\ \A i \in KeyIds : keys'[i] = IF i = j THEN e ELSE keys[i]
  BY <1>3, <1>4, ExceptSeq DEF AccessInvariant, AccessType, KeyIds
<1>6. KeyIds' = KeyIds /\ LinesHold'
  BY <1>3, <1>5, KeysKeptKeep
<1>7. UNCHANGED <<client, recovered, loose, exchanged>>
  BY DEF RevokeKey
<1>8. \A i \in KeyIds : /\ keys'[i].account = keys[i].account /\ keys'[i].root = keys[i].root
                        /\ keys'[i].state = "live" => keys[i].state = "live"
  BY <1>3, <1>5
<1>9. RequestsHold'
  BY <1>6, <1>7, <1>8 DEF AccessInvariant, RequestsHold, TokenKey
<1>10. SurvivorNeedsOverlap'
  BY <1>6, <1>7, <1>8 DEF AccessInvariant, SurvivorNeedsOverlap, TokenKey
<1>11. QED
  BY <1>5, <1>6, <1>7, <1>9, <1>10 DEF AccessInvariant, AccessType

\* Between the two updates of verify, the key it activated is under a request at "revoke".
LEMMA ActivateKeeps ==
  ASSUME AccessInvariant, NEW c \in Client, ActivateKey(c)
  PROVE  AccessInvariant'
<1> DEFINE k == client[c].key
           s == IF keys[k].state = "pending" THEN "live" ELSE keys[k].state
           e == [keys[k] EXCEPT !.state = s]
           r == [client[c] EXCEPT !.at = "revoke"]
<1>1. /\ client[c].at = "activate" /\ client[c] \in Requests
      /\ k \in KeyIds /\ keys[k].root = k
  BY ClientFacts DEF ActivateKey
<1>2. \A i \in KeyIds : i \in Nat /\ keys[i] \in KeyRows
  BY KeyFacts
<1>3. /\ keys' = [keys EXCEPT ![k] = e] /\ client' = [client EXCEPT ![c] = r]
      /\ UNCHANGED <<recovered, loose, exchanged>>
  BY DEF ActivateKey
<1>4. s \in {"live", "revoked"}
  BY <1>1, <1>2 DEF KeyRows
<1> HIDE DEF s
<1>5. /\ e \in KeyRows /\ e.state = s /\ e.account = keys[k].account /\ e.root = keys[k].root
  BY <1>1, <1>2, <1>4 DEF KeyRows
<1>6. r \in Requests /\ r.at = "revoke" /\ r.key = k
  BY <1>1 DEF Requests
<1> HIDE DEF e, r
<1>7. /\ keys' \in Seq(KeyRows) /\ Len(keys') = Len(keys)
      /\ \A i \in KeyIds : keys'[i] = IF i = k THEN e ELSE keys[i]
  BY <1>1, <1>3, <1>5, ExceptSeq DEF AccessInvariant, AccessType, KeyIds
<1>8. /\ client' \in [Client -> Requests] /\ client'[c] = r
      /\ \A d \in Client : d # c => client'[d] = client[d]
  BY <1>3, <1>6 DEF AccessInvariant, AccessType
<1>9. \A i \in KeyIds : /\ keys'[i].account = keys[i].account /\ keys'[i].root = keys[i].root
                        /\ i # k => keys'[i] = keys[i]
  BY <1>5, <1>7
<1>10. KeyIds' = KeyIds /\ LinesHold'
  BY <1>4, <1>5, <1>7, <1>9, KeysKeptKeep
<1>11. RequestsHold'
  <2> SUFFICES ASSUME NEW d \in Client
               PROVE  /\ client'[d].at = "mint" => client'[d].key \in {TokenKey} \cup KeyIds
                      /\ client'[d].at \in {"activate", "revoke"} =>
                           client'[d].key \in KeyIds /\ keys'[client'[d].key].root = client'[d].key
                      /\ client'[d].at = "redeem" => client'[d].account \in Owner
    BY <1>10 DEF RequestsHold, TokenKey
  <2>1. CASE d = c
    BY <1>1, <1>6, <1>8, <1>9, <2>1
  <2>2. CASE d # c
    BY <1>8, <1>9, <2>2, ClientFacts
  <2>3. QED
    BY <2>1, <2>2
<1>12. SurvivorNeedsOverlap'
  <2> SUFFICES ASSUME NEW i \in KeyIds
               PROVE  \/ keys'[i].state # "live" \/ recovered[keys'[i].account] = TokenKey
                      \/ i \in loose \/ keys'[i].root \in loose \cup exchanged
                      \/ keys'[i].root = recovered[keys'[i].account]
                      \/ \E d \in Client : client'[d].at = "revoke" /\ keys'[i].root = client'[d].key
    BY <1>3, <1>10 DEF SurvivorNeedsOverlap, TokenKey
  <2>1. CASE i = k
    BY <1>1, <1>6, <1>8, <1>9, <2>1
  <2>2. CASE i # k
    <3>1. keys'[i] = keys[i]
      BY <1>9, <2>2
    <3>2. \A d \in Client : client[d].at = "revoke" => client'[d] = client[d]
      BY <1>1, <1>8
    <3>3. QED
      BY <3>1, <3>2 DEF AccessInvariant, SurvivorNeedsOverlap
  <2>3. QED
    BY <2>1, <2>2
<1>13. QED
  BY <1>3, <1>7, <1>8, <1>10, <1>11, <1>12 DEF AccessInvariant, AccessType

\* The revocation leaves of the account only the line of the key it kept.
LEMMA RevokeOthersKeeps ==
  ASSUME AccessInvariant, NEW c \in Client, RevokeOthers(c)
  PROVE  AccessInvariant'
<1> DEFINE k == client[c].key
           a == keys[k].account
<1>1. /\ client[c].at = "revoke" /\ k \in KeyIds /\ keys[k].root = k
  BY ClientFacts DEF RevokeOthers
<1>2. Len(keys) \in Nat /\ \A i \in KeyIds : i \in Nat /\ keys[i] \in KeyRows
  BY KeyFacts
<1>3. /\ keys' = OthersRevoked(k) /\ recovered' = [recovered EXCEPT ![a] = k]
      /\ client' = [client EXCEPT ![c] = NoClient] /\ UNCHANGED loose
      /\ exchanged' = {j \in exchanged : keys[j].account # a}
  BY DEF RevokeOthers
<1>4. a \in Owner /\ k \in Nat
  BY <1>1, <1>2 DEF KeyRows
<1>5. ASSUME NEW i \in KeyIds
      PROVE  /\ [keys[i] EXCEPT !.state = "revoked"] \in KeyRows
             /\ [keys[i] EXCEPT !.state = "revoked"].state = "revoked"
             /\ [keys[i] EXCEPT !.state = "revoked"].account = keys[i].account
             /\ [keys[i] EXCEPT !.state = "revoked"].root = keys[i].root
  BY <1>2 DEF KeyRows
<1>6. ASSUME NEW i \in KeyIds
      PROVE  keys'[i] = IF keys[i].account = a /\ i # k THEN [keys[i] EXCEPT !.state = "revoked"]
                        ELSE keys[i]
  BY <1>3 DEF OthersRevoked
<1>7. keys' \in [1..Len(keys) -> KeyRows]
  BY <1>2, <1>3, <1>5 DEF OthersRevoked, KeyIds
<1>8. keys' \in Seq(KeyRows) /\ Len(keys') = Len(keys)
  BY <1>2, <1>7
<1>9. \A i \in KeyIds : /\ keys'[i].account = keys[i].account /\ keys'[i].root = keys[i].root
                        /\ keys'[i].state = "pending" => keys[i].state = "pending"
                        /\ keys'[i].state = "live" => keys[i].state = "live"
                        /\ (keys[i].account = a /\ i # k) => keys'[i].state = "revoked"
  BY <1>5, <1>6
<1> HIDE DEF k, a
<1>10. KeyIds' = KeyIds /\ LinesHold'
  BY <1>8, <1>9, KeysKeptKeep
<1>11. /\ NoClient \in Requests /\ NoClient.at = "none"
  BY NoClientFacts
<1>12. /\ client' \in [Client -> Requests] /\ client'[c] = NoClient
       /\ \A d \in Client : d # c => client'[d] = client[d]
  BY <1>3, <1>11 DEF AccessInvariant, AccessType
<1>13. /\ recovered' \in [Owner -> Nat] /\ recovered'[a] = k
       /\ \A x \in Owner : x # a => recovered'[x] = recovered[x]
  BY <1>3, <1>4 DEF AccessInvariant, AccessType
<1>14. RequestsHold'
  <2> SUFFICES ASSUME NEW d \in Client
               PROVE  /\ client'[d].at = "mint" => client'[d].key \in {TokenKey} \cup KeyIds
                      /\ client'[d].at \in {"activate", "revoke"} =>
                           client'[d].key \in KeyIds /\ keys'[client'[d].key].root = client'[d].key
                      /\ client'[d].at = "redeem" => client'[d].account \in Owner
    BY <1>10 DEF RequestsHold, TokenKey
  <2>1. CASE d = c
    BY <1>11, <1>12, <2>1
  <2>2. CASE d # c
    BY <1>9, <1>12, <2>2, ClientFacts
  <2>3. QED
    BY <2>1, <2>2
<1>15. SurvivorNeedsOverlap'
  <2> SUFFICES ASSUME NEW i \in KeyIds
               PROVE  \/ keys'[i].state # "live" \/ recovered'[keys'[i].account] = TokenKey
                      \/ i \in loose \/ keys'[i].root \in loose \cup exchanged'
                      \/ keys'[i].root = recovered'[keys'[i].account]
                      \/ \E d \in Client : client'[d].at = "revoke" /\ keys'[i].root = client'[d].key
    BY <1>3, <1>10 DEF SurvivorNeedsOverlap, TokenKey
  <2>1. CASE i = k
    BY <1>1, <1>9, <1>13, <2>1 DEF k, a
  <2>2. CASE i # k /\ keys[i].account = a
    BY <1>9, <2>2
  <2>3. CASE keys[i].account # a
    <3>1. keys[i].account \in Owner
      BY <1>2 DEF KeyRows
    <3>2. keys[i].root # k
      BY <2>3 DEF a, AccessInvariant, LinesHold
    <3>3. \A d \in Client : client[d].at = "revoke" /\ keys[i].root = client[d].key
                            => client'[d] = client[d]
      BY <1>12, <3>2 DEF k
    <3>4. recovered'[keys'[i].account] = recovered[keys[i].account]
      BY <1>9, <1>13, <2>3, <3>1
    <3>5. keys[i].root \in exchanged => keys[i].root \in exchanged'
      BY <1>3, <2>3 DEF AccessInvariant, LinesHold
    <3>6. QED
      BY <1>9, <3>3, <3>4, <3>5 DEF AccessInvariant, SurvivorNeedsOverlap
  <2>4. QED
    BY <2>1, <2>2, <2>3
<1>16. QED
  BY <1>8, <1>10, <1>12, <1>13, <1>14, <1>15 DEF AccessInvariant, AccessType

\* A verify that dies before its revocation leaves a loose key.
LEMMA DeathKeeps ==
  ASSUME AccessInvariant, NEW c \in Client, RequestDies(c)
  PROVE  AccessInvariant'
<1>1. /\ UNCHANGED <<keys, recovered, exchanged>> /\ client' = [client EXCEPT ![c] = NoClient]
      /\ loose \subseteq loose'
      /\ client[c].at = "revoke" => client[c].key \in loose'
  BY DEF RequestDies
<1>2. /\ NoClient \in Requests /\ NoClient.at = "none"
  BY NoClientFacts
<1>3. /\ client' \in [Client -> Requests] /\ client'[c] = NoClient
      /\ \A d \in Client : d # c => client'[d] = client[d]
  BY <1>1, <1>2 DEF AccessInvariant, AccessType
<1>4. \A d \in Client : client'[d] = client[d] \/ client'[d].at = "none"
  BY <1>2, <1>3
<1>5. RequestsHold'
  <2> SUFFICES ASSUME NEW d \in Client, client'[d] = client[d]
               PROVE  /\ client[d].at = "mint" => client[d].key \in {TokenKey} \cup KeyIds
                      /\ client[d].at \in {"activate", "revoke"} =>
                           client[d].key \in KeyIds /\ keys[client[d].key].root = client[d].key
                      /\ client[d].at = "redeem" => client[d].account \in Owner
    BY <1>1, <1>4 DEF RequestsHold, KeyIds, TokenKey
  <2>1. QED
    BY ClientFacts
<1>6. SurvivorNeedsOverlap'
  <2> SUFFICES ASSUME NEW i \in KeyIds
               PROVE  \/ keys[i].state # "live" \/ recovered[keys[i].account] = TokenKey
                      \/ i \in loose' \/ keys[i].root \in loose' \cup exchanged
                      \/ keys[i].root = recovered[keys[i].account]
                      \/ \E d \in Client : client'[d].at = "revoke" /\ keys[i].root = client'[d].key
    BY <1>1 DEF SurvivorNeedsOverlap, KeyIds, TokenKey
  <2>1. \A d \in Client : client[d].at = "revoke" => client[d].key \in loose' \/ client'[d] = client[d]
    BY <1>1, <1>3
  <2>2. \/ keys[i].state # "live" \/ recovered[keys[i].account] = TokenKey
        \/ i \in loose \/ keys[i].root \in loose \cup exchanged
        \/ keys[i].root = recovered[keys[i].account]
        \/ \E d \in Client : client[d].at = "revoke" /\ keys[i].root = client[d].key
    BY DEF AccessInvariant, SurvivorNeedsOverlap
  <2>3. QED
    BY <1>1, <2>1, <2>2
<1>7. QED
  BY <1>1, <1>3, <1>5, <1>6 DEF AccessInvariant, AccessType, LinesHold, KeyIds

\* An exchange begins a line and is counted as such.
LEMMA RedeemKeeps ==
  ASSUME AccessInvariant, NEW c \in Client, RedeemKey(c)
  PROVE  AccessInvariant'
<1> DEFINE n == Len(keys) + 1
           row == KeyRow(client[c].account, Wildcard, "live", n)
<1>1. client[c].at = "redeem" /\ client[c].account \in Owner
  BY ClientFacts DEF RedeemKey
<1>2. Len(keys) \in Nat
  BY KeyFacts
<1>3. /\ keys' = Append(keys, row) /\ exchanged' = exchanged \cup {n}
      /\ client' = [client EXCEPT ![c] = NoClient] /\ UNCHANGED <<recovered, loose>>
  BY DEF RedeemKey
<1>4. row \in KeyRows /\ row.root = n
  BY <1>1, <1>2 DEF KeyRow, KeyRows
<1>5. /\ client' \in [Client -> Requests] /\ client'[c] = NoClient
      /\ \A d \in Client : d # c => client'[d] = client[d]
  BY <1>3, NoClientFacts DEF AccessInvariant, AccessType
<1>6. /\ \A d \in Client : client'[d] = client[d] \/ client'[d].at = "none"
      /\ \A d \in Client : client[d].at = "revoke" => client'[d] = client[d]
  BY <1>1, <1>5, NoClientFacts
<1>7. n \in exchanged' /\ exchanged \subseteq exchanged' /\ loose \subseteq loose'
  BY <1>3
<1>8. keys' = Append(keys, row) /\ UNCHANGED recovered
  BY <1>3
<1> HIDE DEF row
<1>9. QED
  BY <1>4, <1>5, <1>6, <1>7, <1>8, KeyAddedKeeps

\* The keys of a removed member survive nothing.
LEMMA EvictKeeps ==
  ASSUME AccessInvariant, NEW c \in Client, RevokeAccount(c)
  PROVE  AccessInvariant'
<1>1. Len(keys) \in Nat /\ \A i \in KeyIds : i \in Nat /\ keys[i] \in KeyRows
  BY KeyFacts
<1>2. /\ client[c].at = "evict" /\ client' = [client EXCEPT ![c] = NoClient]
      /\ UNCHANGED <<recovered, loose, exchanged>>
      /\ keys' = [j \in KeyIds |-> IF keys[j].account = client[c].account
                                  THEN [keys[j] EXCEPT !.state = "revoked"] ELSE keys[j]]
  BY DEF RevokeAccount
<1>3. ASSUME NEW i \in KeyIds
      PROVE  /\ [keys[i] EXCEPT !.state = "revoked"] \in KeyRows
             /\ [keys[i] EXCEPT !.state = "revoked"].state = "revoked"
             /\ [keys[i] EXCEPT !.state = "revoked"].account = keys[i].account
             /\ [keys[i] EXCEPT !.state = "revoked"].root = keys[i].root
  BY <1>1 DEF KeyRows
<1>4. keys' \in [1..Len(keys) -> KeyRows]
  BY <1>1, <1>2, <1>3 DEF KeyIds
<1>5. keys' \in Seq(KeyRows) /\ Len(keys') = Len(keys)
  BY <1>1, <1>4
<1>6. \A i \in KeyIds : /\ keys'[i].account = keys[i].account /\ keys'[i].root = keys[i].root
                        /\ keys'[i].state = "pending" => keys[i].state = "pending"
                        /\ keys'[i].state = "live" => keys[i].state = "live"
  BY <1>2, <1>3
<1>7. KeyIds' = KeyIds /\ LinesHold'
  BY <1>5, <1>6, KeysKeptKeep
<1>8. /\ client' \in [Client -> Requests] /\ client'[c].at = "none"
      /\ \A d \in Client : d # c => client'[d] = client[d]
  BY <1>2, NoClientFacts DEF AccessInvariant, AccessType
<1>9. RequestsHold'
  <2> SUFFICES ASSUME NEW d \in Client
               PROVE  /\ client'[d].at = "mint" => client'[d].key \in {TokenKey} \cup KeyIds
                      /\ client'[d].at \in {"activate", "revoke"} =>
                           client'[d].key \in KeyIds /\ keys'[client'[d].key].root = client'[d].key
                      /\ client'[d].at = "redeem" => client'[d].account \in Owner
    BY <1>7 DEF RequestsHold, TokenKey
  <2>1. CASE d = c
    BY <1>8, <2>1
  <2>2. CASE d # c
    BY <1>6, <1>8, <2>2, ClientFacts
  <2>3. QED
    BY <2>1, <2>2
<1>10. \A d \in Client : client[d].at = "revoke" => client'[d] = client[d]
  BY <1>2, <1>8
<1>11. SurvivorNeedsOverlap'
  BY <1>2, <1>6, <1>7, <1>10 DEF AccessInvariant, SurvivorNeedsOverlap, TokenKey
<1>12. QED
  BY <1>2, <1>5, <1>7, <1>8, <1>9, <1>11 DEF AccessInvariant, AccessType

\* Every step keeps the invariant.
LEMMA AccessInvariantNext ==
  ASSUME AccessInvariant, [AccessNext]_accessVars, OperatorAccount \in Owner
  PROVE  AccessInvariant'
<1>1. ASSUME NEW c \in Client, NEW k \in {TokenKey} \cup KeyIds,
             NEW S \in {Wildcard} \cup (SUBSET Box \ {{}}), CreateKeyStart(c, k, S)
      PROVE  AccessInvariant'
  BY <1>1, RequestBegins
<1>2. ASSUME NEW c \in Client, \/ MintKey(c) \/ ActivateKey(c) \/ RevokeOthers(c)
                               \/ RedeemKey(c) \/ RevokeAccount(c) \/ RequestDies(c)
      PROVE  AccessInvariant'
  BY <1>2, MintKeeps, ActivateKeeps, RevokeOthersKeeps, RedeemKeeps, EvictKeeps, DeathKeeps
<1>3. ASSUME NEW k \in {TokenKey} \cup KeyIds, NEW j \in KeyIds, RevokeKey(k, j)
      PROVE  AccessInvariant'
  BY <1>3, RevokeKeeps
<1>4. ASSUME NEW a \in Owner, SignupAgain(a) \/ Approve(a) \/ CodeExpires(a)
      PROVE  AccessInvariant'
  BY <1>4, SignupKeeps, SameKeysKeep DEF Approve, CodeExpires
<1>5. ASSUME NEW c \in Client, NEW k \in KeyIds, VerifyStart(c, k) PROVE AccessInvariant'
  BY <1>5, RequestBegins
<1>6. ASSUME NEW c \in Client, NEW a \in Owner, ExchangeStart(c, a) PROVE AccessInvariant'
  BY <1>6, RequestBegins
<1>7. ASSUME NEW c \in Client, NEW k \in {TokenKey} \cup KeyIds, NEW a \in Owner,
             RemoveStart(c, k, a)
      PROVE  AccessInvariant'
  BY <1>7, RequestBegins
<1>8. ASSUME NEW k, NEW b, CreateBox(k, b) \/ DeleteBox(k, b) PROVE AccessInvariant'
  BY <1>8, SameKeysKeep DEF CreateBox, TakeBox, DeleteBox
<1>9. ASSUME NEW k, NEW a, NEW b, ProvisionBox(k, a, b) PROVE AccessInvariant'
  BY <1>9, SameKeysKeep DEF ProvisionBox, TakeBox
<1>10. CASE UNCHANGED accessVars
  BY <1>10, SameKeysKeep DEF accessVars
<1>11. QED
  BY <1>1, <1>2, <1>3, <1>4, <1>5, <1>6, <1>7, <1>8, <1>9, <1>10 DEF AccessNext

(* For any accounts, keys and requests: after verify recovered an account, a   *)
(* key of it that still works is the recovered one or of its line, or its      *)
(* insert raced the recovery, the operator minted it, the verify died between  *)
(* activating the key and revoking the others, or an exchange of an OAuth code *)
(* that was done after the revocation minted it or its ancestor.               *)
THEOREM RecoveryHolds == AccessSpec => []SurvivorNeedsOverlap
<1>1. OperatorAccount \in Owner
  BY AccessAssumption
<1>2. AccessInvariant /\ [AccessNext]_accessVars => AccessInvariant'
  BY <1>1, AccessInvariantNext
<1>3. AccessInvariant => SurvivorNeedsOverlap
  BY DEF AccessInvariant
<1>4. QED
  BY <1>2, <1>3, AccessInvariantInit, PTL DEF AccessSpec

-----------------------------------------------------------------------------
(* The door *)

\* A mail keeps its fields, its files are of the kinds there are, and the
\* thresholds are numbers.
IntakeInvariant ==
    /\ email = [f \in DOMAIN Plain |-> email[f]]
    /\ email.files \in Seq(Files)
    /\ policy \in [label : Nat, reject : Nat]

\* What Attach(f) makes of a mail.
WithFile(m, f) == [m EXCEPT !.files = Append(@, f)]

\* The mails that arrive are of this form.
LEMMA IntakeInvariantInit == IntakeInit => IntakeInvariant
<1> SUFFICES ASSUME IntakeInit PROVE IntakeInvariant
  OBVIOUS
<1>1. policy \in [label : Nat, reject : Nat]
  BY IntakeAssumption DEF IntakeInit
<1>2. PICK m \in {Plain, Forged, Returned}, f \in DOMAIN Plain :
         \E v \in Values[f] : email = [m EXCEPT ![f] = v]
  BY DEF IntakeInit, Mails
<1>3. m = [x \in DOMAIN Plain |-> m[x]] /\ m.files = <<>>
  <2>1. CASE m = Plain
    BY <2>1 DEF Plain
  <2>2. CASE m = Forged
    BY <2>2 DEF Forged, Plain
  <2>3. CASE m = Returned
    BY <2>3 DEF Returned, Plain
  <2> QED
    BY <2>1, <2>2, <2>3
<1>4. email = [x \in DOMAIN Plain |-> email[x]]
  BY <1>2, <1>3
<1>5. Values.files = {<<>>}
  BY DEF Values, Plain
<1>6. email.files = <<>>
  <2>1. "files" \in DOMAIN Plain
    BY DEF Plain
  <2> QED
    BY <1>2, <1>3, <1>5, <2>1
<1>7. email.files \in Seq(Files)
  BY ONLY <1>6
<1> QED
  BY ONLY <1>1, <1>4, <1>7 DEF IntakeInvariant

\* Adding a file changes the files and nothing else.
LEMMA WithFileFacts ==
  ASSUME NEW m, m = [x \in DOMAIN Plain |-> m[x]], m.files \in Seq(Files), NEW f \in Files
  PROVE  /\ \A x \in DOMAIN Plain \ {"files"} : WithFile(m, f)[x] = m[x]
         /\ WithFile(m, f) = [x \in DOMAIN Plain |-> WithFile(m, f)[x]]
         /\ WithFile(m, f).files = Append(m.files, f)
         /\ WithFile(m, f).files \in Seq(Files)
         /\ Range(m.files) \subseteq Range(WithFile(m, f).files)
<1>1. "files" \in DOMAIN Plain
  BY DEF Plain
<1>2. WithFile(m, f).files = Append(m.files, f)
  BY <1>1 DEF WithFile
<1>3. Append(m.files, f) \in Seq(Files)
  OBVIOUS
<1>4. Range(m.files) \subseteq Range(Append(m.files, f))
  <2> DEFINE s == m.files
  <2>1. s \in Seq(Files)
    OBVIOUS
  <2> HIDE DEF s
  <2>2. \A i \in DOMAIN s : i \in DOMAIN Append(s, f) /\ Append(s, f)[i] = s[i]
    BY <2>1
  <2> QED
    BY <2>2 DEF Range, s
<1> QED
  BY <1>1, <1>2, <1>3, <1>4 DEF WithFile

\* The reasons are among those that weigh something, and they are finitely many.
LEMMA ReasonsWeigh ==
  ASSUME NEW m, m.files \in Seq(Files)
  PROVE  Reasons(m) \subseteq DOMAIN SPAM_WEIGHTS
<1> USE DEF SPAM_WEIGHTS, If
<1>1. AuthReasons(m) \subseteq DOMAIN SPAM_WEIGHTS
  BY DEF AuthReasons
<1>2. IdentityReasons(m) \subseteq DOMAIN SPAM_WEIGHTS
  <2> DEFINE W == DOMAIN SPAM_WEIGHTS
  <2>1. {"missing_message_id", "missing_date", "from_display_address", "reply_to_other_domain",
         "from_not_envelope_domain"} \subseteq W
    OBVIOUS
  <2> HIDE DEF W
  <2>2. IdentityReasons(m) \subseteq W
    BY ONLY <2>1 DEF IdentityReasons, If
  <2> QED
    BY <2>2 DEF W
<1>3. SubjectReasons(m) \subseteq DOMAIN SPAM_WEIGHTS
  BY DEF SubjectReasons
<1>4. BodyReasons(m) \subseteq DOMAIN SPAM_WEIGHTS
  BY DEF BodyReasons
<1>5. ListReasons(m) \subseteq DOMAIN SPAM_WEIGHTS
  BY DEF ListReasons
<1>6. \A f : ArchiveReasons(f) \subseteq DOMAIN SPAM_WEIGHTS
  BY DEF ArchiveReasons
<1>7. \A f : AttachmentReasons(f) \subseteq DOMAIN SPAM_WEIGHTS
  BY <1>6 DEF AttachmentReasons
<1>8. FileReasons(m) \subseteq DOMAIN SPAM_WEIGHTS
  BY <1>7 DEF FileReasons
<1> QED
  BY <1>1, <1>2, <1>3, <1>4, <1>5, <1>8 DEF Reasons

\* There are finitely many reasons, and each weighs a number.
LEMMA WeightsAreNumbers ==
  /\ IsFiniteSet(DOMAIN SPAM_WEIGHTS)
  /\ \A r \in DOMAIN SPAM_WEIGHTS : SPAM_WEIGHTS[r] \in Nat
<1>1. \A r \in DOMAIN SPAM_WEIGHTS : SPAM_WEIGHTS[r] \in Nat
  BY DEF SPAM_WEIGHTS
<1> DEFINE names ==
      <<"spf_fail", "spf_softfail", "dkim_fail", "dkim_none", "dmarc_fail", "missing_message_id",
        "missing_date", "from_display_address", "reply_to_other_domain", "from_not_envelope_domain",
        "subject_all_caps", "subject_punctuation", "subject_fake_reply", "html_only",
        "html_thin_with_links", "many_link_domains", "link_text_mismatch", "mostly_urls",
        "list_unsubscribe", "precedence_bulk", "attachment_executable",
        "attachment_double_extension", "attachment_script", "attachment_macro_office",
        "archive_executable", "archive_unknown">>
<1>2. DOMAIN names = 1..26
  OBVIOUS
<1>3. \A r \in DOMAIN SPAM_WEIGHTS : \E i \in 1..26 : names[i] = r
  BY DEF SPAM_WEIGHTS
<1>4. \A i \in 1..26 : names[i] \in DOMAIN SPAM_WEIGHTS
  BY DEF SPAM_WEIGHTS
<1>5. names = [i \in 1..26 |-> names[i]]
  OBVIOUS
<1> HIDE DEF names
<1>6. names \in Surjection(1..26, DOMAIN SPAM_WEIGHTS)
  BY <1>3, <1>4, <1>5 DEF Surjection
<1>7. IsFiniteSet(1..26)
  <2>1. 1 \in Int /\ 26 \in Int
    OBVIOUS
  <2> QED
    BY ONLY <2>1, FS_Interval
<1> QED
  BY <1>1, <1>6, <1>7, FS_Surjection

\* One file more leaves every reason standing.
LEMMA ReasonsGrow ==
  ASSUME NEW m, m = [x \in DOMAIN Plain |-> m[x]], m.files \in Seq(Files), NEW f \in Files
  PROVE  Reasons(m) \subseteq Reasons(WithFile(m, f))
<1> DEFINE n == WithFile(m, f)
<1>1. /\ n.auth = m.auth /\ n.id = m.id /\ n.date = m.date /\ n.from = m.from /\ n.shown = m.shown
      /\ n.replyTo = m.replyTo /\ n.envelope = m.envelope /\ n.subject = m.subject
      /\ n.threaded = m.threaded /\ n.body = m.body /\ n.links = m.links /\ n.lists = m.lists
      /\ Range(m.files) \subseteq Range(n.files)
  <2>1. {"auth", "id", "date", "from", "shown", "replyTo", "envelope", "subject", "threaded",
         "body", "links", "lists"} \subseteq DOMAIN Plain \ {"files"}
    BY DEF Plain
  <2>2. \A x \in DOMAIN Plain \ {"files"} : n[x] = m[x]
    BY WithFileFacts
  <2>3. Range(m.files) \subseteq Range(n.files)
    BY WithFileFacts
  <2> HIDE DEF n
  <2> QED
    BY ONLY <2>1, <2>2, <2>3
<1> HIDE DEF n
<1>2. AuthReasons(n) = AuthReasons(m)
  BY <1>1 DEF AuthReasons
<1>3. IdentityReasons(n) = IdentityReasons(m)
  BY <1>1 DEF IdentityReasons
<1>4. SubjectReasons(n) = SubjectReasons(m)
  BY <1>1 DEF SubjectReasons
<1>5. BodyReasons(n) = BodyReasons(m)
  BY <1>1 DEF BodyReasons, HasHtml
<1>6. ListReasons(n) = ListReasons(m)
  BY <1>1 DEF ListReasons
<1>7. FileReasons(m) \subseteq FileReasons(n)
  BY <1>1 DEF FileReasons
<1>8. Reasons(m) \subseteq Reasons(n)
  BY <1>2, <1>3, <1>4, <1>5, <1>6, <1>7 DEF Reasons
<1> QED
  BY <1>8 DEF n

\* The score is the sum of the weights, up to its limit.
LEMMA ScoreIsCapped ==
  ASSUME NEW m, m.files \in Seq(Files)
  PROVE  /\ Score(m) = IF Total(SPAM_WEIGHTS, Reasons(m)) < 100
                       THEN Total(SPAM_WEIGHTS, Reasons(m)) ELSE 100
         /\ Total(SPAM_WEIGHTS, Reasons(m)) \in Nat
<1> DEFINE t == Total(SPAM_WEIGHTS, Reasons(m))
<1>1. t \in Nat
  <2>1. IsFiniteSet(Reasons(m)) /\ \A r \in Reasons(m) : SPAM_WEIGHTS[r] \in Nat
    BY ReasonsWeigh, WeightsAreNumbers, FS_Subset
  <2> QED
    BY ONLY <2>1, TotalIsNat
<1>2. Score(m) = Min({100, t})
  BY DEF Score, SPAM_MAX_SCORE, Total
<1> HIDE DEF t
<1>3. Min({100, t}) = IF t < 100 THEN t ELSE 100
  <2>1. CASE t < 100
    <3>1. \A x : (x \in {100, t} /\ \A y \in {100, t} : x <= y) <=> x = t
      BY <1>1, <2>1
    <3> QED
      BY <3>1, <2>1 DEF Min
  <2>2. CASE ~(t < 100)
    <3>1. \A x : (x \in {100, t} /\ \A y \in {100, t} : x <= y) <=> x = 100
      BY <1>1, <2>2
    <3> QED
      BY <3>1, <2>2 DEF Min
  <2> QED
    BY <2>1, <2>2
<1> QED
  BY <1>1, <1>2, <1>3 DEF t

\* One more file never lowers the score.
LEMMA ScoreGrows ==
  ASSUME NEW m, m = [x \in DOMAIN Plain |-> m[x]], m.files \in Seq(Files), NEW f \in Files
  PROVE  /\ Score(m) \in Nat /\ Score(WithFile(m, f)) \in Nat
         /\ Score(m) <= Score(WithFile(m, f))
<1> DEFINE n == WithFile(m, f)
<1>1. n.files \in Seq(Files)
  BY WithFileFacts
<1>2. Reasons(m) \subseteq Reasons(n)
  BY ReasonsGrow
<1>3. IsFiniteSet(Reasons(n)) /\ \A r \in Reasons(n) : SPAM_WEIGHTS[r] \in Nat
  BY <1>1, ReasonsWeigh, WeightsAreNumbers, FS_Subset
<1>4. Total(SPAM_WEIGHTS, Reasons(m)) <= Total(SPAM_WEIGHTS, Reasons(n))
  BY ONLY <1>2, <1>3, TotalGrows
<1>5. /\ Score(m) = IF Total(SPAM_WEIGHTS, Reasons(m)) < 100
                    THEN Total(SPAM_WEIGHTS, Reasons(m)) ELSE 100
      /\ Total(SPAM_WEIGHTS, Reasons(m)) \in Nat
  BY ScoreIsCapped
<1>6. /\ Score(n) = IF Total(SPAM_WEIGHTS, Reasons(n)) < 100
                    THEN Total(SPAM_WEIGHTS, Reasons(n)) ELSE 100
      /\ Total(SPAM_WEIGHTS, Reasons(n)) \in Nat
  BY <1>1, ScoreIsCapped
<1> HIDE DEF n
<1>7. Score(m) \in Nat /\ Score(n) \in Nat /\ Score(m) <= Score(n)
  BY ONLY <1>4, <1>5, <1>6
<1> QED
  BY <1>7 DEF n

\* What holds an executable is an archive that can be read.
HoldsInArchive(f) == "exe" \in f.entries => f.last = "zip" /\ "unreadable" \notin f.entries

\* Only an archive that could be listed shows an executable among its entries.
LEMMA ExecutablesAreInArchives ==
  ASSUME NEW f \in Files, "exe" \in f.entries
  PROVE  f.last = "zip" /\ "unreadable" \notin f.entries
<1>1. \A p, l, t, e : HoldsInArchive(File(p, l, t, e)) <=>
                       ("exe" \in e => l = "zip" /\ "unreadable" \notin e)
  BY DEF HoldsInArchive, File
<1>2. /\ HoldsInArchive(File("", "zip", "archive", {"exe"}))
      /\ HoldsInArchive(File("", "zip", "other", {"pdf", "js"}))
      /\ HoldsInArchive(File("", "", "archive", {"unreadable"}))
      /\ \A p, l, t : HoldsInArchive(File(p, l, t, {}))
  BY <1>1
<1>3. HoldsInArchive(f)
  BY <1>2 DEF Files
<1> QED
  BY <1>3 DEF HoldsInArchive

\* A mail that holds an executable is refused, whatever the thresholds.
LEMMA ExecutablesStayOut ==
  ASSUME NEW m, m.files \in Seq(Files), NEW f \in Range(m.files),
         (f.entries \cup {f.last}) \cap EXECUTABLE_EXTENSIONS # {}
  PROVE  Refusal(m) # ""
<1>1. f \in Files
  BY DEF Range
<1>2. {"attachment_executable", "archive_executable"} \cap AttachmentReasons(f) # {}
  <2>1. CASE f.last = "exe"
    BY <2>1 DEF AttachmentReasons, If, EXECUTABLE_EXTENSIONS
  <2>2. CASE f.last # "exe"
    <3>1. "exe" \in f.entries
      BY <2>2 DEF EXECUTABLE_EXTENSIONS
    <3>2. IsArchive(f) /\ "unreadable" \notin f.entries /\ f.entries \cap EXECUTABLE_EXTENSIONS # {}
      BY <1>1, <3>1, ExecutablesAreInArchives DEF IsArchive, EXECUTABLE_EXTENSIONS
    <3>3. "archive_executable" \in ArchiveReasons(f)
      BY <3>2 DEF ArchiveReasons, If
    <3> QED
      BY <3>3 DEF AttachmentReasons
  <2> QED
    BY <2>1, <2>2
<1>3. {"attachment_executable", "archive_executable"} \cap Reasons(m) # {}
  BY <1>2 DEF Reasons, FileReasons
<1> QED
  BY <1>3 DEF Refusal, AssessSpam, RejectsAttachment

\* A refused mail stays refused, and one filed as spam is not surfaced, with one file more.
LEMMA SeverityGrows ==
  ASSUME IntakeInvariant, NEW f \in Files
  PROVE  Severity(email) <= Severity(WithFile(email, f))
<1> DEFINE n == WithFile(email, f)
<1>1. n.size = email.size /\ n.to = email.to /\ n.quota = email.quota
  <2>1. {"size", "to", "quota"} \subseteq DOMAIN Plain \ {"files"}
    BY DEF Plain
  <2> QED
    BY <2>1, WithFileFacts DEF IntakeInvariant
<1>2. Reasons(email) \subseteq Reasons(n)
  BY ReasonsGrow DEF IntakeInvariant
<1>3. Score(email) \in Nat /\ Score(n) \in Nat /\ Score(email) <= Score(n)
  BY ScoreGrows DEF IntakeInvariant
<1>4. policy.label \in Nat /\ policy.reject \in Nat
  BY DEF IntakeInvariant
<1> HIDE DEF n
<1>5. AssessSpam(email) # "" => AssessSpam(n) # ""
  BY <1>2, <1>3, <1>4 DEF AssessSpam, RejectsAttachment
<1>6. Refusal(email) # "" => Refusal(n) # ""
  BY <1>1, <1>5 DEF Refusal
<1>7. \A m : Severity(m) = IF Refusal(m) # "" THEN 2 ELSE IF Score(m) >= policy.label THEN 1 ELSE 0
  BY DEF Severity
<1>8. Severity(email) <= Severity(n)
  <2>1. Score(email) >= policy.label => Score(n) >= policy.label
    BY <1>3, <1>4
  <2> QED
    <3>1. CASE Refusal(n) # ""
      <4>1. Severity(n) = 2 /\ Severity(email) \in {0, 1, 2}
        BY <3>1, <1>7
      <4> QED
        BY <4>1
    <3>2. CASE Refusal(n) = ""
      <4>1. Refusal(email) = ""
        BY <3>2, <1>6
      <4>2. Severity(n) = IF Score(n) >= policy.label THEN 1 ELSE 0
        BY <3>2, <1>7
      <4>3. Severity(email) = IF Score(email) >= policy.label THEN 1 ELSE 0
        BY <4>1, <1>7
      <4> QED
        BY <2>1, <4>2, <4>3
    <3> QED
      BY <3>1, <3>2
<1> QED
  BY <1>8 DEF n

\* Each step keeps the invariant and treats the mail no softer.
LEMMA IntakeStep ==
  ASSUME IntakeInvariant, [IntakeNext]_intakeVars
  PROVE  IntakeInvariant' /\ [NeverSofter]_intakeVars
<1>1. CASE UNCHANGED intakeVars
  BY <1>1 DEF intakeVars, IntakeInvariant
<1>2. CASE Receive
  <2>1. UNCHANGED <<policy, email>>
    BY <1>2 DEF Receive
  <2>2. IntakeInvariant'
    BY <2>1 DEF IntakeInvariant
  <2>3. Score(email) >= Score(email) /\ Severity(email) >= Severity(email)
    BY ScoreIsCapped DEF IntakeInvariant, Severity
  <2>4. ASSUME NEW g \in Range(email.files), (g.entries \cup {g.last}) \cap EXECUTABLE_EXTENSIONS # {}
        PROVE  Refusal(email) # ""
    BY <2>4, ExecutablesStayOut DEF IntakeInvariant
  <2> QED
    BY <2>1, <2>2, <2>3, <2>4 DEF NeverSofter
<1>3. ASSUME NEW f \in Files, Attach(f) PROVE IntakeInvariant' /\ NeverSofter
  <2> DEFINE n == WithFile(email, f)
  <2>1. policy' = policy /\ email' = n
    BY <1>3 DEF Attach, WithFile
  <2>2. n = [x \in DOMAIN Plain |-> n[x]] /\ n.files \in Seq(Files)
    BY WithFileFacts DEF IntakeInvariant
  <2>3. Score(n) >= Score(email)
    BY ScoreGrows DEF IntakeInvariant
  <2>4. Severity(n) >= Severity(email)
    <3>1. Severity(email) <= Severity(n)
      BY SeverityGrows
    <3> QED
      BY <3>1
  <2>5. ASSUME NEW g \in Range(n.files), (g.entries \cup {g.last}) \cap EXECUTABLE_EXTENSIONS # {}
        PROVE  Refusal(n) # ""
    BY <2>2, <2>5, ExecutablesStayOut
  <2> HIDE DEF n
  <2>6. IntakeInvariant'
    BY <2>1, <2>2 DEF IntakeInvariant, Plain
  <2> QED
    BY <2>1, <2>3, <2>4, <2>5, <2>6 DEF NeverSofter
<1> QED
  BY <1>1, <1>2, <1>3 DEF IntakeNext

\* One more attachment never helps a mail in: it lowers neither the score nor the
\* verdict, and a mail with an executable that is seen, by the name of an attachment
\* or of an entry of an archive that can be listed, stays out (email/spam.ts).
THEOREM EvidenceOnlyAdds == IntakeSpec => AttachmentsOnlyAdd
<1>1. IntakeInit => IntakeInvariant
  BY IntakeInvariantInit
<1>2. IntakeInvariant /\ [IntakeNext]_intakeVars => IntakeInvariant' /\ [NeverSofter]_intakeVars
  BY IntakeStep
<1> QED
  BY <1>1, <1>2, PTL DEF IntakeSpec, AttachmentsOnlyAdd

-----------------------------------------------------------------------------
(* DMARC reports *)

\* The reports the mail carries.
Told == {mail[i].report : i \in ReadReports(mail)}

DmarcType ==
    /\ content \in [Report -> Contents]
    /\ ReadReports(mail) \subseteq Nat /\ IsFiniteSet(ReadReports(mail)) /\ Told \subseteq Report
    /\ reports \in Seq(Report)
    /\ receiver \in [Receiver -> [at : {"idle", "report", "records"}, row : Nat, todo : SUBSET Nat]]
    /\ delivered \in Nat /\ failures \in Nat

\* A worker at work has reports of a delivered mail left, and between its two
\* statements the row of the one it is at.
WorkInHand ==
    \A w \in Receiver :
        /\ receiver[w].todo \subseteq ReadReports(mail)
        /\ IF receiver[w].at = "idle" THEN receiver[w] = Idle
           ELSE receiver[w].todo # {} /\ delivered > 0
        /\ receiver[w].at = "records" =>
             receiver[w].row \in DOMAIN reports /\ reports[receiver[w].row] = Current(w)

\* A report has one row, because it was delivered, and its records are of the row's report.
StoredOnce ==
    /\ \A i, j \in DOMAIN reports : reports[i] = reports[j] => i = j
    /\ \A i \in DOMAIN reports : delivered > 0 /\ reports[i] \in Told
    /\ records \subseteq (DOMAIN reports) \X Nat
    /\ \A p \in records : p[2] \in Kept(reports[p[1]])

\* While nothing failed, every delivered report has a row or a worker that will
\* come to it, and every row its records or a worker about to store them.
NothingLost ==
    failures = 0 =>
        /\ \A i \in ReadReports(mail) :
             delivered > 0 => \/ \E k \in DOMAIN reports : reports[k] = mail[i].report
                              \/ \E w \in Receiver : i \in receiver[w].todo
        /\ \A k \in DOMAIN reports :
             \/ {k} \X Kept(reports[k]) \subseteq records
             \/ \E w \in Receiver : receiver[w].at = "records" /\ receiver[w].row = k

DmarcInvariant == DmarcType /\ WorkInHand /\ StoredOnce /\ NothingLost

\* A set of numbers has a least one, and Min is it.
LEMMA LeastNumber == ASSUME NEW S \in SUBSET Nat, S # {} PROVE Min(S) \in S
<1>1. PICK x \in S : \A y \in S : ~(<<y, x>> \in OpToRel(<, Nat))
  BY ONLY S \in SUBSET Nat, S # {}, NatLessThanWellFounded, WFMin
<1>2. \A y \in S : x <= y
  <2> SUFFICES ASSUME NEW y \in S, ~(x <= y) PROVE FALSE
    OBVIOUS
  <2>1. y \in Nat /\ x \in Nat /\ y < x
    OBVIOUS
  <2>2. <<y, x>> \in OpToRel(<, Nat)
    BY <2>1 DEF OpToRel
  <2> QED
    BY <1>1, <2>2
<1> QED
  BY <1>2 DEF Min

\* The invariant holds before anything was delivered.
LEMMA DmarcInvariantInit == DmarcInit => DmarcInvariant
<1> SUFFICES ASSUME DmarcInit PROVE DmarcInvariant
  OBVIOUS
<1> USE DEF DmarcInit
<1>1. PICK f \in UNION {{GoodFile(r)} \cup UnreadFiles(r) : r \in Report} :
         mail = <<f>> \/ \E r \in Report : mail = <<f, GoodFile(r)>>
  BY DEF ReportMails
<1>2. \A r \in Report : \A g \in {GoodFile(r)} \cup UnreadFiles(r) : g.report = r
  BY DEF UnreadFiles, GoodFile
<1>3. f.report \in Report /\ \A r \in Report : GoodFile(r).report \in Report
  BY <1>2
<1>4. DOMAIN mail \subseteq 1..2 /\ \A i \in DOMAIN mail : mail[i].report \in Report
  <2>1. CASE mail = <<f>>
    BY <1>3, <2>1
  <2>2. CASE mail # <<f>>
    BY <1>1, <1>3, <2>2
  <2> QED
    BY <2>1, <2>2
<1>5. IsFiniteSet(1..2)
  <2>1. 1 \in Int /\ 2 \in Int
    OBVIOUS
  <2> QED
    BY ONLY <2>1, FS_Interval
<1>6. ReadReports(mail) \subseteq Nat /\ IsFiniteSet(ReadReports(mail)) /\ Told \subseteq Report
  BY <1>4, <1>5, FS_Subset DEF ReadReports, Told
<1>7. receiver \in [Receiver -> [at : {"idle", "report", "records"}, row : Nat, todo : SUBSET Nat]]
  BY DEF Idle
<1>8. DmarcType
  BY <1>6, <1>7 DEF DmarcType
<1>9. WorkInHand
  BY DEF WorkInHand, Idle
<1>10. StoredOnce /\ NothingLost
  BY DEF StoredOnce, NothingLost
<1> QED
  BY <1>8, <1>9, <1>10 DEF DmarcInvariant

\* What a worker at work has in hand.
LEMMA CurrentFacts ==
  ASSUME DmarcInvariant, NEW w \in Receiver, receiver[w].at # "idle"
  PROVE  /\ Min(receiver[w].todo) \in receiver[w].todo
         /\ Min(receiver[w].todo) \in ReadReports(mail)
         /\ Current(w) \in Report /\ Current(w) \in Told
         /\ delivered > 0
<1>1. receiver[w].todo # {} /\ receiver[w].todo \subseteq ReadReports(mail) /\ delivered > 0
  BY DEF DmarcInvariant, WorkInHand
<1>2. receiver[w].todo \in SUBSET Nat
  BY DEF DmarcInvariant, DmarcType
<1>3. Min(receiver[w].todo) \in receiver[w].todo
  BY <1>1, <1>2, LeastNumber
<1> QED
  BY <1>1, <1>3 DEF Current, Told, DmarcInvariant, DmarcType

\* A worker whose step leaves it the reports todo, and everything else it reads alone.
LEMMA ReadingFacts ==
  ASSUME NEW todo \in SUBSET Nat
  PROVE  /\ Reading(todo).todo = todo
         /\ Reading(todo).at = IF todo = {} THEN "idle" ELSE "report"
         /\ todo = {} => Reading(todo) = Idle
         /\ Reading(todo) \in [at : {"idle", "report", "records"}, row : Nat, todo : SUBSET Nat]
BY DEF Reading, Idle

\* Taking in a mail keeps the invariant.
LEMMA DeliverKeeps ==
  ASSUME DmarcInvariant, NEW w \in Receiver, Deliver(w)
  PROVE  DmarcInvariant'
<1> DEFINE places == ReadReports(mail)
<1> USE DEF DmarcInvariant
<1>1. /\ receiver[w] = Idle /\ delivered' = delivered + 1
      /\ receiver' = [receiver EXCEPT ![w] = Reading(places)]
      /\ UNCHANGED <<content, mail, reports, records, failures>>
  BY DEF Deliver
<1>2. /\ Reading(places).todo = places
      /\ Reading(places).at = IF places = {} THEN "idle" ELSE "report"
      /\ places = {} => Reading(places) = Idle
      /\ Reading(places) \in [at : {"idle", "report", "records"}, row : Nat, todo : SUBSET Nat]
  BY ReadingFacts DEF DmarcType
<1>3. ReadReports(mail)' = places /\ Told' = Told
  BY <1>1 DEF Told
<1>4. DmarcType'
  BY <1>1, <1>2, <1>3 DEF DmarcType
<1>5. receiver'[w] = Reading(places) /\ \A v \in Receiver \ {w} : receiver'[v] = receiver[v]
  BY <1>1 DEF DmarcType
<1>6. delivered' > 0 /\ (delivered > 0 => delivered' > 0)
  BY <1>1 DEF DmarcType
<1>7. WorkInHand'
  <2> SUFFICES ASSUME NEW v \in Receiver
               PROVE  /\ receiver'[v].todo \subseteq places
                      /\ IF receiver'[v].at = "idle" THEN receiver'[v] = Idle
                         ELSE receiver'[v].todo # {} /\ delivered' > 0
                      /\ receiver'[v].at = "records" =>
                           receiver'[v].row \in DOMAIN reports /\ reports[receiver'[v].row] = Current(v)'
    BY <1>1, <1>3 DEF WorkInHand
  <2>1. CASE v = w
    BY <2>1, <1>2, <1>5, <1>6
  <2>2. CASE v # w
    <3>1. receiver'[v] = receiver[v]
      BY <2>2, <1>5
    <3>2. Current(v)' = Current(v)
      BY <3>1, <1>1 DEF Current
    <3> QED
      BY <3>1, <3>2, <1>6 DEF WorkInHand
  <2> QED
    BY <2>1, <2>2
<1>8. StoredOnce'
  <2>1. \A r : Kept(r)' = Kept(r)
    BY <1>1 DEF Kept
  <2> QED
    BY <2>1, <1>1, <1>3, <1>6 DEF StoredOnce
<1>9. NothingLost'
  <2> SUFFICES ASSUME failures = 0
               PROVE  /\ \A i \in places : i \in receiver'[w].todo
                      /\ \A k \in DOMAIN reports :
                           \/ {k} \X Kept(reports[k]) \subseteq records
                           \/ \E v \in Receiver : receiver'[v].at = "records" /\ receiver'[v].row = k
    <3>1. \A r : Kept(r)' = Kept(r)
      BY <1>1 DEF Kept
    <3> QED
      BY <3>1, <1>1, <1>3 DEF NothingLost
  <2>1. \A i \in places : i \in receiver'[w].todo
    BY <1>2, <1>5
  <2>2. \A v \in Receiver : receiver[v].at = "records" => receiver'[v] = receiver[v]
    BY <1>1, <1>5 DEF Idle
  <2> QED
    BY <2>1, <2>2 DEF NothingLost
<1> QED
  BY <1>4, <1>7, <1>8, <1>9

\* A worker that goes on to its next report, while the tables keep what they hold, is
\* still at work as it should be.
LEMMA MovingOnKeeps ==
  ASSUME DmarcInvariant, NEW w \in Receiver, receiver[w].at # "idle",
         UNCHANGED <<content, mail, delivered>>,
         reports' = reports,
         receiver' = [receiver EXCEPT ![w] = Skipped(w)] \/ receiver' = [receiver EXCEPT ![w] = Idle],
         failures' \in Nat
  PROVE  DmarcType' /\ WorkInHand'
<1> DEFINE left == receiver[w].todo \ {Min(receiver[w].todo)}
<1> USE DEF DmarcInvariant
<1>1. left \in SUBSET Nat /\ left \subseteq ReadReports(mail) /\ delivered > 0
  BY CurrentFacts DEF DmarcType, WorkInHand
<1>2. /\ Reading(left).todo = left
      /\ Reading(left).at = IF left = {} THEN "idle" ELSE "report"
      /\ left = {} => Reading(left) = Idle
      /\ Reading(left) \in [at : {"idle", "report", "records"}, row : Nat, todo : SUBSET Nat]
  BY <1>1, ReadingFacts
<1>3. Idle \in [at : {"idle", "report", "records"}, row : Nat, todo : SUBSET Nat]
      /\ Idle.at = "idle" /\ Idle.todo = {}
  BY DEF Idle
<1>4. receiver'[w] \in {Reading(left), Idle} /\ \A v \in Receiver \ {w} : receiver'[v] = receiver[v]
  BY DEF DmarcType, Skipped
<1>5. ReadReports(mail)' = ReadReports(mail) /\ Told' = Told
  BY DEF Told
<1>6. receiver' \in [Receiver -> [at : {"idle", "report", "records"}, row : Nat, todo : SUBSET Nat]]
  BY <1>2, <1>3 DEF DmarcType, Skipped
<1>7. DmarcType'
  BY <1>5, <1>6 DEF DmarcType
<1>8. WorkInHand'
  <2> SUFFICES ASSUME NEW v \in Receiver
               PROVE  /\ receiver'[v].todo \subseteq ReadReports(mail)
                      /\ IF receiver'[v].at = "idle" THEN receiver'[v] = Idle
                         ELSE receiver'[v].todo # {} /\ delivered > 0
                      /\ receiver'[v].at = "records" =>
                           receiver'[v].row \in DOMAIN reports /\ reports[receiver'[v].row] = Current(v)'
    BY <1>5 DEF WorkInHand
  <2>1. CASE v = w
    <3>1. CASE receiver'[w] = Reading(left)
      BY <2>1, <3>1, <1>1, <1>2
    <3>2. CASE receiver'[w] = Idle
      BY <2>1, <3>2, <1>3
    <3> QED
      BY <1>4, <3>1, <3>2
  <2>2. CASE v # w
    <3>1. receiver'[v] = receiver[v]
      BY <2>2, <1>4
    <3>2. Current(v)' = Current(v)
      BY <3>1 DEF Current
    <3> QED
      BY <3>1, <3>2 DEF WorkInHand
  <2> QED
    BY <2>1, <2>2
<1> QED
  BY <1>7, <1>8

\* A report that has its row already is passed over.
LEMMA PassedOverKeeps ==
  ASSUME DmarcInvariant, NEW w \in Receiver, StoreReport(w), reports' = reports
  PROVE  DmarcInvariant'
<1> DEFINE left == receiver[w].todo \ {Min(receiver[w].todo)}
<1>1. /\ receiver[w].at = "report" /\ reports' = Inserted(Current(w))
      /\ receiver' = [receiver EXCEPT ![w] = Skipped(w)]
      /\ UNCHANGED <<content, mail, records, delivered, failures>>
  BY DEF StoreReport
<1>2. DmarcType' /\ WorkInHand'
  <2>1. failures' \in Nat
    BY <1>1 DEF DmarcInvariant, DmarcType
  <2> QED
    BY <1>1, <2>1, MovingOnKeeps
<1>3. (\A r : Kept(r)' = Kept(r)) /\ ReadReports(mail)' = ReadReports(mail) /\ Told' = Told
  BY <1>1 DEF Kept, Told
<1>4. StoredOnce'
  BY <1>1, <1>3 DEF StoredOnce, DmarcInvariant
<1>5. Current(w) \in Range(reports)
  <2> SUFFICES ASSUME Current(w) \notin Range(reports) PROVE FALSE
    OBVIOUS
  <2>1. reports = Append(reports, Current(w))
    BY <1>1 DEF Inserted
  <2>2. reports \in Seq(Report) /\ Current(w) \in Report
    BY <1>1, CurrentFacts DEF DmarcInvariant, DmarcType
  <2> QED
    BY <2>1, <2>2
<1>6. \A v \in Receiver : /\ receiver'[v].at = "records" <=> receiver[v].at = "records"
                          /\ receiver[v].at = "records" => receiver'[v] = receiver[v]
                          /\ \A i \in receiver[v].todo :
                               i \in receiver'[v].todo \/ mail[i].report = Current(w)
  <2> SUFFICES ASSUME NEW v \in Receiver
               PROVE  /\ receiver'[v].at = "records" <=> receiver[v].at = "records"
                      /\ receiver[v].at = "records" => receiver'[v] = receiver[v]
                      /\ \A i \in receiver[v].todo :
                           i \in receiver'[v].todo \/ mail[i].report = Current(w)
    OBVIOUS
  <2>1. CASE v # w
    BY <2>1, <1>1 DEF DmarcInvariant, DmarcType
  <2>2. CASE v = w
    <3>1. receiver'[w] = Reading(left) /\ left \in SUBSET Nat
      BY <1>1 DEF DmarcInvariant, DmarcType, Skipped
    <3>2. receiver'[w].todo = left /\ receiver'[w].at # "records"
      BY <3>1, ReadingFacts
    <3> QED
      BY <2>2, <3>2, <1>1 DEF Current
  <2> QED
    BY <2>1, <2>2
<1>7. NothingLost'
  BY <1>1, <1>3, <1>5, <1>6 DEF NothingLost, DmarcInvariant, Range
<1> QED
  BY <1>2, <1>4, <1>7 DEF DmarcInvariant

\* A report that has none gets one, whose records its worker will store.
LEMMA RowInsertedKeeps ==
  ASSUME DmarcInvariant, NEW w \in Receiver, StoreReport(w), reports' # reports
  PROVE  DmarcInvariant'
<1> DEFINE r == Current(w)
           n == Len(reports) + 1
<1> USE DEF DmarcInvariant
<1>1. /\ receiver[w].at = "report" /\ reports' = Inserted(r)
      /\ receiver' = [receiver EXCEPT ![w] = [@ EXCEPT !.at = "records", !.row = Len(reports')]]
      /\ UNCHANGED <<content, mail, records, delivered, failures>>
  BY DEF StoreReport
<1>2. r \notin Range(reports) /\ reports' = Append(reports, r)
  BY <1>1 DEF Inserted
<1>3. reports \in Seq(Report) /\ r \in Report /\ r \in Told /\ delivered > 0
  BY <1>1, CurrentFacts DEF DmarcType
<1>4. /\ reports' \in Seq(Report) /\ Len(reports') = n /\ n \in Nat /\ DOMAIN reports = 1..Len(reports)
      /\ DOMAIN reports' = 1..n /\ reports'[n] = r
      /\ \A k \in DOMAIN reports : k \in DOMAIN reports' /\ k # n /\ reports'[k] = reports[k]
      /\ \A k \in DOMAIN reports' : k = n \/ k \in DOMAIN reports
  BY <1>2, <1>3
<1> HIDE DEF n
<1>5. /\ receiver'[w].at = "records" /\ receiver'[w].row = n /\ receiver'[w].todo = receiver[w].todo
      /\ \A v \in Receiver \ {w} : receiver'[v] = receiver[v]
      /\ receiver' \in [Receiver -> [at : {"idle", "report", "records"}, row : Nat, todo : SUBSET Nat]]
  BY <1>1, <1>4 DEF DmarcType
<1>6. (\A q : Kept(q)' = Kept(q)) /\ ReadReports(mail)' = ReadReports(mail) /\ Told' = Told
  BY <1>1 DEF Kept, Told
<1>7. \A v \in Receiver : Current(v)' = Current(v)
  BY <1>1, <1>5 DEF Current
<1>8. DmarcType'
  BY <1>1, <1>4, <1>5, <1>6 DEF DmarcType
<1>9. WorkInHand'
  <2> SUFFICES ASSUME NEW v \in Receiver
               PROVE  /\ receiver'[v].todo \subseteq ReadReports(mail)
                      /\ IF receiver'[v].at = "idle" THEN receiver'[v] = Idle
                         ELSE receiver'[v].todo # {} /\ delivered > 0
                      /\ receiver'[v].at = "records" =>
                           receiver'[v].row \in DOMAIN reports' /\ reports'[receiver'[v].row] = Current(v)
    BY <1>1, <1>6, <1>7 DEF WorkInHand
  <2>1. CASE v = w
    BY <2>1, <1>1, <1>3, <1>4, <1>5 DEF WorkInHand
  <2>2. CASE v # w
    BY <2>2, <1>4, <1>5 DEF WorkInHand
  <2> QED
    BY <2>1, <2>2
<1>10. StoredOnce'
  <2>1. \A i, j \in DOMAIN reports' : reports'[i] = reports'[j] => i = j
    <3>1. \A k \in DOMAIN reports : reports[k] # r
      BY <1>2 DEF Range
    <3>2. \A k \in DOMAIN reports : reports'[k] # r
      BY <1>4, <3>1
    <3> QED
      BY <1>4, <3>2 DEF StoredOnce
  <2>2. \A i \in DOMAIN reports' : reports'[i] \in Told
    BY <1>3, <1>4 DEF StoredOnce
  <2>3. records \subseteq (DOMAIN reports') \X Nat
    BY <1>4 DEF StoredOnce
  <2>4. \A p \in records : p[2] \in Kept(reports'[p[1]])
    BY <1>4 DEF StoredOnce
  <2> QED
    BY <1>1, <1>3, <1>6, <2>1, <2>2, <2>3, <2>4 DEF StoredOnce
<1>11. NothingLost'
  <2> SUFFICES ASSUME failures = 0
               PROVE  /\ \A i \in ReadReports(mail) :
                           \/ \E k \in DOMAIN reports' : reports'[k] = mail[i].report
                           \/ \E v \in Receiver : i \in receiver'[v].todo
                      /\ \A k \in DOMAIN reports' :
                           \/ {k} \X Kept(reports'[k]) \subseteq records
                           \/ \E v \in Receiver : receiver'[v].at = "records" /\ receiver'[v].row = k
    BY <1>1, <1>6 DEF NothingLost
  <2>1. \A v \in Receiver : receiver'[v].todo = receiver[v].todo
    BY <1>5
  <2>2. \A v \in Receiver : receiver[v].at = "records" => receiver'[v] = receiver[v]
    BY <1>1, <1>5
  <2>3. ASSUME NEW i \in ReadReports(mail)
        PROVE  \/ \E k \in DOMAIN reports' : reports'[k] = mail[i].report
               \/ \E v \in Receiver : i \in receiver'[v].todo
    BY <1>3, <1>4, <2>1 DEF NothingLost
  <2>4. ASSUME NEW k \in DOMAIN reports'
        PROVE  \/ {k} \X Kept(reports'[k]) \subseteq records
               \/ \E v \in Receiver : receiver'[v].at = "records" /\ receiver'[v].row = k
    <3>1. CASE k = n
      BY <3>1, <1>5
    <3>2. CASE k # n
      BY <3>2, <1>4, <2>2 DEF NothingLost
    <3> QED
      BY <3>1, <3>2
  <2> QED
    BY <2>3, <2>4
<1> QED
  BY <1>8, <1>9, <1>10, <1>11

\* The batch stores what the row still lacks.
LEMMA StoreRecordsKeeps ==
  ASSUME DmarcInvariant, NEW w \in Receiver, StoreRecords(w)
  PROVE  DmarcInvariant'
<1> DEFINE left == receiver[w].todo \ {Min(receiver[w].todo)}
           row == receiver[w].row
<1>1. /\ receiver[w].at = "records"
      /\ records' = records \cup ({row} \X Kept(Current(w)))
      /\ receiver' = [receiver EXCEPT ![w] = Skipped(w)]
      /\ UNCHANGED <<content, mail, reports, delivered, failures>>
  BY DEF StoreRecords
<1>2. DmarcType' /\ WorkInHand'
  <2>1. failures' \in Nat
    BY <1>1 DEF DmarcInvariant, DmarcType
  <2> QED
    BY <1>1, <2>1, MovingOnKeeps
<1>3. (\A r : Kept(r)' = Kept(r)) /\ ReadReports(mail)' = ReadReports(mail) /\ Told' = Told
  BY <1>1 DEF Kept, Told
<1>4. row \in DOMAIN reports /\ reports[row] = Current(w)
  BY <1>1 DEF DmarcInvariant, WorkInHand
<1>5. Kept(Current(w)) \subseteq Nat
  BY DEF Kept
<1>6. StoredOnce'
  <2>1. records' \subseteq (DOMAIN reports) \X Nat
    BY <1>1, <1>4, <1>5 DEF DmarcInvariant, StoredOnce
  <2>2. \A p \in records' : p[2] \in Kept(reports[p[1]])
    BY <1>1, <1>4 DEF DmarcInvariant, StoredOnce
  <2> QED
    BY <1>1, <1>3, <2>1, <2>2 DEF DmarcInvariant, StoredOnce
<1>7. \A v \in Receiver : /\ receiver[v].at = "records" =>
                               receiver'[v] = receiver[v] \/ receiver[v].row = row
                          /\ \A i \in receiver[v].todo :
                               i \in receiver'[v].todo \/ mail[i].report = Current(w)
  <2> SUFFICES ASSUME NEW v \in Receiver
               PROVE  /\ receiver[v].at = "records" => receiver'[v] = receiver[v] \/ receiver[v].row = row
                      /\ \A i \in receiver[v].todo :
                           i \in receiver'[v].todo \/ mail[i].report = Current(w)
    OBVIOUS
  <2>1. CASE v # w
    BY <2>1, <1>1 DEF DmarcInvariant, DmarcType
  <2>2. CASE v = w
    <3>1. receiver'[w] = Reading(left) /\ left \in SUBSET Nat
      BY <1>1 DEF DmarcInvariant, DmarcType, Skipped
    <3>2. receiver'[w].todo = left
      BY <3>1, ReadingFacts
    <3> QED
      BY <2>2, <3>2 DEF Current
  <2> QED
    BY <2>1, <2>2
<1>8. NothingLost'
  <2> SUFFICES ASSUME failures = 0
               PROVE  /\ \A i \in ReadReports(mail) :
                           delivered > 0 => \/ \E k \in DOMAIN reports : reports[k] = mail[i].report
                                            \/ \E v \in Receiver : i \in receiver'[v].todo
                      /\ \A k \in DOMAIN reports :
                           \/ {k} \X Kept(reports[k]) \subseteq records'
                           \/ \E v \in Receiver : receiver'[v].at = "records" /\ receiver'[v].row = k
    BY <1>1, <1>3 DEF NothingLost
  <2>1. ASSUME NEW i \in ReadReports(mail), delivered > 0
        PROVE  \/ \E k \in DOMAIN reports : reports[k] = mail[i].report
               \/ \E v \in Receiver : i \in receiver'[v].todo
    BY <2>1, <1>4, <1>7 DEF NothingLost, DmarcInvariant
  <2>2. ASSUME NEW k \in DOMAIN reports
        PROVE  \/ {k} \X Kept(reports[k]) \subseteq records'
               \/ \E v \in Receiver : receiver'[v].at = "records" /\ receiver'[v].row = k
    <3>1. CASE k = row
      BY <3>1, <1>1, <1>4
    <3>2. CASE k # row
      BY <3>2, <1>1, <1>7 DEF NothingLost, DmarcInvariant
    <3> QED
      BY <3>1, <3>2
  <2> QED
    BY <2>1, <2>2
<1> QED
  BY <1>2, <1>6, <1>8 DEF DmarcInvariant

\* A failure takes a promise with it, which NothingLost does not give then.
LEMMA StoreFailsKeeps ==
  ASSUME DmarcInvariant, NEW w \in Receiver, StoreFails(w)
  PROVE  DmarcInvariant'
<1>1. /\ receiver[w] # Idle /\ failures' = failures + 1
      /\ receiver' = [receiver EXCEPT ![w] = Skipped(w)] \/ receiver' = [receiver EXCEPT ![w] = Idle]
      /\ UNCHANGED <<content, mail, reports, records, delivered>>
  BY DEF StoreFails
<1>2. receiver[w].at # "idle"
  BY <1>1 DEF DmarcInvariant, WorkInHand
<1>3. failures' \in Nat /\ failures' # 0
  BY <1>1 DEF DmarcInvariant, DmarcType
<1>4. DmarcType' /\ WorkInHand'
  BY <1>1, <1>2, <1>3, MovingOnKeeps
<1>5. (\A r : Kept(r)' = Kept(r)) /\ ReadReports(mail)' = ReadReports(mail) /\ Told' = Told
  BY <1>1 DEF Kept, Told
<1>6. StoredOnce'
  BY <1>1, <1>5 DEF StoredOnce, DmarcInvariant
<1>7. NothingLost'
  BY <1>3 DEF NothingLost
<1> QED
  BY <1>4, <1>6, <1>7 DEF DmarcInvariant

\* Every step keeps the invariant.
LEMMA DmarcInvariantNext ==
  ASSUME DmarcInvariant, [DmarcNext]_dmarcVars
  PROVE  DmarcInvariant'
<1>1. CASE UNCHANGED dmarcVars
  <2>1. /\ ReadReports(mail)' = ReadReports(mail) /\ Told' = Told /\ (\A r : Kept(r)' = Kept(r))
        /\ \A w : Current(w)' = Current(w)
    BY <1>1 DEF dmarcVars, Told, Kept, Current
  <2> QED
    BY <1>1, <2>1 DEF dmarcVars, DmarcInvariant, DmarcType, WorkInHand, StoredOnce, NothingLost
<1>2. ASSUME NEW w \in Receiver, Deliver(w) \/ StoreReport(w) \/ StoreRecords(w) \/ StoreFails(w)
      PROVE  DmarcInvariant'
  BY <1>2, DeliverKeeps, PassedOverKeeps, RowInsertedKeeps, StoreRecordsKeeps, StoreFailsKeeps
<1> QED
  BY <1>1, <1>2 DEF DmarcNext

\* What a record weighs, as a function of the set that names it.
CountOf(X) == [p \in X |-> content[p.report].records[p.nth].count]

\* The sums of dmarcTotals are sums of that function.
LEMMA CountsAreTotals ==
  ASSUME NEW X, NEW S \in SUBSET X, IsFiniteSet(S)
  PROVE  MapThenSumSet(LAMBDA p : content[p.report].records[p.nth].count, S) = Total(CountOf(X), S)
<1> DEFINE f == CountOf(X)
           Sums(g) == g = [s \in SUBSET S |-> IF s = {} THEN 0
                               ELSE content[Pick(s).report].records[Pick(s).nth].count + g[s \ {Pick(s)}]]
<1>1. MapThenSumSet(LAMBDA p : content[p.report].records[p.nth].count, S) = (CHOOSE g : Sums(g))[S]
  BY DEF MapThenSumSet, MapThenFoldSet, Pick
<1>2. ASSUME NEW g PROVE Sums(g) <=> SumsUp(g, f, S)
  <2>1. \A s \in SUBSET S : s # {} => f[Pick(s)] = content[Pick(s).report].records[Pick(s).nth].count
    BY PickFacts DEF CountOf
  <2> HIDE DEF f
  <2>2. [s \in SUBSET S |-> IF s = {} THEN 0
            ELSE content[Pick(s).report].records[Pick(s).nth].count + g[s \ {Pick(s)}]]
        = [s \in SUBSET S |-> IF s = {} THEN 0 ELSE f[Pick(s)] + g[s \ {Pick(s)}]]
    BY <2>1
  <2> QED
    BY ONLY <2>2 DEF SumsUp
<1> HIDE DEF Sums, f
<1>3. SumsUp(CHOOSE g : SumsUp(g, f, S), f, S)
  BY SumsUpExists
<1>4. \E g : Sums(g)
  BY <1>2, <1>3
<1>5. SumsUp(CHOOSE g : Sums(g), f, S)
  BY <1>2, <1>4
<1>6. (CHOOSE g : Sums(g))[S] = (CHOOSE g : SumsUp(g, f, S))[S]
  BY <1>3, <1>5, SumsUpUnique
<1>7. MapThenSumSet(LAMBDA p : content[p.report].records[p.nth].count, S) = Total(f, S)
  BY <1>1, <1>6, TotalIsChosen
<1> QED
  BY <1>7 DEF f

\* What getDeliverability finds of the reports in the window, and what was said of them.
Heard == {r \in Told : delivered > 0 /\ InWindow(r)}
StoredRecords ==
    {[row |-> p[1], report |-> reports[p[1]], nth |-> p[2]] : p \in {q \in records : q[1] \in Rows}}
SaidRecords == UNION {{[row |-> 0, report |-> r, nth |-> i] : i \in Kept(r)} : r \in Heard}
AllRecords == StoredRecords \cup SaidRecords

\* A stored record, named by what was said.
Bare == [p \in StoredRecords |-> [row |-> 0, report |-> p.report, nth |-> p.nth]]

AllStored == failures = 0 /\ \A w \in Receiver : receiver[w] = Idle

\* What was heard of is finitely many reports.
LEMMA HeardIsFinite ==
  ASSUME DmarcInvariant
  PROVE  IsFiniteSet(Heard) /\ Heard \subseteq Report
<1> DEFINE name == [i \in ReadReports(mail) |-> mail[i].report]
<1>1. name \in Surjection(ReadReports(mail), Told)
  BY DEF Surjection, Told
<1>2. IsFiniteSet(ReadReports(mail))
  BY DEF DmarcInvariant, DmarcType
<1> HIDE DEF name
<1>3. IsFiniteSet(Told)
  BY <1>1, <1>2, FS_Surjection
<1>4. Heard \in SUBSET Told
  BY DEF Heard
<1> QED
  BY <1>3, <1>4, FS_Subset DEF DmarcInvariant, DmarcType

\* A list of records whose counts are numbers.
Counted(rows) == Len(rows) \in Nat /\ \A i \in 1..Len(rows) : rows[i].count \in Nat

\* The record lists of the model have counts that are numbers.
LEMMA ListsAreCounted == \A rows \in RecordLists \cup {<<Result(TRUE, 2, FALSE, FALSE)>>} : Counted(rows)
<1> DEFINE a == Result(TRUE, 2, TRUE, FALSE)
           b == Result(TRUE, 1, FALSE, FALSE)
           c == Result(FALSE, 5, TRUE, TRUE)
           d == Result(TRUE, 1, FALSE, TRUE)
           e == Result(TRUE, 3, TRUE, TRUE)
           g == Result(TRUE, 2, FALSE, FALSE)
<1>1. a.count \in Nat /\ b.count \in Nat /\ c.count \in Nat /\ d.count \in Nat /\ e.count \in Nat /\ g.count \in Nat
  BY DEF Result
<1>2. \A rows \in RecordLists \cup {<<g>>} : rows = <<>> \/ rows = <<a, b>> \/ rows = <<c, d, e>> \/ rows = <<g>>
  BY DEF RecordLists
<1> HIDE DEF a, b, c, d, e, g
<1>3. Counted(<<>>)
  BY DEF Counted
<1>4. Counted(<<a, b>>)
  <2>1. Len(<<a, b>>) = 2 /\ <<a, b>>[1] = a /\ <<a, b>>[2] = b
    OBVIOUS
  <2>2. \A i \in 1..2 : i = 1 \/ i = 2
    OBVIOUS
  <2> QED
    BY <1>1, <2>1, <2>2 DEF Counted
<1>5. Counted(<<c, d, e>>)
  <2>1. Len(<<c, d, e>>) = 3 /\ <<c, d, e>>[1] = c /\ <<c, d, e>>[2] = d /\ <<c, d, e>>[3] = e
    OBVIOUS
  <2>2. \A i \in 1..3 : i = 1 \/ i = 2 \/ i = 3
    OBVIOUS
  <2> QED
    BY <1>1, <2>1, <2>2 DEF Counted
<1>6. Counted(<<g>>)
  BY <1>1 DEF Counted
<1>7. \A rows \in RecordLists \cup {<<g>>} : Counted(rows)
  BY <1>2, <1>3, <1>4, <1>5, <1>6
<1> QED
  BY <1>7 DEF g

\* So every report's content has.
LEMMA ContentsAreCounted == \A c \in Contents : Counted(c.records)
<1> SUFFICES ASSUME NEW c \in Contents PROVE Counted(c.records)
  OBVIOUS
<1> DEFINE one == <<Result(TRUE, 2, FALSE, FALSE)>>
<1>0. c \in [ours : {TRUE}, recent : {TRUE}, records : RecordLists] \/ \E o \in BOOLEAN : c = [ours |-> o, recent |-> ~o, records |-> one]
  BY DEF Contents
<1> HIDE DEF one
<1>1. CASE c \in [ours : {TRUE}, recent : {TRUE}, records : RecordLists]
  BY <1>1, ListsAreCounted
<1>2. CASE \E o \in BOOLEAN : c = [ours |-> o, recent |-> ~o, records |-> one]
  <2>1. c.records = one
    BY <1>2
  <2> QED
    BY <2>1, ListsAreCounted DEF one
<1> QED
  BY <1>0, <1>1, <1>2

\* The records of a report that are kept are numbers of its list, each with a count.
LEMMA KeptFacts ==
  ASSUME DmarcInvariant, NEW r \in Report
  PROVE  Kept(r) \subseteq 1..MaxRecords /\ \A i \in Kept(r) : content[r].records[i].count \in Nat
<1> DEFINE rows == content[r].records
<1>1. content[r] \in Contents
  BY DEF DmarcInvariant, DmarcType
<1>2. Counted(rows)
  BY <1>1, ContentsAreCounted
<1>3. Kept(r) = {i \in 1..Len(rows) : i <= MaxRecords /\ rows[i].ip}
  BY DEF Kept
<1> HIDE DEF rows
<1>4. Kept(r) \subseteq 1..MaxRecords /\ \A i \in Kept(r) : rows[i].count \in Nat
  BY <1>2, <1>3, DmarcAssumption DEF Counted
<1> QED
  BY <1>4 DEF rows

\* What was said is finitely many records, each of a report that was heard.
LEMMA SaidFacts ==
  ASSUME DmarcInvariant
  PROVE  /\ IsFiniteSet(SaidRecords)
         /\ \A p \in SaidRecords : p.report \in Heard /\ p.nth \in Kept(p.report)
                                    /\ p = [row |-> 0, report |-> p.report, nth |-> p.nth]
<1>1. \A p \in SaidRecords : p.report \in Heard /\ p.nth \in Kept(p.report)
                              /\ p = [row |-> 0, report |-> p.report, nth |-> p.nth]
  BY DEF SaidRecords
<1> DEFINE P == Heard \X (1..MaxRecords)
           name == [q \in P |-> [row |-> 0, report |-> q[1], nth |-> q[2]]]
           Named == {name[q] : q \in P}
<1>2. IsFiniteSet(P)
  <2>1. IsFiniteSet(1..MaxRecords)
    BY FS_Interval, DmarcAssumption
  <2> QED
    BY <2>1, HeardIsFinite, FS_Product
<1>3. name \in Surjection(P, Named)
  BY DEF Surjection
<1>4. SaidRecords \in SUBSET Named
  <2> SUFFICES ASSUME NEW p \in SaidRecords PROVE p \in Named
    OBVIOUS
  <2>1. <<p.report, p.nth>> \in P
    BY <1>1, HeardIsFinite, KeptFacts
  <2>2. name[<<p.report, p.nth>>] = p
    BY <1>1, <2>1
  <2> QED
    BY <2>1, <2>2
<1> HIDE DEF P, name, Named
<1>5. IsFiniteSet(Named)
  BY <1>2, <1>3, FS_Surjection
<1> QED
  BY <1>1, <1>4, <1>5, FS_Subset

\* Each stored record is one that was said, and no two are the same one.
LEMMA BareFacts ==
  ASSUME DmarcInvariant
  PROVE  /\ \A p \in StoredRecords : Bare[p] \in SaidRecords /\ Bare[p].report = p.report /\ Bare[p].nth = p.nth
         /\ \A p, q \in StoredRecords : Bare[p] = Bare[q] => p = q
         /\ IsFiniteSet(StoredRecords)
<1>1. \A p \in StoredRecords :
        /\ p.row \in Rows /\ p.row \in DOMAIN reports /\ p.report = reports[p.row] /\ p.nth \in Kept(p.report)
        /\ p = [row |-> p.row, report |-> p.report, nth |-> p.nth]
  BY DEF StoredRecords, Rows, DmarcInvariant, StoredOnce
<1>2. \A p \in StoredRecords : p.report \in Heard
  BY <1>1 DEF Heard, Rows, DmarcInvariant, StoredOnce
<1>3. \A p \in StoredRecords : Bare[p] \in SaidRecords /\ Bare[p].report = p.report /\ Bare[p].nth = p.nth
  BY <1>1, <1>2 DEF Bare, SaidRecords
<1>4. \A p, q \in StoredRecords : Bare[p] = Bare[q] => p = q
  <2> SUFFICES ASSUME NEW p \in StoredRecords, NEW q \in StoredRecords, Bare[p] = Bare[q] PROVE p = q
    OBVIOUS
  <2>1. p.report = q.report /\ p.nth = q.nth
    BY <1>3
  <2>2. p.row = q.row
    BY <2>1, <1>1 DEF DmarcInvariant, StoredOnce
  <2> QED
    BY <2>1, <2>2, <1>1
<1>5. Bare \in Injection(StoredRecords, SaidRecords)
  BY <1>3, <1>4 DEF Injection, IsInjective, Bare
<1> QED
  BY <1>3, <1>4, <1>5, SaidFacts, FS_Injection

\* When nothing is left to do and nothing failed, each record that was said is stored.
LEMMA AllIsStored ==
  ASSUME DmarcInvariant, AllStored
  PROVE  /\ \A q \in SaidRecords : \E p \in StoredRecords : Bare[p] = q
         /\ \A r \in Heard : \E i \in Rows : reports[i] = r
<1>1. ASSUME NEW r \in Heard
      PROVE  \E i \in Rows : reports[i] = r /\ {i} \X Kept(r) \subseteq records
  <2>1. PICK m \in ReadReports(mail) : mail[m].report = r
    BY DEF Heard, Told
  <2>2. delivered > 0 /\ InWindow(r)
    BY DEF Heard
  <2>3. \A w \in Receiver : receiver[w].todo = {} /\ receiver[w].at # "records"
    BY DEF AllStored, Idle
  <2>4. PICK k \in DOMAIN reports : reports[k] = r
    BY <2>1, <2>2, <2>3 DEF DmarcInvariant, NothingLost, AllStored
  <2>5. {k} \X Kept(r) \subseteq records
    BY <2>3, <2>4 DEF DmarcInvariant, NothingLost, AllStored
  <2> QED
    BY <2>2, <2>4, <2>5 DEF Rows
<1>2. ASSUME NEW q \in SaidRecords
      PROVE  \E p \in StoredRecords : Bare[p] = q
  <2>1. q.report \in Heard /\ q.nth \in Kept(q.report) /\ q = [row |-> 0, report |-> q.report, nth |-> q.nth]
    BY SaidFacts
  <2>2. PICK i \in Rows : reports[i] = q.report /\ {i} \X Kept(q.report) \subseteq records
    BY <1>1, <2>1
  <2> DEFINE p == [row |-> i, report |-> q.report, nth |-> q.nth]
  <2>3. <<i, q.nth>> \in records
    BY <2>1, <2>2
  <2>4. p \in StoredRecords
    BY <2>2, <2>3 DEF StoredRecords
  <2>5. Bare[p] = q
    BY <2>1, <2>4 DEF Bare
  <2> QED
    BY <2>4, <2>5
<1> QED
  BY <1>1, <1>2

\* Over any class of records that a report and a place in it decide, the stored ones
\* weigh no more than those that were said, and the same once all is stored.
LEMMA StoredWeighsNoMore ==
  ASSUME DmarcInvariant, NEW H, \A p \in StoredRecords : p \in H <=> Bare[p] \in H
  PROVE  LET f == CountOf(AllRecords)
         IN  /\ Total(f, StoredRecords \cap H) \in Nat /\ Total(f, SaidRecords \cap H) \in Nat
             /\ Total(f, StoredRecords \cap H) <= Total(f, SaidRecords \cap H)
             /\ AllStored => Total(f, StoredRecords \cap H) = Total(f, SaidRecords \cap H)
<1> DEFINE f == CountOf(AllRecords)
           A == StoredRecords \cap H
           B == SaidRecords \cap H
           Image == {Bare[p] : p \in A}
<1>1. \A p \in AllRecords : f[p] \in Nat /\ f[p] = content[p.report].records[p.nth].count
  <2> SUFFICES ASSUME NEW p \in AllRecords PROVE content[p.report].records[p.nth].count \in Nat
    BY DEF CountOf
  <2>1. p.report \in Report /\ p.nth \in Kept(p.report)
    <3>1. CASE p \in SaidRecords
      BY <3>1, SaidFacts, HeardIsFinite
    <3>2. CASE p \in StoredRecords
      <4>1. Bare[p].report \in Heard /\ Bare[p].nth \in Kept(Bare[p].report)
        BY <3>2, BareFacts, SaidFacts
      <4> QED
        BY <3>2, <4>1, BareFacts, HeardIsFinite
    <3> QED
      BY <3>1, <3>2 DEF AllRecords
  <2> QED
    BY <2>1, KeptFacts
<1>2. IsFiniteSet(A) /\ IsFiniteSet(B)
  <2>1. A \in SUBSET StoredRecords /\ B \in SUBSET SaidRecords
    OBVIOUS
  <2> HIDE DEF A, B
  <2> QED
    BY <2>1, BareFacts, SaidFacts, FS_Subset
<1>3. A \subseteq AllRecords /\ B \subseteq AllRecords /\ A \subseteq StoredRecords
  BY DEF AllRecords
<1>4. \A p \in A : Bare[p] \in B /\ f[Bare[p]] = f[p]
  BY <1>1, <1>3, BareFacts
<1>5. \A p, q \in A : Bare[p] = Bare[q] => p = q
  BY BareFacts
<1>6. \A x \in B : f[x] \in Nat
  BY <1>1, <1>3
<1>7. \A x \in A : f[x] \in Nat
  BY <1>1, <1>3
<1>8. Image \in SUBSET B /\ (AllStored => Image = B)
  <2>1. ASSUME AllStored, NEW q \in B PROVE q \in Image
    <3>1. PICK p \in StoredRecords : Bare[p] = q
      BY <2>1, AllIsStored
    <3>2. p \in A
      BY <3>1
    <3> QED
      BY <3>1, <3>2
  <2> QED
    BY <1>4, <2>1
<1> HIDE DEF f, A, B
<1>9. Total(f, A) = Total(f, Image)
  BY <1>2, <1>4, <1>5, <1>7, TotalRenamed
<1> HIDE DEF Image
<1>10. Total(f, Image) <= Total(f, B)
  BY <1>2, <1>6, <1>8, TotalGrows
<1>11. Total(f, A) \in Nat /\ Total(f, B) \in Nat
  BY <1>2, <1>6, <1>7, TotalIsNat
<1>12. /\ Total(f, A) \in Nat /\ Total(f, B) \in Nat /\ Total(f, A) <= Total(f, B)
       /\ AllStored => Total(f, A) = Total(f, B)
  BY <1>8, <1>9, <1>10, <1>11
<1> QED
  BY <1>12 DEF f, A, B

\* The totals are the sums of the counts over the classes of records.
LEMMA TotalsAre ==
  ASSUME DmarcInvariant, NEW S \in SUBSET AllRecords, IsFiniteSet(S), NEW n
  PROVE  LET f == CountOf(AllRecords)
             Entry(p) == content[p.report].records[p.nth]
         IN  TotalsOver(n, S) =
               [reports |-> n,
                messages |-> Total(f, S \cap AllRecords),
                pass |-> Total(f, S \cap {p \in AllRecords : Entry(p).dkim \/ Entry(p).spf}),
                dkim_pass |-> Total(f, S \cap {p \in AllRecords : Entry(p).dkim}),
                spf_pass |-> Total(f, S \cap {p \in AllRecords : Entry(p).spf})]
<1> DEFINE f == CountOf(AllRecords)
           Entry(p) == content[p.report].records[p.nth]
           All == {p \in S : TRUE}
           Pass == {p \in S : Entry(p).dkim \/ Entry(p).spf}
           Dkim == {p \in S : Entry(p).dkim}
           Spf == {p \in S : Entry(p).spf}
<1>1. TotalsOver(n, S) =
        [reports |-> n,
         messages |-> MapThenSumSet(LAMBDA p : content[p.report].records[p.nth].count, All),
         pass |-> MapThenSumSet(LAMBDA p : content[p.report].records[p.nth].count, Pass),
         dkim_pass |-> MapThenSumSet(LAMBDA p : content[p.report].records[p.nth].count, Dkim),
         spf_pass |-> MapThenSumSet(LAMBDA p : content[p.report].records[p.nth].count, Spf)]
  BY DEF TotalsOver
<1>2. /\ All = S \cap AllRecords
      /\ Pass = S \cap {p \in AllRecords : Entry(p).dkim \/ Entry(p).spf}
      /\ Dkim = S \cap {p \in AllRecords : Entry(p).dkim}
      /\ Spf = S \cap {p \in AllRecords : Entry(p).spf}
  OBVIOUS
<1>3. /\ All \in SUBSET S /\ Pass \in SUBSET S /\ Dkim \in SUBSET S /\ Spf \in SUBSET S
  OBVIOUS
<1> HIDE DEF All, Pass, Dkim, Spf
<1>4. \A s \in SUBSET S : s \in SUBSET AllRecords /\ IsFiniteSet(s)
  BY FS_Subset
<1>5. /\ MapThenSumSet(LAMBDA p : content[p.report].records[p.nth].count, All) = Total(f, All)
      /\ MapThenSumSet(LAMBDA p : content[p.report].records[p.nth].count, Pass) = Total(f, Pass)
      /\ MapThenSumSet(LAMBDA p : content[p.report].records[p.nth].count, Dkim) = Total(f, Dkim)
      /\ MapThenSumSet(LAMBDA p : content[p.report].records[p.nth].count, Spf) = Total(f, Spf)
  BY <1>3, <1>4, CountsAreTotals
<1> HIDE DEF f
<1> QED
  BY <1>1, <1>2, <1>5 DEF f

\* A row in the window is of a report that was said, one of its own.
LEMMA RowsAreHeard ==
  ASSUME DmarcInvariant
  PROVE  /\ Cardinality(Rows) \in Nat /\ Cardinality(Heard) \in Nat
         /\ Cardinality(Rows) <= Cardinality(Heard)
         /\ AllStored => Cardinality(Rows) = Cardinality(Heard)
<1> DEFINE h == [i \in Rows |-> reports[i]]
<1>1. h \in Injection(Rows, Heard)
  BY DEF Injection, IsInjective, Rows, Heard, DmarcInvariant, StoredOnce
<1>2. AllStored => h \in Surjection(Rows, Heard)
  <2>1. \A i \in Rows : h[i] \in Heard
    BY <1>1 DEF Injection
  <2> QED
    BY <2>1, AllIsStored DEF Surjection
<1>3. IsFiniteSet(Heard)
  BY HeardIsFinite
<1> HIDE DEF h
<1>4. IsFiniteSet(Rows) /\ Cardinality(Rows) <= Cardinality(Heard)
  BY <1>1, <1>3, FS_Injection
<1>5. AllStored => Cardinality(Heard) <= Cardinality(Rows)
  BY <1>2, <1>4, FS_Surjection
<1>6. Cardinality(Rows) \in Nat /\ Cardinality(Heard) \in Nat
  BY <1>3, <1>4, FS_CardinalityType
<1> QED
  BY <1>4, <1>5, <1>6

\* In every state of the invariant the totals count no message twice, and none is
\* missing once all is stored.
LEMMA CountsOnce == DmarcInvariant => CountedOnce
<1> SUFFICES ASSUME DmarcInvariant PROVE CountedOnce
  OBVIOUS
<1> DEFINE f == CountOf(AllRecords)
           Entry(p) == content[p.report].records[p.nth]
           Pass == {p \in AllRecords : Entry(p).dkim \/ Entry(p).spf}
           Dkim == {p \in AllRecords : Entry(p).dkim}
           Spf == {p \in AllRecords : Entry(p).spf}
           Sum(S, H) == Total(f, S \cap H)
           t == TotalsOver(Cardinality(Rows), StoredRecords)
           s == TotalsOver(Cardinality(Heard), SaidRecords)
<1>1. Totals = t /\ Said = s
  BY DEF Totals, Said, StoredRecords, SaidRecords, Heard, Told
<1>2. StoredRecords \in SUBSET AllRecords /\ SaidRecords \in SUBSET AllRecords
  BY DEF AllRecords
<1>3. IsFiniteSet(StoredRecords) /\ IsFiniteSet(SaidRecords)
  BY BareFacts, SaidFacts
<1>4. \A p \in StoredRecords : Bare[p] \in AllRecords /\ p \in AllRecords /\ Entry(Bare[p]) = Entry(p)
  BY BareFacts DEF AllRecords
<1>5. t = [reports |-> Cardinality(Rows), messages |-> Sum(StoredRecords, AllRecords),
           pass |-> Sum(StoredRecords, Pass), dkim_pass |-> Sum(StoredRecords, Dkim), spf_pass |-> Sum(StoredRecords, Spf)]
  BY <1>2, <1>3, TotalsAre
<1>6. s = [reports |-> Cardinality(Heard), messages |-> Sum(SaidRecords, AllRecords),
           pass |-> Sum(SaidRecords, Pass), dkim_pass |-> Sum(SaidRecords, Dkim), spf_pass |-> Sum(SaidRecords, Spf)]
  BY <1>2, <1>3, TotalsAre
<1>7. \A H \in {AllRecords, Pass, Dkim, Spf} : \A p \in StoredRecords : p \in H <=> Bare[p] \in H
  BY <1>4
<1>8. \A H \in {AllRecords, Pass, Dkim, Spf} :
        /\ Sum(StoredRecords, H) \in Nat /\ Sum(SaidRecords, H) \in Nat
        /\ Sum(StoredRecords, H) <= Sum(SaidRecords, H)
        /\ AllStored => Sum(StoredRecords, H) = Sum(SaidRecords, H)
  <2> HIDE DEF Pass, Dkim, Spf
  <2> QED
    BY <1>7, StoredWeighsNoMore
<1>9. /\ Cardinality(Rows) \in Nat /\ Cardinality(Heard) \in Nat
      /\ Cardinality(Rows) <= Cardinality(Heard)
      /\ AllStored => Cardinality(Rows) = Cardinality(Heard)
  BY RowsAreHeard
<1> HIDE DEF t, s, Pass, Dkim, Spf, Sum, f
<1>10. \A n \in DOMAIN s : t[n] <= s[n]
  BY <1>5, <1>6, <1>8, <1>9
<1>11. AllStored => t = s
  BY <1>5, <1>6, <1>8, <1>9
<1> QED
  BY <1>1, <1>10, <1>11 DEF CountedOnce, AllStored

(* For any reports, workers, mails and bounds: however often and by how many   *)
(* workers at once a report is taken in (recordDmarcReports), the totals of    *)
(* getDeliverability count its records at most once, and exactly once when     *)
(* everything delivered is stored and nothing failed.                          *)
THEOREM ReportsCountOnce == DmarcSpec => []CountedOnce
<1>1. DmarcSpec => []DmarcInvariant
  BY DmarcInvariantInit, DmarcInvariantNext, PTL DEF DmarcSpec
<1> QED
  BY <1>1, CountsOnce, PTL

=============================================================================
