---------------------------- MODULE EapSrpProofs ----------------------------
(***************************************************************************)
(* What EapSrp promises for every value of its constants: a child lets a   *)
(* caller guess a bounded number of times, nobody comes in with the wrong  *)
(* password, the records keep their types, and two ends that have finished *)
(* hold the same key if the network keeps the order of the packets.        *)
(***************************************************************************)
EXTENDS EapSrp, SequenceTheorems, TLAPS

ChildFields == {"state", "tries", "id", "ctx", "authenticated", "pkt",
                "resends", "tx", "rx", "guesses"}

\* What the count of failures relies on: it covers the wrong guesses since the
\* last success, and a child that has used it up is failed for good, so that it
\* hears no response any more.
CountInv ==
  /\ DOMAIN s = ChildFields
  /\ s.tries \in 0 .. RetryMax + 1 /\ s.guesses \in 0 .. s.tries
  /\ s.tries > RetryMax => s.state = FAILED

LEMMA CountInit == Init => CountInv
BY EapAssumption DEF Init, CountInv, NewChild, ChildFields

\* A step that keeps the count and the state keeps CountInv; so does one that
\* fails, and one that succeeds.
LEMMA CountStep == CountInv /\ [Next]_vars => CountInv'
<1> SUFFICES ASSUME CountInv, [Next]_vars PROVE CountInv'
  OBVIOUS
<1> USE EapAssumption DEF CountInv, ChildFields, FAILED, SUCCESS, REAUTH, UNAUTH
<1>same. ASSUME s' = s PROVE CountInv'
  BY <1>same
<1>1. ASSUME NEW i \in DOMAIN toS, Handles(i) PROVE CountInv'
  <2>1. CASE RecvStart(i)
    BY <2>1 DEF RecvStart, Requests
  <2>2. CASE RecvIdentity(i)
    BY <2>2 DEF RecvIdentity, Requests
  <2>3. CASE RecvClientKey(i)
    BY <2>3 DEF RecvClientKey, Requests, Answered
  <2>4. CASE RecvClientValidator(i)
    <3>1. s.tries <= RetryMax
      BY <2>4 DEF RecvClientValidator, Response, Parked
    <3>2. CASE s' = [Answered EXCEPT !.state = FAILED]
      BY <3>2 DEF Answered
    <3>3. CASE Requests([s EXCEPT !.authenticated = TRUE,
                                  !.rx = IF useKey THEN s.ctx ELSE @,
                                  !.tx = IF useKey THEN s.ctx ELSE @],
                        "serverValidator", s.id + 1, s.ctx)
      BY <3>3 DEF Requests
    <3>4. CASE s' = [Answered EXCEPT !.state = FAILED, !.tries = @ + 1,
                                     !.guesses = @ + 1, !.ctx = NoCtx,
                                     !.authenticated = FALSE]
      BY <3>1, <3>4 DEF Answered
    <3> QED
      BY <2>4, <3>2, <3>3, <3>4 DEF RecvClientValidator
  <2>5. CASE RecvSuccess(i)
    BY <2>5 DEF RecvSuccess, Answered
  <2>6. CASE RecvPassRequest(i)
    BY <2>6 DEF RecvPassRequest, Requests
  <2>7. CASE DropAtS(i)
    BY <2>7, <1>same DEF DropAtS
  <2> QED
    BY <1>1, <2>1, <2>2, <2>3, <2>4, <2>5, <2>6, <2>7 DEF Handles
<1>2. ASSUME NEW i \in DOMAIN toC, Answers(i) PROVE CountInv'
  <2>1. s' = s
    BY <1>2 DEF Answers, AtC, RecvIdentityRequest, RecvChallenge, RecvServerKey,
      RecvServerValidator, RecvFailure, RecvPassword, RefusedAtC
  <2> QED
    BY <2>1, <1>same
<1>3. ASSUME NEW i, LoseS(i) \/ LoseC(i) PROVE CountInv'
  BY <1>3, <1>same DEF LoseS, LoseC
<1>4. CASE Resend
  BY <1>4 DEF Resend, RequestIdentity, Requests
<1>5. CASE Reauthenticate
  BY <1>5 DEF Reauthenticate, RequestIdentity, Requests
<1>6. CASE ReauthExpires
  BY <1>6 DEF ReauthExpires
<1>7. CASE Replaced \/ ListenerRestarts
  BY <1>7 DEF Replaced, ListenerRestarts, NewChild
<1>8. CASE ProbeExpires \/ StartTimer \/ RequestTimer \/ RecoversFromFailed
  BY <1>8, <1>same DEF ProbeExpires, StartTimer, RequestTimer,
    RecoversFromFailed, Timer
<1>9. CASE Rebind
  BY <1>9 DEF Rebind, NewChild
<1>10. CASE UNCHANGED vars
  BY <1>10, <1>same DEF vars
<1> QED
  BY <1>1, <1>2, <1>3, <1>4, <1>5, <1>6, <1>7, <1>8, <1>9, <1>10 DEF Next

\* However often START asks for another handshake and however the packets are
\* shuffled, a child hears at most RetryMax + 1 wrong proofs of the password
\* before it succeeds or is replaced.
THEOREM GuessesAreBounded == Spec => []GuessesBounded
<1>1. CountInv => GuessesBounded
  BY EapAssumption DEF CountInv, GuessesBounded
<1> QED
  BY <1>1, CountInit, CountStep, PTL DEF Spec

-----------------------------------------------------------------------------
(* The wrong password.                                                     *)

CallerFields == {"state", "tries", "id", "ctx", "probe", "start", "req",
                 "reqTimes", "reqId", "stamp", "tx", "rx"}

Elements(q) == {q[i] : i \in DOMAIN q}

\* A proof of the wrong password.
Wrong(v) == DOMAIN v = 1 .. 3 /\ v[3] = 0

\* With the wrong password every M1 under way is wrong, and no M2 is under way.
ChannelS == /\ toS \in Seq(Elements(toS))
            /\ \A m \in Elements(toS) : m.kind = "clientValidator" => Wrong(m.val)
ChannelC == /\ toC \in Seq(Elements(toC))
            /\ \A m \in Elements(toC) : m.kind # "serverValidator"

\* The listener's own key is never a wrong one, so that no wrong M1 fits it.
ChildOut  == /\ ~Wrong(s.ctx) /\ s.authenticated = FALSE
             /\ s.state \in {FAILED, UNAUTH}
CallerOut == c.state \in {FAILED, UNAUTH}

PasswordInv ==
  /\ DOMAIN s = ChildFields /\ DOMAIN c = CallerFields
  /\ ~right => ChannelS /\ ChannelC /\ ChildOut /\ CallerOut

LEMMA Covered ==
  ASSUME NEW T, NEW q \in Seq(T)
  PROVE  q \in Seq(Elements(q)) /\ Elements(q) \subseteq T
BY DEF Elements

LEMMA Shrinks ==
  ASSUME NEW T, NEW q \in Seq(T), NEW i \in DOMAIN q
  PROVE  RemoveAt(q, i) \in Seq(T)
<1>1. SubSeq(q, 1, i - 1) \in Seq(T)
  OBVIOUS
<1>2. SubSeq(q, i + 1, Len(q)) \in Seq(T)
  OBVIOUS
<1> QED
  BY <1>1, <1>2, ConcatProperties DEF RemoveAt

\* A packet is taken from the way to the child, and others are put there.
LEMMA TakenS ==
  ASSUME ChannelS, NEW i \in DOMAIN toS, toS' = RemoveAt(toS, i)
  PROVE  ChannelS'
<1>1. toS' \in Seq(Elements(toS))
  BY Shrinks DEF ChannelS
<1> QED
  BY <1>1, Covered DEF ChannelS

LEMMA TakenC ==
  ASSUME ChannelC, NEW i \in DOMAIN toC, toC' = RemoveAt(toC, i)
  PROVE  ChannelC'
<1>1. toC' \in Seq(Elements(toC))
  BY Shrinks DEF ChannelC
<1> QED
  BY <1>1, Covered DEF ChannelC

LEMMA PutS ==
  ASSUME ChannelS, NEW T, NEW r \in Seq(T), toS' = toS \o r,
         \A m \in T : m.kind = "clientValidator" => Wrong(m.val)
  PROVE  ChannelS'
<1> DEFINE U == Elements(toS) \cup T
<1>1. toS \in Seq(U) /\ r \in Seq(U)
  BY DEF ChannelS
<1>2. toS' \in Seq(U)
  BY <1>1, ConcatProperties
<1>3. toS' \in Seq(Elements(toS')) /\ Elements(toS') \subseteq U
  BY <1>2, Covered
<1> QED
  BY <1>3 DEF ChannelS

LEMMA PutC ==
  ASSUME ChannelC, NEW m, toC' = Append(toC, m), m.kind # "serverValidator"
  PROVE  ChannelC'
<1> DEFINE U == Elements(toC) \cup {m}
<1>1. toC \in Seq(U) /\ m \in U
  BY DEF ChannelC
<1>2. toC' \in Seq(U)
  BY <1>1, AppendProperties
<1>3. toC' \in Seq(Elements(toC')) /\ Elements(toC') \subseteq U
  BY <1>2, Covered
<1> QED
  BY <1>3 DEF ChannelC

LEMMA PasswordInit == Init => PasswordInv
<1> SUFFICES ASSUME Init PROVE PasswordInv
  OBVIOUS
<1>1. toS \in Seq({Start}) /\ toC \in Seq({})
  BY DEF Init
<1>2. ChannelS /\ ChannelC
  BY <1>1, Covered DEF ChannelS, ChannelC, Start, Msg
<1> QED
  BY <1>2 DEF Init, PasswordInv, NewChild, ChildFields, CallerFields, ChildOut,
    CallerOut, Wrong, NoCtx

\* What the child does with a packet.
LEMMA HandlesOut ==
  ASSUME PasswordInv, NEW i \in DOMAIN toS, Handles(i), ~right
  PROVE  ChannelS' /\ ChannelC' /\ ChildOut' /\ CallerOut'
<1> USE DEF PasswordInv
<1>1. ChannelS' /\ c' = c /\ i \in DOMAIN toS
  BY TakenS DEF Handles, RecvStart, RecvIdentity, RecvClientKey,
    RecvClientValidator, RecvSuccess, RecvPassRequest, DropAtS, Response, AtS
<1>2. CallerOut'
  BY <1>1 DEF CallerOut
<1>silent. ASSUME toC' = toC PROVE ChannelC'
  BY <1>silent DEF ChannelC
<1>asks. ASSUME NEW e, NEW kind, NEW id, NEW val, kind # "serverValidator",
                Requests(e, kind, id, val)
         PROVE  ChannelC'
  <2>1. toC' = Append(toC, Msg(kind, id, val))
    BY <1>asks DEF Requests, ToC
  <2> QED
    BY <1>asks, <2>1, PutC DEF Msg
<1> USE DEF ChildFields, ChildOut, Wrong, FAILED, UNAUTH, SUCCESS, REAUTH
<1>3. CASE RecvStart(i)
  <2>1. ChannelC'
    BY <1>3, <1>asks DEF RecvStart
  <2> QED
    BY <1>1, <1>2, <1>3, <2>1 DEF RecvStart, Requests
<1>4. CASE RecvIdentity(i)
  <2>1. ChannelC'
    BY <1>4, <1>asks DEF RecvIdentity
  <2> QED
    BY <1>1, <1>2, <1>4, <2>1 DEF RecvIdentity, Requests, Fresh
<1>5. CASE RecvClientKey(i)
  <2>1. CASE Requests([s EXCEPT !.ctx = <<toS[i].val[1], NewNumber, 1>>],
                      "serverKey", s.id + 1, <<NewNumber>>)
    <3>1. ChannelC'
      BY <2>1, <1>asks
    <3> QED
      BY <1>1, <1>2, <2>1, <3>1 DEF Requests
  <2>2. CASE (s' = Answered \/ s' = [Answered EXCEPT !.state = FAILED]) /\ Silent
    BY <1>1, <1>2, <2>2, <1>silent DEF Answered, Silent
  <2> QED
    BY <1>5, <2>1, <2>2 DEF RecvClientKey
<1>6. CASE RecvClientValidator(i)
  <2>1. ~M1Right(toS[i])
    BY <1>6 DEF RecvClientValidator, Response, AtS, M1Right, ChannelS, Elements
  <2>2. CASE s' = [Answered EXCEPT !.state = FAILED] /\ Silent
    BY <1>1, <1>2, <2>2, <1>silent DEF Answered, Silent
  <2>3. CASE /\ s' = [Answered EXCEPT !.state = FAILED, !.tries = @ + 1,
                                      !.guesses = @ + 1, !.ctx = NoCtx,
                                      !.authenticated = FALSE]
             /\ ToC(Msg("failure", s.id, <<>>))
    <3>1. ChannelC'
      BY <2>3, PutC DEF ToC, Msg
    <3> QED
      BY <1>1, <1>2, <2>3, <3>1 DEF Answered, NoCtx
  <2> QED
    BY <1>6, <2>1, <2>2, <2>3 DEF RecvClientValidator
<1>7. CASE RecvSuccess(i)
  BY <1>1, <1>2, <1>7, <1>silent DEF RecvSuccess, Silent, Answered
<1>8. CASE RecvPassRequest(i)
  <2>1. ChannelC'
    BY <1>8, <1>asks DEF RecvPassRequest
  <2> QED
    BY <1>1, <1>2, <1>8, <2>1 DEF RecvPassRequest, Requests
<1>9. CASE DropAtS(i)
  BY <1>1, <1>2, <1>9, <1>silent DEF DropAtS, Silent
<1> QED
  BY <1>3, <1>4, <1>5, <1>6, <1>7, <1>8, <1>9 DEF Handles

\* What the caller does with one: it proves the wrong password, and without M2
\* it never finishes.
LEMMA AnswersOut ==
  ASSUME PasswordInv, NEW i \in DOMAIN toC, Answers(i), ~right
  PROVE  ChannelS' /\ ChannelC' /\ ChildOut' /\ CallerOut'
<1> USE DEF PasswordInv
<1>1. ChannelC' /\ s' = s
  BY TakenC DEF Answers, RecvIdentityRequest, RecvChallenge, RecvServerKey,
    RecvServerValidator, RecvFailure, RecvPassword, RefusedAtC, AtC
<1>2. ChildOut'
  BY <1>1 DEF ChildOut
<1>3. toC[i].kind # "serverValidator"
  BY DEF ChannelC, Elements
<1>sends. ASSUME NEW m, m.kind = "clientValidator" => Wrong(m.val), Sends(<<m>>)
          PROVE  ChannelS'
  <2> DEFINE T == {m}
             r == <<m>>
  <2>1. r \in Seq(T) /\ ChannelS
    OBVIOUS
  <2>2. toS' = toS \o r
    BY <1>sends DEF Sends
  <2>3. \A x \in T : x.kind = "clientValidator" => Wrong(x.val)
    BY <1>sends
  <2> HIDE DEF PasswordInv, T, r
  <2> QED
    BY <2>1, <2>2, <2>3, PutS
<1>quiet. ASSUME Sends(<<>>) PROVE ChannelS'
  <2> DEFINE T == {}
             r == <<>>
  <2>1. r \in Seq(T) /\ ChannelS
    OBVIOUS
  <2>2. toS' = toS \o r
    BY <1>quiet DEF Sends
  <2>3. \A x \in T : x.kind = "clientValidator" => Wrong(x.val)
    OBVIOUS
  <2> HIDE DEF PasswordInv, T, r
  <2> QED
    BY <2>1, <2>2, <2>3, PutS
<1> USE DEF CallerFields, CallerOut, FAILED, UNAUTH, SUCCESS, REAUTH, Becomes
<1>4. CASE RecvIdentityRequest(i)
  <2>1. ChannelS'
    BY <1>4, <1>sends, <1>quiet DEF RecvIdentityRequest, Msg
  <2> QED
    BY <1>1, <1>2, <1>4, <2>1 DEF RecvIdentityRequest
<1>5. CASE RecvChallenge(i)
  <2>1. ChannelS'
    BY <1>5, <1>sends, <1>quiet DEF RecvChallenge, Msg
  <2> QED
    BY <1>1, <1>2, <1>5, <2>1 DEF RecvChallenge
<1>6. CASE RecvServerKey(i)
  <2> DEFINE key == <<c.ctx[1], toC[i].val[1], 0>>
  <2>1. ChannelS'
    <3>1. CASE Sends(<<>>)
      BY <3>1, <1>quiet
    <3>2. CASE Sends(<<Msg("clientValidator", toC[i].id, key)>>)
      BY <3>2, <1>sends DEF Msg, Wrong
    <3> QED
      BY <1>6, <3>1, <3>2 DEF RecvServerKey
  <2> QED
    BY <1>1, <1>2, <1>6, <2>1 DEF RecvServerKey
<1>7. CASE RecvFailure(i)
  <2>1. ChannelS'
    BY <1>7, <1>sends, <1>quiet DEF RecvFailure, Start, Msg
  <2> DEFINE e == [c EXCEPT !.ctx = NoCtx,
                            !.tries = IF @ < Permanent THEN @ + 1 ELSE @]
  <2>2. DOMAIN e = DOMAIN c /\ e.state = c.state
    OBVIOUS
  <2>3. \/ c' = [c EXCEPT !.start = IF c.state = UNAUTH THEN 0 ELSE -1]
        \/ \E n : c' = [[e EXCEPT !.state = FAILED, !.stamp = TRUE]
                          EXCEPT !.start = n]
        \/ \E n : c' = [[e EXCEPT !.state = IF @ = SUCCESS THEN REAUTH ELSE @]
                          EXCEPT !.start = n]
    BY <1>7 DEF RecvFailure
  <2>4. CallerOut' /\ DOMAIN c' = CallerFields
    <3>1. CASE c' = [c EXCEPT !.start = IF c.state = UNAUTH THEN 0 ELSE -1]
      BY <3>1
    <3> HIDE DEF e
    <3>2. ASSUME NEW n, c' = [[e EXCEPT !.state = FAILED, !.stamp = TRUE]
                              EXCEPT !.start = n]
          PROVE  CallerOut' /\ DOMAIN c' = CallerFields
      BY <2>2, <3>2
    <3>3. ASSUME NEW n, c' = [[e EXCEPT !.state = IF @ = SUCCESS THEN REAUTH
                                                                 ELSE @]
                              EXCEPT !.start = n]
          PROVE  CallerOut' /\ DOMAIN c' = CallerFields
      BY <2>2, <3>3
    <3> QED
      BY <2>3, <3>1, <3>2, <3>3
  <2> QED
    BY <1>1, <1>2, <2>1, <2>4
<1>8. CASE RecvPassword(i) \/ RefusedAtC(i)
  <2>1. ChannelS'
    BY <1>8, <1>quiet DEF RecvPassword, RefusedAtC
  <2> QED
    BY <1>1, <1>2, <1>8, <2>1 DEF RecvPassword, RefusedAtC
<1> QED
  BY <1>3, <1>4, <1>5, <1>6, <1>7, <1>8 DEF Answers, RecvServerValidator, AtC

\* The records keep their fields.
LEMMA FieldsStep ==
  ASSUME PasswordInv, [Next]_vars
  PROVE  DOMAIN s' = ChildFields /\ DOMAIN c' = CallerFields
<1> USE DEF PasswordInv
<1>1. ASSUME NEW i \in DOMAIN toS, Handles(i)
      PROVE  DOMAIN s' = ChildFields /\ c' = c
  BY <1>1 DEF Handles, RecvStart, RecvIdentity, RecvClientKey,
    RecvClientValidator, RecvSuccess, RecvPassRequest, DropAtS, Response, AtS,
    Requests, Answered
<1>2. ASSUME NEW i \in DOMAIN toC, Answers(i)
      PROVE  DOMAIN c' = CallerFields /\ s' = s
  BY <1>2 DEF Answers, RecvIdentityRequest, RecvChallenge, RecvServerKey,
    RecvServerValidator, RecvFailure, RecvPassword, RefusedAtC, AtC, Becomes
<1>3. ASSUME NEW i, LoseS(i) \/ LoseC(i) PROVE s' = s /\ c' = c
  BY <1>3 DEF LoseS, LoseC
<1>4. CASE Resend \/ Reauthenticate \/ ReauthExpires
  BY <1>4 DEF Resend, Reauthenticate, ReauthExpires, RequestIdentity, Requests
<1>5. CASE Replaced \/ ListenerRestarts
  BY <1>5 DEF Replaced, ListenerRestarts, NewChild, ChildFields
<1>6. CASE ProbeExpires \/ StartTimer \/ RequestTimer \/ RecoversFromFailed
  BY <1>6 DEF ProbeExpires, StartTimer, RequestTimer, RecoversFromFailed,
    Restarted, Timer
<1>7. CASE Rebind
  BY <1>7 DEF Rebind, Restarted, NewChild, ChildFields
<1>8. CASE UNCHANGED vars
  BY <1>8 DEF vars
<1> QED
  BY <1>1, <1>2, <1>3, <1>4, <1>5, <1>6, <1>7, <1>8 DEF Next

LEMMA PasswordStep == PasswordInv /\ [Next]_vars => PasswordInv'
<1> SUFFICES ASSUME PasswordInv, [Next]_vars, ~right'
             PROVE  ChannelS' /\ ChannelC' /\ ChildOut' /\ CallerOut'
  BY FieldsStep DEF PasswordInv
<1>1. ~right
  BY DEF Next, vars, config, Handles, RecvStart, RecvIdentity, RecvClientKey,
    RecvClientValidator, RecvSuccess, RecvPassRequest, DropAtS, Response, AtS,
    Answers, RecvIdentityRequest, RecvChallenge, RecvServerKey,
    RecvServerValidator, RecvFailure, RecvPassword, RefusedAtC, AtC,
    LoseS, LoseC, Resend, Reauthenticate, ReauthExpires, Replaced,
    ListenerRestarts, ProbeExpires, StartTimer, RequestTimer,
    RecoversFromFailed, Timer, Rebind
<1>same. ASSUME s' = s, c' = c, toS' = toS, toC' = toC
         PROVE  ChannelS' /\ ChannelC' /\ ChildOut' /\ CallerOut'
  BY <1>1, <1>same DEF PasswordInv, ChannelS, ChannelC, ChildOut, CallerOut
<1>2. ASSUME NEW i \in DOMAIN toS, Handles(i) \/ LoseS(i)
      PROVE  ChannelS' /\ ChannelC' /\ ChildOut' /\ CallerOut'
  <2>1. CASE LoseS(i)
    BY <1>1, <2>1, TakenS DEF LoseS, PasswordInv, ChannelC, ChildOut, CallerOut
  <2> QED
    BY <1>1, <1>2, <2>1, HandlesOut
<1>3. ASSUME NEW i \in DOMAIN toC, Answers(i) \/ LoseC(i)
      PROVE  ChannelS' /\ ChannelC' /\ ChildOut' /\ CallerOut'
  <2>1. CASE LoseC(i)
    BY <1>1, <2>1, TakenC DEF LoseC, PasswordInv, ChannelS, ChildOut, CallerOut
  <2> QED
    BY <1>1, <1>3, <2>1, AnswersOut
<1>4. CASE Resend \/ Reauthenticate \/ ReauthExpires
  <2>1. ChannelC'
    BY <1>1, <1>4, PutC DEF PasswordInv, Resend, Reauthenticate, ReauthExpires,
      RequestIdentity, Requests, ToC, Silent, Msg, ChannelC
  <2>2. ChannelS' /\ CallerOut'
    BY <1>1, <1>4 DEF PasswordInv, Resend, Reauthenticate, ReauthExpires,
      ChannelS, CallerOut
  <2>3. ChildOut'
    <3> USE <1>1 DEF PasswordInv, ChildOut, ChildFields, Wrong, SUCCESS, REAUTH,
      FAILED, UNAUTH
    <3>1. CASE Resend
      BY <3>1 DEF Resend, RequestIdentity, Requests
    <3>2. ~Reauthenticate /\ ~ReauthExpires
      BY DEF Reauthenticate, ReauthExpires
    <3> QED
      BY <1>4, <3>1, <3>2
  <2> QED
    BY <2>1, <2>2, <2>3
<1>5. CASE Replaced \/ ListenerRestarts
  BY <1>1, <1>5 DEF PasswordInv, Replaced, ListenerRestarts, NewChild, ChannelS,
    ChannelC, ChildOut, CallerOut, Wrong, NoCtx
<1>6. CASE ProbeExpires \/ StartTimer \/ RequestTimer \/ RecoversFromFailed
  <2>1. ChannelC' /\ ChildOut'
    BY <1>1, <1>6 DEF PasswordInv, ProbeExpires, StartTimer, RequestTimer,
      RecoversFromFailed, Timer, ChannelC, ChildOut
  <2>2. CallerOut'
    BY <1>1, <1>6 DEF PasswordInv, ProbeExpires, StartTimer, RequestTimer,
      RecoversFromFailed, Restarted, CallerOut, CallerFields, SUCCESS, UNAUTH,
      FAILED
  <2>3. \/ Sends(<<>>) \/ Sends(<<Start>>)
        \/ Sends(<<Msg("passRequest", c.reqId, <<>>)>>)
    BY <1>6 DEF ProbeExpires, StartTimer, RequestTimer, RecoversFromFailed
  <2>4. ASSUME NEW m, m.kind # "clientValidator", Sends(<<m>>) PROVE ChannelS'
    <3> DEFINE T == {m}
               r == <<m>>
    <3>1. r \in Seq(T) /\ toS' = toS \o r
      BY <2>4 DEF Sends
    <3>2. \A x \in T : x.kind = "clientValidator" => Wrong(x.val)
      BY <2>4
    <3>3. ChannelS
      BY <1>1 DEF PasswordInv
    <3> HIDE DEF T, r
    <3> QED
      BY <3>1, <3>2, <3>3, PutS
  <2>5. CASE Sends(<<>>)
    <3>1. toS' = toS
      BY <1>1, <2>5 DEF Sends, PasswordInv, ChannelS
    <3> QED
      BY <1>1, <2>1, <2>2, <3>1 DEF PasswordInv, ChannelS
  <2> QED
    BY <2>1, <2>2, <2>3, <2>4, <2>5 DEF Start, Msg
<1>7. CASE Rebind
  <2>1. toS' \in Seq({Start}) /\ toC' \in Seq({})
    BY <1>7 DEF Rebind
  <2>2. ChannelS' /\ ChannelC'
    BY <2>1, Covered DEF ChannelS, ChannelC, Start, Msg
  <2> QED
    BY <1>1, <1>7, <2>2 DEF Rebind, Restarted, NewChild, PasswordInv, ChildOut,
      CallerOut, CallerFields, Wrong, NoCtx
<1>8. CASE UNCHANGED vars
  BY <1>8, <1>same DEF vars
<1> QED
  BY <1>2, <1>3, <1>4, <1>5, <1>6, <1>7, <1>8 DEF Next

\* Nobody comes in with the wrong password: whatever is lost, late or out of
\* order, neither end of the handshake finishes and the listener believes no
\* proof, for every number of retries, faults and restarts.
THEOREM WrongPasswordStaysOut == Spec => []Authentic
<1>1. PasswordInv => Authentic
  BY DEF PasswordInv, Authentic, ChildOut, CallerOut, FAILED, UNAUTH, SUCCESS
<1> QED
  BY <1>1, PasswordInit, PasswordStep, PTL DEF Spec

-----------------------------------------------------------------------------
(* Types.                                                                  *)

\* A number and a range of identifiers are left that nobody remembers, as the
\* large group and the draw of an identifier have it.
Drawable ==
  /\ \E n \in Numbers :
       \A q \in {c.ctx, c.tx, c.rx, s.ctx, s.tx, s.rx}
                 \cup {m.val : m \in UnderWay} : \A i \in DOMAIN q : q[i] # n
  /\ \E b \in Bases :
       \A i \in {c.id, s.id} \cup {m.id : m \in UnderWay} : i \notin b .. b + 9

\* What is drawn is new.
LEMMA Draws ==
  ASSUME Drawable
  PROVE  /\ NewNumber \in Nat /\ NewId \in Bases /\ NewId \in Nat
         /\ \A i \in {c.id, s.id} \cup {m.id : m \in UnderWay} :
              i \notin NewId .. NewId + 9
<1>1. NewNumber \in Numbers
  BY DEF Drawable, NewNumber
<1>2. NewId \in Bases /\ \A i \in {c.id, s.id} \cup {m.id : m \in UnderWay} :
                           i \notin NewId .. NewId + 9
  BY DEF Drawable, NewId
<1> QED
  BY <1>1, <1>2, EapAssumption

\* A packet with the number that its kind promises.
Sound == {m \in Packet : m.kind \in {"clientKey", "serverKey"} => m.val # <<>>}

\* Everything has its type, the packets carry what is read from them, and the
\* caller's context is never one without a number.
TypesInv ==
  /\ TypeOK /\ CountInv
  /\ toS \in Seq(Sound) /\ toC \in Seq(Sound)
  /\ c.ctx # <<>>

LEMMA TypesInit == Init => TypesInv
<1> SUFFICES ASSUME Init PROVE TypesInv
  OBVIOUS
<1>1. CountInv
  BY CountInit
<1> USE EapAssumption DEF Init, NewChild, UNAUTH, NoCtx, Psk, Unset, RequestMark,
  Permanent
<1>2. <<0>> \in Seq(Int) /\ <<-1>> \in Seq(Int) /\ <<-2>> \in Seq(Int)
  OBVIOUS
<1>3. c \in Caller
  BY <1>2 DEF Caller
<1>4. s \in Child
  BY <1>2 DEF Child
<1>5. Start \in Sound
  BY DEF Start, Msg, Sound, Packet
<1>6. toS \in Seq(Sound) /\ toC \in Seq(Sound)
  BY <1>5
<1>7. toS \in Seq(Packet) /\ toC \in Seq(Packet)
  BY <1>6 DEF Sound
<1> QED
  BY <1>1, <1>3, <1>4, <1>6, <1>7 DEF TypesInv, TypeOK

\* A packet taken from a channel, and one put into it.
LEMMA Carried ==
  ASSUME NEW q \in Seq(Sound)
  PROVE  /\ \A i \in DOMAIN q : q[i] \in Sound /\ RemoveAt(q, i) \in Seq(Sound)
         /\ \A m \in Sound : Append(q, m) \in Seq(Sound)
         /\ \A r \in Seq(Sound) : q \o r \in Seq(Sound)
         /\ q \in Seq(Packet)
<1>1. \A i \in DOMAIN q : q[i] \in Sound /\ RemoveAt(q, i) \in Seq(Sound)
  BY Shrinks
<1>2. \A m \in Sound : Append(q, m) \in Seq(Sound)
  BY AppendProperties
<1>3. \A r \in Seq(Sound) : q \o r \in Seq(Sound)
  BY ConcatProperties
<1>4. q \in Seq(Packet)
  BY DEF Sound
<1> QED
  BY <1>1, <1>2, <1>3, <1>4

\* The end of a step: what is left to show of TypesInv.
LEMMA TypesKept ==
  ASSUME TypesInv, CountInv', right' = right, useKey' = useKey,
         s' \in Child, c' \in Caller, c'.ctx # <<>>,
         toS' \in Seq(Sound), toC' \in Seq(Sound),
         unrepaired' \in BOOLEAN, faults' \in Nat, reauths' \in Nat,
         restarts' \in Nat
  PROVE  TypesInv'
<1>1. toS' \in Seq(Packet) /\ toC' \in Seq(Packet)
  BY Carried
<1> QED
  BY <1>1 DEF TypesInv, TypeOK

\* Faults.
LEMMA FaultTypes ==
  ASSUME TypesInv
  PROVE  /\ Fault => faults' \in Nat
         /\ \A q, i : Takes(q, i) => faults' \in Nat /\ unrepaired' \in BOOLEAN
         /\ \A q : Limited(q) => faults' \in Nat /\ unrepaired' \in BOOLEAN
         /\ NoFault => faults' \in Nat /\ unrepaired' \in BOOLEAN
         /\ Due => faults' \in Nat
<1>1. faults \in Nat /\ unrepaired \in BOOLEAN
  BY DEF TypesInv, TypeOK
<1>2. Fault => faults' \in Nat
  BY <1>1 DEF Fault
<1>3. NoFault => faults' \in Nat /\ unrepaired' \in BOOLEAN
  BY <1>1 DEF NoFault
<1>4. \A q, i : Takes(q, i) => faults' \in Nat /\ unrepaired' \in BOOLEAN
  BY <1>2, <1>3 DEF Takes
<1>5. \A q : Limited(q) => faults' \in Nat /\ unrepaired' \in BOOLEAN
  BY <1>1, <1>2 DEF Limited
<1>6. Due => faults' \in Nat
  BY <1>1, <1>2 DEF Due
<1> QED
  BY <1>2, <1>3, <1>4, <1>5, <1>6

\* The ranges of the counters.
LEMMA Ranges ==
  /\ 0 \in 0 .. ResendMax /\ 0 \in -1 .. ResendMax /\ -1 \in -1 .. ResendMax
  /\ 0 \in 0 .. RetryMax + 1 /\ 0 \in 0 .. Permanent /\ Permanent \in 0 .. Permanent
  /\ \A t \in 0 .. Permanent : t < Permanent => t + 1 \in 0 .. Permanent
  /\ \A t \in 0 .. ResendMax : t < ResendMax => t + 1 \in 0 .. ResendMax
  /\ \A t \in -1 .. ResendMax : t < ResendMax => t + 1 \in -1 .. ResendMax
BY EapAssumption DEF Permanent

\* A child that sends a request.
LEMMA RequestTypes ==
  ASSUME TypesInv, NEW e \in Child, NEW kind, NEW id \in Nat,
         NEW val \in Seq(Int), Requests(e, kind, id, val),
         kind \in {"reqIdentity", "challenge", "serverKey", "serverValidator",
                   "failure", "password"},
         kind = "serverKey" => val # <<>>
  PROVE  s' \in Child /\ toC' \in Seq(Sound)
<1>1. s' \in Child
  BY Ranges DEF Requests, Child
<1>2. Msg(kind, id, val) \in Sound
  BY DEF Msg, Sound, Packet
<1> QED
  BY <1>1, <1>2, Carried DEF Requests, ToC, TypesInv

LEMMA HandlesTypes ==
  ASSUME TypesInv, CountInv', Drawable, NEW i \in DOMAIN toS, Handles(i)
  PROVE  TypesInv'
<1>1. /\ TypeOK /\ CountInv /\ s \in Child /\ c \in Caller /\ c.ctx # <<>>
      /\ toS \in Seq(Sound) /\ toC \in Seq(Sound) /\ useKey \in BOOLEAN
      /\ reauths \in Nat /\ restarts \in Nat
  BY DEF TypesInv, TypeOK
<1>2. /\ toS' = RemoveAt(toS, i) /\ c' = c /\ right' = right /\ useKey' = useKey
      /\ reauths' = reauths /\ restarts' = restarts
  BY DEF Handles, RecvStart, RecvIdentity, RecvClientKey, config,
    RecvClientValidator, RecvSuccess, RecvPassRequest, DropAtS, Response, AtS
<1>3. toS' \in Seq(Sound) /\ toS[i] \in Sound
  BY <1>1, <1>2, Carried
<1>4. faults' \in Nat /\ unrepaired' \in BOOLEAN
  BY FaultTypes, <1>1 DEF Handles, RecvStart, RecvIdentity, RecvClientKey, TypeOK,
    RecvClientValidator, RecvSuccess, RecvPassRequest, DropAtS
<1>5. /\ s.id \in Nat /\ s.ctx \in Seq(Int) /\ toS[i].id \in Nat
      /\ toS[i].val \in Seq(Int) /\ <<>> \in Seq(Int)
  BY <1>1, <1>3 DEF Child, Sound, Packet
<1>6. NewNumber \in Nat /\ NewId \in Nat
  BY Draws
<1>answered. Answered \in Child
  BY <1>1, Ranges DEF Answered, Child
<1>7. s' \in Child /\ toC' \in Seq(Sound)
  <2>1. CASE RecvStart(i)
    <3> DEFINE e == [s EXCEPT !.state = IF @ = SUCCESS THEN REAUTH ELSE @]
    <3>1. e \in Child
      BY <1>1 DEF Child, REAUTH
    <3>2. Requests(e, "reqIdentity", NewId, <<>>)
      BY <2>1 DEF RecvStart
    <3> HIDE DEF e
    <3> QED BY <1>5, <1>6, <3>1, <3>2, RequestTypes
  <2>2. CASE RecvIdentity(i)
    <3> DEFINE e == [s EXCEPT !.ctx = Fresh]
    <3>1. e \in Child
      BY <1>1, <1>5 DEF Child, Fresh
    <3>2. Requests(e, "challenge", s.id + 1, <<>>) /\ s.id + 1 \in Nat
      BY <1>5, <2>2 DEF RecvIdentity
    <3> HIDE DEF e
    <3> QED BY <1>5, <3>1, <3>2, RequestTypes
  <2>3. CASE RecvClientKey(i)
    <3>1. toS[i].val # <<>>
      BY <1>3, <2>3 DEF RecvClientKey, Response, AtS, Sound
    <3>2. toS[i].val[1] \in Int
      BY <1>5, <3>1
    <3>3. <<toS[i].val[1], NewNumber, 1>> \in Seq(Int) /\ <<NewNumber>> \in Seq(Int)
          /\ <<NewNumber>> # <<>>
      BY <1>6, <3>2
    <3> DEFINE e == [s EXCEPT !.ctx = <<toS[i].val[1], NewNumber, 1>>]
    <3>4. e \in Child
      BY <1>1, <3>3 DEF Child
    <3>8. s.id + 1 \in Nat
      BY <1>5
    <3>5. [Answered EXCEPT !.state = FAILED] \in Child
      BY <1>answered DEF Child, FAILED
    <3>6. CASE Requests(e, "serverKey", s.id + 1, <<NewNumber>>)
      <4> HIDE DEF e
      <4> QED BY <1>5, <3>3, <3>4, <3>6, <3>8, RequestTypes
    <3>7. CASE s' \in {Answered, [Answered EXCEPT !.state = FAILED]} /\ Silent
      BY <1>1, <1>answered, <3>5, <3>7 DEF Silent
    <3> QED BY <2>3, <3>6, <3>7 DEF RecvClientKey
  <2>4. CASE RecvClientValidator(i)
    <3> DEFINE e == [s EXCEPT !.authenticated = TRUE,
                              !.rx = IF useKey THEN s.ctx ELSE @,
                              !.tx = IF useKey THEN s.ctx ELSE @]
               f == [Answered EXCEPT !.state = FAILED, !.tries = @ + 1,
                                 !.guesses = @ + 1, !.ctx = NoCtx,
                                 !.authenticated = FALSE]
    <3>1. e \in Child
      BY <1>1, <1>5 DEF Child
    <3>2. s.tries <= RetryMax /\ s.tries \in Nat
      BY <1>1, <2>4, EapAssumption DEF CountInv, RecvClientValidator, Response, Parked
    <3>3. f \in Child
      <4>1. Answered.tries = s.tries
        BY <1>1 DEF Answered, Child
      <4>3. Answered.guesses \in Nat
        BY <1>answered DEF Child
      <4>4. Answered.guesses + 1 \in Nat
        BY <4>3
      <4>2. NoCtx \in Seq(Int) /\ Answered.tries + 1 \in 0 .. RetryMax + 1
        BY <3>2, <4>1, EapAssumption DEF NoCtx
      <4> QED BY <1>answered, <4>2, <4>4 DEF Child, FAILED
    <3>4. [Answered EXCEPT !.state = FAILED] \in Child
      BY <1>answered DEF Child, FAILED
    <3>5. CASE Requests(e, "serverValidator", s.id + 1, s.ctx)
      BY <1>5, <3>1, <3>5, RequestTypes
    <3>6. CASE s' = f /\ ToC(Msg("failure", s.id, <<>>))
      <4>1. Msg("failure", s.id, <<>>) \in Sound
        BY <1>5 DEF Msg, Sound, Packet
      <4> QED BY <1>1, <3>3, <3>6, <4>1, Carried DEF ToC
    <3>7. CASE s' = [Answered EXCEPT !.state = FAILED] /\ Silent
      BY <1>1, <3>4, <3>7 DEF Silent
    <3> QED BY <2>4, <3>5, <3>6, <3>7 DEF RecvClientValidator
  <2>5. CASE RecvSuccess(i)
    <3> DEFINE e == [Answered EXCEPT !.state = SUCCESS, !.tries = 0,
                                !.guesses = 0, !.id = @ + 1]
    <3>1. Answered.id + 1 \in Nat /\ 0 \in Nat
      BY <1>answered DEF Child
    <3>2. e \in Child
      BY <1>answered, <3>1, Ranges DEF Child, SUCCESS
    <3> QED BY <1>1, <1>answered, <2>5, <3>2 DEF RecvSuccess, Silent
  <2>6. CASE RecvPassRequest(i)
    BY <1>1, <1>5, <2>6, RequestTypes DEF RecvPassRequest
  <2>7. CASE DropAtS(i)
    BY <1>1, <2>7 DEF DropAtS, Silent
  <2> QED
    BY <2>1, <2>2, <2>3, <2>4, <2>5, <2>6, <2>7 DEF Handles
<1> QED
  BY <1>1, <1>2, <1>3, <1>4, <1>7, TypesKept

LEMMA AnswersTypes ==
  ASSUME TypesInv, CountInv', Drawable, NEW i \in DOMAIN toC, Answers(i)
  PROVE  TypesInv'
<1>1. /\ TypeOK /\ CountInv /\ s \in Child /\ c \in Caller /\ c.ctx # <<>>
      /\ toS \in Seq(Sound) /\ toC \in Seq(Sound) /\ useKey \in BOOLEAN
      /\ right \in BOOLEAN /\ reauths \in Nat /\ restarts \in Nat
  BY DEF TypesInv, TypeOK
<1>2. /\ toC' = RemoveAt(toC, i) /\ s' = s /\ right' = right /\ useKey' = useKey
      /\ reauths' = reauths /\ restarts' = restarts
  BY DEF Answers, RecvIdentityRequest, RecvChallenge, RecvServerKey, config,
    RecvServerValidator, RecvFailure, RecvPassword, RefusedAtC, AtC
<1>3. toC' \in Seq(Sound) /\ toC[i] \in Sound
  BY <1>1, <1>2, Carried
<1>4. faults' \in Nat /\ unrepaired' \in BOOLEAN
  BY FaultTypes DEF Answers, RecvIdentityRequest, RecvChallenge, RecvServerKey,
    RecvServerValidator, RecvFailure, RecvPassword, RefusedAtC
<1>5. /\ c.id \in Nat /\ c.ctx \in Seq(Int) /\ toC[i].id \in Nat /\ c.reqId \in Nat
      /\ toC[i].val \in Seq(Int) /\ <<>> \in Seq(Int) /\ c.reqTimes \in Nat
  BY <1>1, <1>3 DEF Caller, Sound, Packet
<1>6. NewNumber \in Nat
  BY Draws
<1>becomes. ASSUME NEW e \in Caller, Becomes(e) PROVE c' \in Caller /\ c'.ctx = e.ctx
  BY <1>becomes, Ranges DEF Becomes, Caller
<1>sends. ASSUME NEW m \in Sound, Sends(<<m>>) PROVE toS' \in Seq(Sound)
  <2>1. <<m>> \in Seq(Sound)
    OBVIOUS
  <2> QED BY <1>1, <1>sends, <2>1, Carried DEF Sends
<1>quiet. Sends(<<>>) => toS' \in Seq(Sound)
  <2>1. <<>> \in Seq(Sound)
    OBVIOUS
  <2> QED BY <1>1, <2>1, Carried DEF Sends
<1> USE DEF FAILED, UNAUTH, SUCCESS, REAUTH
<1>7. c' \in Caller /\ c'.ctx # <<>> /\ toS' \in Seq(Sound)
  <2>1. CASE RecvIdentityRequest(i)
    <3>1. [c EXCEPT !.probe = TRUE] \in Caller /\ [c EXCEPT !.probe = TRUE].ctx = c.ctx
      BY <1>1 DEF Caller
    <3>2. NoCtx \in Seq(Int) /\ NoCtx # <<>>
      BY DEF NoCtx
    <3>3. [c EXCEPT !.ctx = NoCtx] \in Caller /\ [c EXCEPT !.ctx = NoCtx].ctx = NoCtx
      BY <1>1, <3>2 DEF Caller
    <3>4. Msg("identity", toC[i].id, <<>>) \in Sound
      BY <1>5 DEF Msg, Sound, Packet
    <3> QED
      BY <1>1, <1>becomes, <1>sends, <1>quiet, <2>1, <3>1, <3>2, <3>3, <3>4
        DEF RecvIdentityRequest
  <2>2. CASE RecvChallenge(i)
    <3>1. <<NewNumber>> \in Seq(Int) /\ <<NewNumber>> # <<>>
      BY <1>6
    <3> DEFINE e == [c EXCEPT !.id = toC[i].id, !.ctx = <<NewNumber>>]
               f == [c EXCEPT !.id = toC[i].id]
    <3>2. e \in Caller /\ e.ctx = <<NewNumber>>
      BY <1>1, <1>5, <3>1 DEF Caller
    <3>3. f \in Caller /\ f.ctx = c.ctx
      BY <1>1, <1>5 DEF Caller
    <3>4. Msg("clientKey", toC[i].id, <<NewNumber>>) \in Sound
      BY <1>5, <3>1 DEF Msg, Sound, Packet
    <3>5. \/ Becomes(e) /\ Sends(<<Msg("clientKey", toC[i].id, <<NewNumber>>)>>)
          \/ Becomes(f) /\ Sends(<<>>)
      BY <2>2 DEF RecvChallenge
    <3> HIDE DEF e, f
    <3> QED
      BY <1>1, <1>becomes, <1>sends, <1>quiet, <3>1, <3>2, <3>3, <3>4, <3>5
  <2>3. CASE RecvServerKey(i)
    <3> DEFINE e == [c EXCEPT !.id = toC[i].id]
               key == <<c.ctx[1], toC[i].val[1], IF right THEN 1 ELSE 0>>
               f == [e EXCEPT !.state = FAILED]
               g == [e EXCEPT !.ctx = key, !.tx = IF useKey THEN key ELSE @]
    <3>1. toC[i].val # <<>>
      BY <1>3, <2>3 DEF RecvServerKey, AtC, Sound
    <3>2. c.ctx[1] \in Int /\ toC[i].val[1] \in Int
      BY <1>1, <1>5, <3>1
    <3>3. key \in Seq(Int) /\ key # <<>>
      BY <3>2
    <3> HIDE DEF key
    <3>4. f \in Caller /\ f.ctx = c.ctx
      BY <1>1, <1>5 DEF Caller
    <3>5. g \in Caller /\ g.ctx = key
      BY <1>1, <1>5, <3>3 DEF Caller
    <3>6. Msg("clientValidator", toC[i].id, key) \in Sound
      BY <1>5, <3>3 DEF Msg, Sound, Packet
    <3>7. \/ Becomes(f) /\ Sends(<<>>)
          \/ Becomes(g) /\ Sends(<<Msg("clientValidator", toC[i].id, key)>>)
      BY <2>3 DEF RecvServerKey, key
    <3> HIDE DEF f, g
    <3> QED
      BY <1>1, <1>becomes, <1>sends, <1>quiet, <3>3, <3>4, <3>5, <3>6, <3>7
  <2>4. CASE RecvServerValidator(i)
    <3> DEFINE e == [c EXCEPT !.id = toC[i].id]
               f == [e EXCEPT !.state = FAILED]
               g == [e EXCEPT !.state = FAILED, !.tries = Permanent]
               h == [e EXCEPT !.state = SUCCESS, !.tries = 0,
                                !.stamp = FALSE, !.req = TRUE,
                                !.reqTimes = @ + 1, !.reqId = @ + 1,
                                !.rx = IF useKey THEN c.ctx ELSE @]
               m1 == Msg("success", toC[i].id, <<>>)
               m2 == Msg("passRequest", c.reqId + 1, <<>>)
    <3>1. f \in Caller /\ f.ctx = c.ctx
      BY <1>1, <1>5 DEF Caller
    <3>2. g \in Caller /\ g.ctx = c.ctx
      BY <1>1, <1>5, Ranges DEF Caller
    <3>3. h \in Caller /\ h.ctx = c.ctx
      <4>1. c.reqTimes + 1 \in Nat /\ c.reqId + 1 \in Nat
        BY <1>5
      <4> QED BY <1>1, <1>5, <4>1, Ranges DEF Caller
    <3>4. m1 \in Sound /\ m2 \in Sound
      BY <1>5 DEF Msg, Sound, Packet
    <3>5. \/ Becomes(f) /\ Sends(<<>>)
          \/ Becomes(g) /\ Sends(<<>>)
          \/ Becomes(h) /\ Sends(<<m1, m2>>)
      BY <2>4 DEF RecvServerValidator
    <3> HIDE DEF f, g, h, m1, m2
    <3>6. Sends(<<m1, m2>>) => toS' \in Seq(Sound)
      <4>1. <<m1, m2>> \in Seq(Sound)
        BY <3>4
      <4> QED BY <1>1, <4>1, Carried DEF Sends
    <3> QED
      BY <1>1, <1>becomes, <1>quiet, <3>1, <3>2, <3>3, <3>5, <3>6
  <2>5. CASE RecvFailure(i)
    <3> DEFINE e == [c EXCEPT !.ctx = NoCtx,
                        !.tries = IF @ < Permanent THEN @ + 1 ELSE @]
               f == [e EXCEPT !.state = FAILED, !.stamp = TRUE]
               g == [e EXCEPT !.state = IF @ = SUCCESS THEN REAUTH ELSE @]
    <3>1. NoCtx \in Seq(Int) /\ NoCtx # <<>>
      BY DEF NoCtx
    <3>2. e \in Caller /\ e.ctx = NoCtx
      BY <1>1, <3>1, Ranges DEF Caller
    <3>3. Start \in Sound
      BY DEF Start, Msg, Sound, Packet
    <3>4. \/ Becomes(c) /\ Sends(<<>>)
          \/ Becomes(f) /\ Sends(<<>>)
          \/ Becomes(g) /\ Sends(<<Start>>)
      BY <2>5 DEF RecvFailure
    <3> HIDE DEF e
    <3>5. f \in Caller /\ f.ctx = NoCtx
      BY <3>2 DEF Caller
    <3>6. g \in Caller /\ g.ctx = NoCtx
      BY <3>2 DEF Caller
    <3> HIDE DEF f, g
    <3> QED
      BY <1>1, <1>becomes, <1>sends, <1>quiet, <3>1, <3>3, <3>4, <3>5, <3>6
  <2>6. CASE RecvPassword(i) \/ RefusedAtC(i)
    <3> DEFINE e == [c EXCEPT !.rx = Psk, !.req = FALSE]
    <3>1. Psk \in Seq(Int)
      BY DEF Psk
    <3>2. e \in Caller /\ e.ctx = c.ctx
      BY <1>1, <3>1 DEF Caller
    <3>3. Msg("success", toC[i].id, <<>>) \in Sound
      BY <1>5 DEF Msg, Sound, Packet
    <3>4. \/ Becomes(c) /\ Sends(<<>>)
          \/ Becomes(e) /\ Sends(<<Msg("success", toC[i].id, <<>>)>>)
      BY <2>6 DEF RecvPassword, RefusedAtC
    <3> HIDE DEF e
    <3> QED
      BY <1>1, <1>becomes, <1>sends, <1>quiet, <3>2, <3>3, <3>4
  <2> QED
    BY <2>1, <2>2, <2>3, <2>4, <2>5, <2>6 DEF Answers
<1>8. s' \in Child
  BY <1>1, <1>2
<1> QED
  BY <1>1, <1>2, <1>3, <1>4, <1>7, <1>8, TypesKept

\* What nobody's packet causes.
LEMMA TimerTypes ==
  ASSUME TypesInv, CountInv',
         \/ ProbeExpires \/ StartTimer \/ RequestTimer \/ RecoversFromFailed
         \/ Rebind
  PROVE  TypesInv'
<1>1. /\ TypeOK /\ s \in Child /\ c \in Caller /\ c.ctx # <<>>
      /\ toS \in Seq(Sound) /\ toC \in Seq(Sound)
      /\ reauths \in Nat /\ restarts \in Nat /\ unrepaired \in BOOLEAN /\ faults \in Nat
  BY DEF TypesInv, TypeOK
<1> DEFINE fresh == [state |-> UNAUTH, tries |-> 0, id |-> 0, ctx |-> NoCtx,
             authenticated |-> FALSE, pkt |-> FALSE, resends |-> 0,
             tx |-> Psk, rx |-> Unset, guesses |-> 0]
<1>2. Start \in Sound /\ <<Start>> \in Seq(Sound) /\ <<>> \in Seq(Sound)
  BY DEF Start, Msg, Sound, Packet
<1>3. NewChild \in Child
  <2>1. NoCtx \in Seq(Int) /\ Psk \in Seq(Int) /\ Unset \in Seq(Int)
    BY DEF NoCtx, Psk, Unset
  <2> QED BY <2>1, Ranges DEF NewChild, Child, UNAUTH
<1>4. Restarted(c) \in Caller /\ Restarted(c).ctx # <<>>
  <2>1. NoCtx \in Seq(Int) /\ NoCtx # <<>>
    BY DEF NoCtx
  <2> QED BY <1>1, <2>1, Ranges DEF Restarted, Caller, UNAUTH
<1>5. /\ right' = right /\ useKey' = useKey /\ reauths' = reauths
      /\ restarts' \in Nat
  BY <1>1 DEF ProbeExpires, StartTimer, RequestTimer, config,
    RecoversFromFailed, Rebind, Timer
<1>9. unrepaired' \in BOOLEAN /\ faults' \in Nat
  BY <1>1, FaultTypes DEF ProbeExpires, StartTimer, RequestTimer,
    RecoversFromFailed, Rebind
<1>6. s' \in Child /\ toC' \in Seq(Sound)
  BY <1>1, <1>2, <1>3 DEF ProbeExpires, StartTimer, RequestTimer,
    RecoversFromFailed, Rebind, Timer
<1>7. toS' \in Seq(Sound)
  <2>1. Msg("passRequest", c.reqId, <<>>) \in Sound
    BY <1>1 DEF Msg, Sound, Packet, Caller
  <2>2. <<Msg("passRequest", c.reqId, <<>>)>> \in Seq(Sound)
    BY <2>1
  <2> QED
    BY <1>1, <1>2, <2>2, Carried DEF ProbeExpires, StartTimer, RequestTimer,
      RecoversFromFailed, Rebind, Sends
<1>8. c' \in Caller /\ c'.ctx # <<>>
  <2> USE Ranges DEF UNAUTH
  <2>1. CASE ProbeExpires
    BY <1>4, <2>1 DEF ProbeExpires, Caller
  <2>2. CASE StartTimer
    BY <1>1, <2>2 DEF StartTimer, Caller
  <2>3. CASE RequestTimer
    <3>1. c.reqTimes + 1 \in Nat
      BY <1>1 DEF Caller
    <3> QED BY <1>1, <2>3, <3>1 DEF RequestTimer, Caller
  <2>4. CASE RecoversFromFailed
    BY <1>1, <2>4 DEF RecoversFromFailed, Caller
  <2>5. CASE Rebind
    BY <1>4, <2>5 DEF Rebind, Caller
  <2> QED BY <2>1, <2>2, <2>3, <2>4, <2>5
<1> QED
  BY <1>1, <1>5, <1>6, <1>7, <1>8, <1>9, TypesKept

LEMMA TypesStep ==
  ASSUME TypesInv, Drawable, [Next]_vars
  PROVE  TypesInv'
<1>0. CountInv'
  BY CountStep DEF TypesInv
<1>1. /\ TypeOK /\ s \in Child /\ c \in Caller /\ c.ctx # <<>>
      /\ toS \in Seq(Sound) /\ toC \in Seq(Sound)
      /\ reauths \in Nat /\ restarts \in Nat /\ unrepaired \in BOOLEAN /\ faults \in Nat
  BY DEF TypesInv, TypeOK
<1>2. ASSUME NEW i \in DOMAIN toS, Handles(i) \/ LoseS(i) PROVE TypesInv'
  <2>1. CASE LoseS(i)
    BY <1>0, <1>1, <2>1, Carried, FaultTypes, TypesKept DEF LoseS, config
  <2> QED BY <1>0, <1>2, <2>1, HandlesTypes
<1>3. ASSUME NEW i \in DOMAIN toC, Answers(i) \/ LoseC(i) PROVE TypesInv'
  <2>1. CASE LoseC(i)
    BY <1>0, <1>1, <2>1, Carried, FaultTypes, TypesKept DEF LoseC, config
  <2> QED BY <1>0, <1>3, <2>1, AnswersTypes
<1>4. CASE Resend \/ Reauthenticate \/ ReauthExpires
  <2> USE DEF UNAUTH, SUCCESS, REAUTH
  <2> DEFINE e == [s EXCEPT !.state = REAUTH]
  <2>1. e \in Child
    BY <1>1 DEF Child
  <2>4. NewId \in Nat
    BY Draws
  <2>5. <<>> \in Seq(Int)
    OBVIOUS
  <2>2. s' \in Child /\ toC' \in Seq(Sound)
    <3>1. CASE Resend /\ s.pkt
      BY <1>1, <3>1, Ranges DEF Resend, Silent, Child
    <3>2. CASE RequestIdentity(s) \/ RequestIdentity(e)
      <4> HIDE DEF e
      <4> QED BY <1>1, <2>1, <2>4, <2>5, <3>2, RequestTypes DEF RequestIdentity
    <3>3. CASE ReauthExpires
      BY <1>1, <3>3 DEF ReauthExpires, Child
    <3> QED BY <1>4, <3>1, <3>2, <3>3 DEF Resend, Reauthenticate
  <2>3. /\ right' = right /\ useKey' = useKey /\ c' = c /\ toS' = toS
        /\ reauths' \in Nat /\ restarts' = restarts /\ unrepaired' = unrepaired
        /\ faults' \in Nat
    BY <1>1, <1>4, FaultTypes DEF Resend, Reauthenticate, ReauthExpires, config
  <2> QED BY <1>0, <1>1, <2>2, <2>3, TypesKept
<1>5. CASE Replaced \/ ListenerRestarts
  <2>1. NoCtx \in Seq(Int) /\ Psk \in Seq(Int) /\ Unset \in Seq(Int)
    BY DEF NoCtx, Psk, Unset
  <2>2. NewChild \in Child
    BY <2>1, Ranges DEF NewChild, Child, UNAUTH
  <2> QED
    BY <1>0, <1>1, <1>5, <2>2, TypesKept DEF Replaced, ListenerRestarts, config
<1>6. CASE \/ ProbeExpires \/ StartTimer \/ RequestTimer \/ RecoversFromFailed
           \/ Rebind
  BY <1>0, <1>6, TimerTypes
<1>7. CASE UNCHANGED vars
  BY <1>0, <1>1, <1>7, TypesKept DEF vars, config
<1> QED
  BY <1>2, <1>3, <1>4, <1>5, <1>6, <1>7 DEF Next

\* The variables of both ends keep their types, whatever arrives and in whatever
\* order: no number is read from a packet or a context that has none.
THEOREM EapTyped == Spec /\ []Drawable => []TypeOK
<1>1. TypesInv /\ Drawable /\ [Next]_vars => TypesInv'
  BY TypesStep
<1>2. TypesInv => TypeOK
  BY DEF TypesInv
<1> QED
  BY <1>1, <1>2, TypesInit, PTL DEF Spec

-----------------------------------------------------------------------------
(* Agreement, on a network that keeps the order.                           *)

\* Next of a network that loses packets and lets none overtake another.
OrderedNext ==
  \/ \E i \in DOMAIN toS : (i = 1 /\ Handles(i)) \/ LoseS(i)
  \/ \E i \in DOMAIN toC : (i = 1 /\ Answers(i)) \/ LoseC(i)
  \/ Resend \/ Reauthenticate \/ ReauthExpires
  \/ Replaced \/ ListenerRestarts
  \/ ProbeExpires \/ StartTimer \/ RequestTimer \/ RecoversFromFailed \/ Rebind

\* The identifiers of a handshake are not those of requests for the passphrase,
\* and not the one a new peer begins with.  The code draws one of 256 and takes
\* no care of that: as with NewId, an unlucky draw is left out.
IdsApart == \A b \in Bases : 0 < b /\ b + 9 < RequestMark

\* The requests of a handshake, those of them that answer the caller, and what
\* the caller sends on them.
RequestKinds == {"reqIdentity", "challenge", "serverKey", "serverValidator"}
LateKinds    == {"challenge", "serverKey", "serverValidator"}
ReplyKinds   == {"identity", "clientKey", "clientValidator"}

\* A packet whose identifier is in the range of its kind.  Proofs are keys.
Proper == {m \in Sound :
  /\ m.kind \in RequestKinds \cup ReplyKinds => m.id \in 1 .. RequestMark - 1
  /\ m.kind = "success" => m.id >= 1
  /\ m.kind \in {"passRequest", "password"} => m.id >= RequestMark
  /\ m.kind \in {"clientValidator", "serverValidator"} => DOMAIN m.val = 1 .. 3}

\* The handshake that began with identifier b goes on: a packet with one of its
\* identifiers is of the kind that has this place in it, and not ahead of s.
Fits(m, b) ==
  m.id \in b .. b + 9 =>
    /\ m.id <= s.id
    /\ m.kind \in {"reqIdentity", "identity"} => m.id = b
    /\ m.kind \in {"challenge", "clientKey"} => m.id = b + 1
    /\ m.kind \in {"serverKey", "clientValidator"} => m.id = b + 2
    /\ m.kind \in {"serverValidator", "success"} => m.id = b + 3
Session(b) ==
  /\ 0 < b /\ b + 9 < RequestMark /\ s.id \in b .. b + 4
  /\ \A m \in Elements(toS) \cup Elements(toC) : Fits(m, b)

IdInv ==
  /\ toS \in Seq(Proper) /\ toC \in Seq(Proper) /\ c.reqId >= RequestMark
  /\ s.id = 0 \/ s.id >= RequestMark \/ \E b \in Nat : Session(b)

\* Behind the last request of s, and behind a proof of the key, nothing of a
\* handshake follows but the request for an identity.
After(q, i) == \A j \in i + 1 .. Len(q) : q[j].kind \notin LateKinds
Marks(m, id) == \/ m.kind \in RequestKinds /\ m.id = id
                \/ m.kind = "serverValidator"
LastOne(q, id) == \A i \in DOMAIN q : Marks(q[i], id) => After(q, i)
\* No reply is under way that s takes for one to request id.
Unheard(id) == \A m \in Elements(toS) : m.kind \in ReplyKinds => m.id # id
\* If s believes a caller, then the one with this key.
Holds(key) == s.authenticated =>
                s.ctx = key /\ (useKey => s.tx = key /\ s.rx = key)

\* Once s has proved the key nothing that is under way changes it, until the
\* caller has left the handshake.
OrderInv ==
  /\ LastOne(toC, s.id)
  /\ \A m \in Elements(toC) : m.kind = "serverValidator" =>
                                Unheard(s.id) /\ Holds(m.val)
  /\ c.state = SUCCESS => /\ \A m \in Elements(toC) : m.kind \notin LateKinds
                          /\ Unheard(s.id) /\ Holds(c.ctx)

\* What each end's own state says of its key.
KeyInv ==
  /\ useKey /\ DOMAIN c.ctx = 1 .. 3 => c.tx = c.ctx
  /\ c.state = SUCCESS => DOMAIN c.ctx = 1 .. 3 /\ (useKey => c.rx = c.ctx)
  /\ s.state = SUCCESS => s.authenticated

AgreeInv == IdInv /\ OrderInv /\ KeyInv

LEMMA AgreeInvSuffices == AgreeInv => Agreement
BY DEF AgreeInv, OrderInv, KeyInv, Holds, Agreement

LEMMA Removed ==
  ASSUME NEW T, NEW q \in Seq(T), NEW i \in DOMAIN q
  PROVE  /\ RemoveAt(q, i) \in Seq(T)
         /\ Len(RemoveAt(q, i)) = Len(q) - 1
         /\ \A j \in 1 .. Len(q) - 1 :
              RemoveAt(q, i)[j] = q[IF j < i THEN j ELSE j + 1]
<1> DEFINE a == SubSeq(q, 1, i - 1)
           b == SubSeq(q, i + 1, Len(q))
<1>1. i \in 1 .. Len(q) /\ Len(q) \in Nat
  OBVIOUS
<1>2. a \in Seq(T) /\ Len(a) = i - 1 /\ \A j \in 1 .. i - 1 : a[j] = q[j]
  BY <1>1
<1>3. b \in Seq(T) /\ Len(b) = Len(q) - i /\ \A j \in 1 .. Len(q) - i : b[j] = q[i + j]
  BY <1>1
<1>4. RemoveAt(q, i) = a \o b
  BY DEF RemoveAt
<1> HIDE DEF a, b
<1>5. a \o b \in Seq(T) /\ Len(a \o b) = Len(q) - 1
  BY <1>1, <1>2, <1>3, ConcatProperties
<1>6. ASSUME NEW j \in 1 .. Len(q) - 1
      PROVE  (a \o b)[j] = q[IF j < i THEN j ELSE j + 1]
  <2>1. CASE j < i
    BY <1>1, <1>2, <1>3, <1>5, <2>1, ConcatProperties
  <2>2. CASE ~(j < i)
    <3>1. j - Len(a) \in 1 .. Len(q) - i /\ i + (j - Len(a)) = j + 1 /\ j > Len(a)
      BY <1>1, <1>2, <2>2
    <3>2. (a \o b)[j] = b[j - Len(a)]
      <4>1. Len(a) \in Nat /\ j \in 1 .. Len(a) + Len(b) /\ ~(j <= Len(a))
        BY <1>1, <1>2, <1>3, <3>1
      <4> QED BY <1>2, <1>3, <4>1, ConcatProperties
    <3> QED BY <1>3, <2>2, <3>1, <3>2
  <2> QED BY <2>1, <2>2
<1> QED BY <1>4, <1>5, <1>6

\* What a lost packet, or one that was taken, leaves behind.
LEMMA OrderRemoved ==
  ASSUME NEW T, NEW q \in Seq(T), NEW i \in DOMAIN q
  PROVE  /\ Elements(RemoveAt(q, i)) \subseteq Elements(q)
         /\ \A id : LastOne(q, id) => LastOne(RemoveAt(q, i), id)
         /\ i = 1 /\ After(q, 1) =>
              \A m \in Elements(RemoveAt(q, i)) : m.kind \notin LateKinds
<1> DEFINE r == RemoveAt(q, i)
           at(j) == IF j < i THEN j ELSE j + 1
<1>1. /\ Len(q) \in Nat /\ DOMAIN q = 1 .. Len(q) /\ i \in 1 .. Len(q)
      /\ r \in Seq(T) /\ Len(r) = Len(q) - 1 /\ DOMAIN r = 1 .. Len(r)
      /\ \A j \in 1 .. Len(r) : r[j] = q[at(j)]
  <2>1. /\ r \in Seq(T) /\ Len(r) = Len(q) - 1
        /\ \A j \in 1 .. Len(q) - 1 : r[j] = q[at(j)]
    BY Removed
  <2> HIDE DEF r, at
  <2> QED BY <2>1
<1> HIDE DEF r
<1>2. \A j \in 1 .. Len(r) : at(j) \in 1 .. Len(q)
  BY <1>1
<1>3. Elements(r) \subseteq Elements(q)
  BY <1>1, <1>2 DEF Elements
<1>4. ASSUME NEW id, LastOne(q, id) PROVE LastOne(r, id)
  <2> SUFFICES ASSUME NEW k \in DOMAIN r, Marks(r[k], id),
                      NEW j \in k + 1 .. Len(r)
               PROVE  r[j].kind \notin LateKinds
    BY DEF LastOne, After
  <2>1. k \in 1 .. Len(r) /\ j \in 1 .. Len(r) /\ k < j
    BY <1>1
  <2>2. at(k) \in 1 .. Len(q) /\ at(j) \in at(k) + 1 .. Len(q)
    BY <1>1, <2>1
  <2>3. After(q, at(k))
    BY <1>1, <1>4, <2>1, <2>2 DEF LastOne
  <2> HIDE DEF at
  <2> QED BY <1>1, <2>1, <2>2, <2>3 DEF After
<1>5. ASSUME i = 1, After(q, 1), NEW m \in Elements(r) PROVE m.kind \notin LateKinds
  <2>1. PICK j \in 1 .. Len(r) : m = r[j]
    BY <1>1 DEF Elements
  <2>2. r[j] = q[j + 1] /\ j + 1 \in 2 .. Len(q)
    BY <1>1, <1>5, <2>1
  <2> QED BY <1>1, <1>5, <2>1, <2>2 DEF After
<1> QED BY <1>3, <1>4, <1>5 DEF r

\* A packet put at the end.
LEMMA OrderAppended ==
  ASSUME NEW T, NEW q \in Seq(T), NEW m
  PROVE  /\ Elements(Append(q, m)) = Elements(q) \cup {m}
         /\ m.kind \notin LateKinds =>
              \A id : LastOne(q, id) => LastOne(Append(q, m), id)
         /\ \A id : (\A p \in Elements(q) : ~Marks(p, id))
                    => LastOne(Append(q, m), id)
<1> DEFINE r == Append(q, m)
<1>1. /\ Len(q) \in Nat /\ DOMAIN q = 1 .. Len(q) /\ Len(r) = Len(q) + 1
      /\ DOMAIN r = 1 .. Len(r)
      /\ r[Len(r)] = m /\ \A j \in 1 .. Len(q) : r[j] = q[j]
  OBVIOUS
<1> HIDE DEF r
<1>2. Elements(r) = Elements(q) \cup {m}
  <2>1. 1 .. Len(r) = (1 .. Len(q)) \cup {Len(r)}
    BY <1>1
  <2> QED BY <1>1, <2>1 DEF Elements
<1>3. ASSUME m.kind \notin LateKinds, NEW id, LastOne(q, id) PROVE LastOne(r, id)
  <2> SUFFICES ASSUME NEW k \in DOMAIN r, Marks(r[k], id),
                      NEW j \in k + 1 .. Len(r)
               PROVE  r[j].kind \notin LateKinds
    BY DEF LastOne, After
  <2>1. CASE j = Len(r)
    BY <1>1, <1>3, <2>1
  <2>2. CASE j # Len(r)
    <3>1. k \in 1 .. Len(q) /\ j \in k + 1 .. Len(q) /\ j \in 1 .. Len(q)
      BY <1>1, <2>2
    <3>2. After(q, k)
      BY <1>1, <1>3, <3>1 DEF LastOne
    <3> QED BY <1>1, <3>1, <3>2 DEF After
  <2> QED BY <2>1, <2>2
<1>4. ASSUME NEW id, \A p \in Elements(q) : ~Marks(p, id)
      PROVE  LastOne(r, id)
  <2> SUFFICES ASSUME NEW k \in DOMAIN r, Marks(r[k], id)
               PROVE  After(r, k)
    BY DEF LastOne
  <2>1. k = Len(r)
    <3> SUFFICES ASSUME k # Len(r) PROVE FALSE
      OBVIOUS
    <3>1. k \in 1 .. Len(q) /\ r[k] = q[k]
      BY <1>1
    <3> QED BY <1>1, <1>4, <3>1 DEF Elements
  <2> QED BY <1>1, <2>1 DEF After
<1>5. /\ Elements(r) = Elements(q) \cup {m}
      /\ m.kind \notin LateKinds => \A id : LastOne(q, id) => LastOne(r, id)
      /\ \A id : (\A p \in Elements(q) : ~Marks(p, id)) => LastOne(r, id)
  BY <1>2, <1>3, <1>4
<1> QED BY <1>5 DEF r

\* Packets put at the end of the way to the child.
LEMMA Joins ==
  ASSUME NEW T, NEW q \in Seq(T), NEW r \in Seq(T)
  PROVE  Elements(q \o r) \subseteq Elements(q) \cup Elements(r)
<1> DEFINE t == q \o r
<1>1. /\ Len(q) \in Nat /\ Len(r) \in Nat /\ DOMAIN q = 1 .. Len(q)
      /\ DOMAIN r = 1 .. Len(r) /\ DOMAIN t = 1 .. Len(q) + Len(r)
      /\ \A j \in 1 .. Len(q) + Len(r) :
           t[j] = IF j <= Len(q) THEN q[j] ELSE r[j - Len(q)]
  BY ConcatProperties
<1> HIDE DEF t
<1>2. ASSUME NEW j \in 1 .. Len(q) + Len(r)
      PROVE  t[j] \in Elements(q) \cup Elements(r)
  <2>1. CASE j <= Len(q)
    BY <1>1, <2>1 DEF Elements
  <2>2. CASE ~(j <= Len(q))
    <3>1. j - Len(q) \in 1 .. Len(r)
      BY <1>1, <2>2
    <3> QED BY <1>1, <2>2, <3>1 DEF Elements
  <2> QED BY <2>1, <2>2
<1> QED BY <1>1, <1>2 DEF Elements, t

LEMMA ProperCarried ==
  ASSUME NEW q \in Seq(Proper)
  PROVE  /\ \A i \in DOMAIN q : q[i] \in Proper /\ RemoveAt(q, i) \in Seq(Proper)
         /\ \A m \in Proper : Append(q, m) \in Seq(Proper)
         /\ \A r \in Seq(Proper) : q \o r \in Seq(Proper)
         /\ Elements(q) \subseteq Proper
<1>1. \A i \in DOMAIN q : q[i] \in Proper /\ RemoveAt(q, i) \in Seq(Proper)
  BY Shrinks
<1>2. \A m \in Proper : Append(q, m) \in Seq(Proper)
  BY AppendProperties
<1>3. \A r \in Seq(Proper) : q \o r \in Seq(Proper)
  BY ConcatProperties
<1> QED
  BY <1>1, <1>2, <1>3 DEF Elements

\* No handshake packet under way has this identifier.
Unused(id) ==
  /\ Unheard(id)
  /\ \A m \in Elements(toC) : m.kind \in RequestKinds => m.id # id

\* Identifiers outside the range of handshakes, and the one that comes next.
LEMMA OutsideUnused ==
  ASSUME IdInv, NEW id \in Nat, id = 0 \/ id >= RequestMark
  PROVE  Unused(id)
<1>1. Elements(toS) \subseteq Proper /\ Elements(toC) \subseteq Proper
  BY ProperCarried DEF IdInv
<1> QED
  BY <1>1 DEF Unused, Unheard, Proper, RequestMark

LEMMA NextUnused ==
  ASSUME NEW b \in Nat, Session(b)
  PROVE  s.id \in Nat /\ Unused(s.id + 1)
<1>1. s.id \in b .. b + 4
  BY DEF Session
<1>2. \A m \in Elements(toS) \cup Elements(toC) : m.id # s.id + 1
  <2> SUFFICES ASSUME NEW m \in Elements(toS) \cup Elements(toC), m.id = s.id + 1
               PROVE  FALSE
    OBVIOUS
  <2>1. m.id \in b .. b + 9
    BY <1>1
  <2> QED BY <1>1, <2>1 DEF Session, Fits
<1> QED
  BY <1>1, <1>2 DEF Unused, Unheard

LEMMA DrawnUnused ==
  ASSUME Drawable
  PROVE  /\ Unused(NewId)
         /\ \A m \in Elements(toS) \cup Elements(toC) : m.id \notin NewId .. NewId + 9
<1>1. \A m \in Elements(toS) \cup Elements(toC) : m.id \notin NewId .. NewId + 9
  BY Draws DEF UnderWay, Elements
<1>2. NewId \in NewId .. NewId + 9
  BY Draws
<1> QED
  BY <1>1, <1>2 DEF Unused, Unheard

\* A reply that s takes belongs to the handshake that goes on.
LEMMA Accepted ==
  ASSUME IdInv, NEW i \in DOMAIN toS, toS[i].kind \in ReplyKinds, toS[i].id = s.id
  PROVE  \E b \in Nat : /\ Session(b)
                        /\ toS[i].kind = "identity" => s.id = b
                        /\ toS[i].kind = "clientKey" => s.id = b + 1
                        /\ toS[i].kind = "clientValidator" => s.id = b + 2
<1>1. toS[i] \in Elements(toS) /\ toS[i] \in Proper
  BY ProperCarried DEF Elements, IdInv
<1>2. s.id \in 1 .. RequestMark - 1
  BY <1>1 DEF Proper
<1>3. s.id # 0 /\ ~(s.id >= RequestMark)
  BY <1>2 DEF RequestMark
<1>5. PICK b \in Nat : Session(b)
  BY <1>3 DEF IdInv
<1>4. s.id \in b .. b + 9
  BY <1>5 DEF Session
<1> QED
  BY <1>1, <1>5, <1>4 DEF Session, Fits

\* The handshake goes on: what is new fits in, and s stays where it is or goes
\* on by one.
LEMMA IdKept ==
  ASSUME IdInv, toS' \in Seq(Proper), toC' \in Seq(Proper),
         c'.reqId >= RequestMark, s'.id = s.id, NEW M,
         Elements(toS') \cup Elements(toC')
           \subseteq Elements(toS) \cup Elements(toC) \cup M,
         \A b \in Nat : Session(b) => \A m \in M : Fits(m, b)
  PROVE  IdInv'
<1>1. ASSUME NEW b \in Nat, Session(b) PROVE Session(b)'
  BY <1>1 DEF Session, Fits
<1> QED
  BY <1>1 DEF IdInv

LEMMA IdMoved ==
  ASSUME IdInv, toS' \in Seq(Proper), toC' \in Seq(Proper),
         c'.reqId >= RequestMark, NEW b \in Nat, Session(b), s.id < b + 4,
         s'.id = s.id + 1, NEW M,
         Elements(toS') \cup Elements(toC')
           \subseteq Elements(toS) \cup Elements(toC) \cup M,
         \A m \in M : Fits(m, b)'
  PROVE  IdInv'
<1>1. s.id \in b .. b + 4 /\ s'.id \in b .. b + 4
  BY DEF Session
<1>2. ASSUME NEW m, Fits(m, b) PROVE Fits(m, b)'
  BY <1>1, <1>2 DEF Fits
<1>3. Session(b)'
  BY <1>1, <1>2 DEF Session
<1> QED
  BY <1>3 DEF IdInv

\* A new one begins.
LEMMA IdDrawn ==
  ASSUME IdInv, Drawable, IdsApart, toS' \in Seq(Proper), toC' \in Seq(Proper),
         c'.reqId >= RequestMark, s'.id = NewId, NEW m,
         m.kind = "reqIdentity", m.id = NewId,
         Elements(toS') \cup Elements(toC')
           \subseteq Elements(toS) \cup Elements(toC) \cup {m}
  PROVE  IdInv'
<1> DEFINE b == NewId
<1>1. b \in Nat /\ 0 < b /\ b + 9 < RequestMark
  BY Draws DEF IdsApart
<1>2. \A p \in Elements(toS) \cup Elements(toC) : p.id \notin b .. b + 9
  BY DrawnUnused
<1> HIDE DEF b
<1>3. PICK n \in Nat : n = b
  BY <1>1
<1>4. \A p \in Elements(toS') \cup Elements(toC') :
        p.id \in n .. n + 9 => p = m
  BY <1>2, <1>3
<1>5. s'.id = n /\ m.id = n /\ n \in n .. n + 4
  BY <1>1, <1>3 DEF b
<1>6. Session(n)'
  BY <1>1, <1>3, <1>4, <1>5 DEF Session, Fits
<1> QED
  BY <1>6 DEF IdInv

\* s waits for nothing of a handshake.
LEMMA IdOutside ==
  ASSUME toS' \in Seq(Proper), toC' \in Seq(Proper), c'.reqId >= RequestMark,
         s'.id = 0 \/ s'.id >= RequestMark
  PROVE  IdInv'
BY DEF IdInv

\* The child does not send anything that answers the caller.
LEMMA OrderChild ==
  ASSUME OrderInv, NEW T, toC \in Seq(T), c' = c, useKey' = useKey,
         Elements(toS') \subseteq Elements(toS),
         \/ toC' = toC
         \/ \E m : m.kind \notin LateKinds /\ toC' = Append(toC, m)
         \/ \E i \in DOMAIN toC : toC' = RemoveAt(toC, i),
         s'.id = s.id \/ Unused(s'.id),
         s'.authenticated => /\ s.authenticated /\ s'.ctx = s.ctx
                             /\ s'.tx = s.tx /\ s'.rx = s.rx
  PROVE  OrderInv'
<1>1. LastOne(toC, s'.id)
  BY DEF OrderInv, LastOne, Marks, Unused, Elements
<1> DEFINE Kept(q) == /\ LastOne(q, s'.id)
                      /\ \A m \in Elements(q) : m \in Elements(toC)
                                               \/ m.kind \notin LateKinds
<1>2. Kept(toC')
  <2>1. Kept(toC)
    BY <1>1
  <2>2. ASSUME NEW m, m.kind \notin LateKinds PROVE Kept(Append(toC, m))
    BY <1>1, <2>2, OrderAppended
  <2>3. ASSUME NEW i \in DOMAIN toC PROVE Kept(RemoveAt(toC, i))
    BY <1>1, <2>3, OrderRemoved
  <2> HIDE DEF Kept
  <2> QED BY <2>1, <2>2, <2>3
<1>3. \A m \in Elements(toC') : m \in Elements(toC) \/ m.kind \notin LateKinds
  BY <1>2
<1>4. Unheard(s.id) => Unheard(s.id)'
  BY DEF Unheard, Unused
<1>5. \A key : Holds(key) => Holds(key)'
  BY DEF Holds
<1> QED
  BY <1>2, <1>3, <1>4, <1>5 DEF OrderInv, LateKinds

\* It does, to a reply: then nobody has a proof of the key yet.
LEMMA OrderLate ==
  ASSUME OrderInv, NEW T, toC \in Seq(T), c' = c, useKey' = useKey,
         NEW i \in DOMAIN toS, toS[i].kind \in ReplyKinds, toS[i].id = s.id,
         Elements(toS') \subseteq Elements(toS), Unused(s'.id),
         NEW m, toC' = Append(toC, m),
         m.kind = "serverValidator" =>
           /\ s'.ctx = m.val
           /\ useKey => s'.tx = m.val /\ s'.rx = m.val
  PROVE  OrderInv'
<1>1. ~Unheard(s.id)
  BY DEF Unheard, Elements
<1>2. c'.state # SUCCESS /\ \A p \in Elements(toC) : p.kind # "serverValidator"
  BY <1>1 DEF OrderInv
<1>3. \A p \in Elements(toC) : ~Marks(p, s'.id)
  BY <1>2 DEF Unused, Marks
<1>4. LastOne(toC', s'.id) /\ Elements(toC') = Elements(toC) \cup {m}
  BY <1>3, OrderAppended
<1>5. Unheard(s.id)'
  BY DEF Unheard, Unused
<1> QED
  BY <1>2, <1>4, <1>5 DEF OrderInv, Holds

-----------------------------------------------------------------------------
LEMMA AgreeInit == Init => AgreeInv
<1> SUFFICES ASSUME Init PROVE AgreeInv
  OBVIOUS
<1>1. Start \in Proper
  BY DEF Start, Msg, Proper, Sound, Packet, RequestKinds, ReplyKinds
<1>2. toS \in Seq(Proper) /\ toC \in Seq(Proper) /\ toC = <<>>
  BY <1>1 DEF Init
<1>3. IdInv
  <2>1. c.reqId = RequestMark /\ s.id = 0 /\ RequestMark >= RequestMark
    BY DEF Init, NewChild, RequestMark
  <2> QED BY <1>2, <2>1 DEF IdInv
<1>4. DOMAIN toC = {} /\ Elements(toC) = {}
  BY <1>2 DEF Elements
<1>5. c.state # SUCCESS /\ s.state # SUCCESS /\ DOMAIN c.ctx = 1 .. 1
  BY DEF Init, NewChild, UNAUTH, SUCCESS, NoCtx
<1>6. DOMAIN c.ctx # 1 .. 3
  BY <1>5
<1> QED
  BY <1>3, <1>4, <1>5, <1>6 DEF AgreeInv, OrderInv, KeyInv, LastOne

\* The child stays where it is, or is another one; packets may be lost.
LEMMA Stays ==
  ASSUME AgreeInv, c' = c, useKey' = useKey, toS' \in Seq(Proper),
         Elements(toS') \subseteq Elements(toS),
         toC' = toC \/ \E i \in DOMAIN toC : toC' = RemoveAt(toC, i),
         s'.id = s.id \/ s'.id = 0,
         s'.authenticated => /\ s.authenticated /\ s'.ctx = s.ctx
                             /\ s'.tx = s.tx /\ s'.rx = s.rx,
         s'.state = SUCCESS => s.state = SUCCESS /\ s'.authenticated = s.authenticated
  PROVE  AgreeInv'
<1>1. IdInv /\ OrderInv /\ KeyInv /\ toC \in Seq(Proper)
  BY DEF AgreeInv, IdInv
<1>2. toC' \in Seq(Proper) /\ Elements(toC') \subseteq Elements(toC)
  BY <1>1, ProperCarried, OrderRemoved
<1>3. c'.reqId >= RequestMark
  BY <1>1 DEF IdInv
<1>4. IdInv'
  <2>1. CASE s'.id = s.id
    <3> DEFINE M == {}
    <3>1. /\ Elements(toS') \cup Elements(toC')
               \subseteq Elements(toS) \cup Elements(toC) \cup M
          /\ \A b \in Nat : Session(b) => \A m \in M : Fits(m, b)
      BY <1>2
    <3> HIDE DEF M
    <3> QED BY <1>1, <1>2, <1>3, <2>1, <3>1, IdKept
  <2>2. CASE s'.id = 0
    BY <1>2, <1>3, <2>2, IdOutside
  <2> QED BY <2>1, <2>2
<1>5. s'.id = s.id \/ Unused(s'.id)
  BY <1>1, OutsideUnused
<1>6. OrderInv'
  BY <1>1, <1>5, OrderChild
<1>7. KeyInv'
  BY <1>1 DEF KeyInv
<1> QED
  BY <1>4, <1>6, <1>7 DEF AgreeInv

\* The child asks for an identity: a new handshake.
LEMMA Begins ==
  ASSUME AgreeInv, Drawable, IdsApart, c' = c, useKey' = useKey,
         toS' \in Seq(Proper), Elements(toS') \subseteq Elements(toS),
         NEW e \in Child, Requests(e, "reqIdentity", NewId, <<>>),
         e.authenticated = s.authenticated, e.ctx = s.ctx, e.tx = s.tx,
         e.rx = s.rx, e.state = SUCCESS => s.state = SUCCESS
  PROVE  AgreeInv'
<1>1. IdInv /\ OrderInv /\ KeyInv /\ toC \in Seq(Proper)
  BY DEF AgreeInv, IdInv
<1> DEFINE m == Msg("reqIdentity", NewId, <<>>)
<1>2. /\ s'.id = NewId /\ s'.authenticated = s.authenticated /\ s'.ctx = s.ctx
      /\ s'.tx = s.tx /\ s'.rx = s.rx /\ s'.state = e.state
      /\ toC' = Append(toC, m)
  BY DEF Requests, Child, ToC
<1>3. m \in Proper /\ m.kind = "reqIdentity" /\ m.id = NewId
  <2>3. NewId \in Nat /\ 0 < NewId /\ NewId + 9 < RequestMark
    BY Draws DEF IdsApart
  <2>1. NewId \in 1 .. RequestMark - 1
    BY <2>3 DEF RequestMark
  <2>2. NewId \in Nat /\ <<>> \in Seq(Int)
    BY Draws
  <2> QED
    BY <2>1, <2>2 DEF Msg, Proper, Sound, Packet, RequestKinds, ReplyKinds
<1> HIDE DEF m
<1>4. toC' \in Seq(Proper) /\ Elements(toC') = Elements(toC) \cup {m}
  BY <1>1, <1>2, <1>3, ProperCarried, OrderAppended
<1>5. IdInv'
  <2>1. c'.reqId >= RequestMark
    BY <1>1 DEF IdInv
  <2>2. Elements(toS') \cup Elements(toC')
          \subseteq Elements(toS) \cup Elements(toC) \cup {m}
    BY <1>4
  <2> QED BY <1>1, <1>2, <1>3, <1>4, <2>1, <2>2, IdDrawn
<1>6. OrderInv'
  <2>1. Unused(s'.id)
    BY <1>2, DrawnUnused
  <2>2. m.kind \notin LateKinds
    BY <1>3 DEF LateKinds
  <2> QED BY <1>1, <1>2, <2>1, <2>2, OrderChild
<1>7. KeyInv'
  BY <1>1, <1>2 DEF KeyInv
<1> QED
  BY <1>5, <1>6, <1>7 DEF AgreeInv

\* The child answers a reply with the next request of the handshake.
LEMMA GoesOn ==
  ASSUME AgreeInv, c' = c, useKey' = useKey, NEW i \in DOMAIN toS,
         toS' = RemoveAt(toS, i), toS[i].kind \in ReplyKinds, toS[i].id = s.id,
         NEW e \in Child, NEW kind, NEW val, Requests(e, kind, s.id + 1, val),
         \/ toS[i].kind = "identity" /\ kind = "challenge"
         \/ toS[i].kind = "clientKey" /\ kind = "serverKey"
         \/ toS[i].kind = "clientValidator" /\ kind = "serverValidator",
         val \in Seq(Int), kind = "serverKey" => val # <<>>,
         kind = "serverValidator" => /\ DOMAIN val = 1 .. 3 /\ e.ctx = val
                                     /\ useKey => e.tx = val /\ e.rx = val,
         e.state = SUCCESS => s.state = SUCCESS,
         s.authenticated => e.authenticated
  PROVE  AgreeInv'
<1>1. IdInv /\ OrderInv /\ KeyInv /\ toC \in Seq(Proper) /\ toS \in Seq(Proper)
  BY DEF AgreeInv, IdInv
<1> DEFINE m == Msg(kind, s.id + 1, val)
<1>2. /\ s'.id = s.id + 1 /\ s'.authenticated = e.authenticated /\ s'.ctx = e.ctx
      /\ s'.tx = e.tx /\ s'.rx = e.rx /\ s'.state = e.state
      /\ toC' = Append(toC, m)
  BY DEF Requests, Child, ToC
<1>3. PICK b \in Nat : /\ Session(b)
                       /\ toS[i].kind = "identity" => s.id = b
                       /\ toS[i].kind = "clientKey" => s.id = b + 1
                       /\ toS[i].kind = "clientValidator" => s.id = b + 2
  BY <1>1, Accepted
<1>4. /\ m.kind = kind /\ m.id = s.id + 1 /\ m.val = val
      /\ kind \in LateKinds
  BY DEF Msg, LateKinds
<1>5. 0 < b /\ b + 9 < RequestMark /\ s.id \in b .. b + 4 /\ s.id < b + 4
  BY <1>3 DEF Session, ReplyKinds
<1>6. m \in Proper
  <2>3. b \in Nat /\ 0 < b /\ b + 9 < 200 /\ s.id \in b .. b + 4
    BY <1>3, <1>5 DEF RequestMark
  <2>1. s.id + 1 \in 1 .. RequestMark - 1 /\ s.id + 1 \in Nat
    <3>1. \A x \in b .. b + 4 : x + 1 \in 1 .. 199 /\ x + 1 \in Nat
      BY <2>3
    <3>2. s.id + 1 \in 1 .. 199 /\ s.id + 1 \in Nat
      BY <2>3, <3>1
    <3>3. RequestMark - 1 = 199
      BY DEF RequestMark
    <3> QED BY <3>2, <3>3
  <2>2. m \in Packet
    BY <2>1, <1>4 DEF Msg, Packet, LateKinds
  <2> HIDE DEF m
  <2> QED BY <1>4, <2>1, <2>2 DEF Proper, Sound, LateKinds, RequestKinds
<1> HIDE DEF m
<1>7. toC' \in Seq(Proper) /\ Elements(toC') = Elements(toC) \cup {m}
  BY <1>1, <1>2, <1>6, ProperCarried, OrderAppended
<1>8. toS' \in Seq(Proper) /\ Elements(toS') \subseteq Elements(toS)
  BY <1>1, ProperCarried, OrderRemoved
<1>9. IdInv'
  <2>1. c'.reqId >= RequestMark
    BY <1>1 DEF IdInv
  <2>2. Elements(toS') \cup Elements(toC')
          \subseteq Elements(toS) \cup Elements(toC) \cup {m}
    BY <1>7, <1>8
  <2>5. PICK n : n = m
    OBVIOUS
  <2>3. Fits(n, b)'
    BY <1>2, <1>3, <1>4, <1>5, <2>5 DEF Fits, LateKinds
  <2> DEFINE M == {n}
  <2>4. /\ Elements(toS') \cup Elements(toC')
              \subseteq Elements(toS) \cup Elements(toC) \cup M
        /\ \A p \in M : Fits(p, b)'
    BY <2>2, <2>3, <2>5
  <2> HIDE DEF M
  <2> QED BY <1>1, <1>2, <1>3, <1>5, <1>7, <1>8, <2>1, <2>4, IdMoved
<1>10. OrderInv'
  <2>1. Unused(s'.id)
    BY <1>2, <1>3, NextUnused
  <2>2. m.kind = "serverValidator" =>
          /\ s'.ctx = m.val /\ (useKey => s'.tx = m.val /\ s'.rx = m.val)
    BY <1>2, <1>4
  <2> QED BY <1>1, <1>2, <1>8, <2>1, <2>2, OrderLate
<1>11. KeyInv'
  BY <1>1, <1>2 DEF KeyInv
<1> QED
  BY <1>9, <1>10, <1>11 DEF AgreeInv

\* What the child does with a packet.
LEMMA AgreeHandles ==
  ASSUME AgreeInv, TypesInv, Drawable, IdsApart, NEW i \in DOMAIN toS, Handles(i)
  PROVE  AgreeInv'
<1>1. /\ IdInv /\ OrderInv /\ KeyInv /\ toC \in Seq(Proper) /\ toS \in Seq(Proper)
      /\ s \in Child /\ c.reqId >= RequestMark
  BY DEF AgreeInv, IdInv, TypesInv, TypeOK
<1>2. /\ toS' = RemoveAt(toS, i) /\ c' = c /\ useKey' = useKey
  BY DEF Handles, RecvStart, RecvIdentity, RecvClientKey, config,
    RecvClientValidator, RecvSuccess, RecvPassRequest, DropAtS, Response, AtS
<1>3. toS[i] \in Proper /\ toS' \in Seq(Proper) /\ Elements(toS') \subseteq Elements(toS)
  BY <1>1, <1>2, ProperCarried, OrderRemoved
<1>4. /\ s.id \in Nat /\ toS[i].id \in Nat /\ toS[i].val \in Seq(Int)
      /\ s.ctx \in Seq(Int)
  BY <1>1, <1>3 DEF Child, Proper, Sound, Packet
<1>5. <<>> \in Seq(Int) /\ NewNumber \in Nat
  BY Draws
<1>6. /\ Answered \in Child /\ Answered.id = s.id /\ Answered.ctx = s.ctx
      /\ Answered.authenticated = s.authenticated /\ Answered.state = s.state
      /\ Answered.tx = s.tx /\ Answered.rx = s.rx
  BY <1>1, Ranges DEF Answered, Child
<1>failed. ASSUME s' = [Answered EXCEPT !.state = FAILED], Silent PROVE AgreeInv'
  <2>1. /\ s'.id = s.id /\ s'.ctx = s.ctx /\ s'.authenticated = s.authenticated
        /\ s'.tx = s.tx /\ s'.rx = s.rx /\ s'.state # SUCCESS
    BY <1>6, <1>failed DEF Child, FAILED, SUCCESS
  <2> QED BY <1>2, <1>3, <1>failed, <2>1, Stays DEF Silent
<1>7. CASE RecvStart(i)
  <2> DEFINE e == [s EXCEPT !.state = IF @ = SUCCESS THEN REAUTH ELSE @]
  <2>1. /\ e \in Child /\ e.authenticated = s.authenticated /\ e.ctx = s.ctx
        /\ e.tx = s.tx /\ e.rx = s.rx /\ e.state # SUCCESS
    <3>1. e \in Child
      BY <1>1 DEF Child, REAUTH
    <3>2. SUCCESS # REAUTH
      BY DEF SUCCESS, REAUTH
    <3> QED BY <1>1, <3>1, <3>2 DEF Child
  <2>2. Requests(e, "reqIdentity", NewId, <<>>)
    BY <1>7 DEF RecvStart
  <2> HIDE DEF e
  <2> QED BY <1>2, <1>3, <2>1, <2>2, Begins
<1>8. CASE RecvIdentity(i)
  <2> DEFINE e == [s EXCEPT !.ctx = Fresh]
  <2>1. /\ e \in Child /\ e.state = s.state /\ e.authenticated = s.authenticated
    <3>1. Fresh \in Seq(Int)
      BY <1>5 DEF Fresh
    <3> QED BY <1>1, <3>1 DEF Child
  <2> DEFINE val == <<>>
  <2>3. val \in Seq(Int)
    BY <1>5
  <2>2. /\ Requests(e, "challenge", s.id + 1, val)
        /\ toS[i].kind = "identity" /\ toS[i].id = s.id
    BY <1>8 DEF RecvIdentity, Response, AtS
  <2> HIDE DEF e, val
  <2> QED BY <1>2, <2>1, <2>2, <2>3, GoesOn DEF ReplyKinds
<1>9. CASE RecvClientKey(i)
  <2> DEFINE e == [s EXCEPT !.ctx = <<toS[i].val[1], NewNumber, 1>>]
             val == <<NewNumber>>
  <2>1. toS[i].kind = "clientKey" /\ toS[i].id = s.id
    BY <1>9 DEF RecvClientKey, Response, AtS
  <2>2. \/ s' = [Answered EXCEPT !.state = FAILED] /\ Silent
        \/ Requests(e, "serverKey", s.id + 1, val)
        \/ s' = Answered /\ Silent
    BY <1>9 DEF RecvClientKey
  <2>3. CASE Requests(e, "serverKey", s.id + 1, val)
    <3>1. toS[i].val[1] \in Int
      BY <1>3, <1>4, <2>1 DEF Proper, Sound
    <3>4. <<toS[i].val[1], NewNumber, 1>> \in Seq(Int)
      BY <1>5, <3>1
    <3>2. e \in Child /\ e.state = s.state /\ e.authenticated = s.authenticated
      BY <1>1, <3>4 DEF Child
    <3>3. val \in Seq(Int) /\ val # <<>>
      BY <1>5
    <3> HIDE DEF e, val
    <3> QED BY <1>2, <2>1, <2>3, <3>2, <3>3, GoesOn DEF ReplyKinds
  <2>4. CASE s' = Answered /\ Silent
    BY <1>2, <1>3, <1>6, <2>4, Stays DEF Silent
  <2> QED BY <1>failed, <2>2, <2>3, <2>4
<1>10. CASE RecvClientValidator(i)
  <2> DEFINE e == [s EXCEPT !.authenticated = TRUE,
                            !.rx = IF useKey THEN s.ctx ELSE @,
                            !.tx = IF useKey THEN s.ctx ELSE @]
             f == [Answered EXCEPT !.state = FAILED, !.tries = @ + 1,
                                   !.guesses = @ + 1, !.ctx = NoCtx,
                                   !.authenticated = FALSE]
             m == Msg("failure", s.id, <<>>)
  <2>1. toS[i].kind = "clientValidator" /\ toS[i].id = s.id
    BY <1>10 DEF RecvClientValidator, Response, AtS
  <2>2. \/ s' = [Answered EXCEPT !.state = FAILED] /\ Silent
        \/ M1Right(toS[i]) /\ Requests(e, "serverValidator", s.id + 1, s.ctx)
        \/ s' = f /\ ToC(m)
    BY <1>10 DEF RecvClientValidator
  <2>3. CASE M1Right(toS[i]) /\ Requests(e, "serverValidator", s.id + 1, s.ctx)
    <3>1. /\ e \in Child /\ e.state = s.state /\ e.authenticated = TRUE
          /\ e.ctx = s.ctx /\ (useKey => e.tx = s.ctx /\ e.rx = s.ctx)
      BY <1>1 DEF Child
    <3>2. DOMAIN s.ctx = 1 .. 3
      BY <1>3, <2>1, <2>3 DEF M1Right, Proper
    <3> DEFINE val == s.ctx
    <3>3. /\ val \in Seq(Int) /\ DOMAIN val = 1 .. 3 /\ e.ctx = val
          /\ (useKey => e.tx = val /\ e.rx = val)
          /\ Requests(e, "serverValidator", s.id + 1, val)
      BY <1>4, <2>3, <3>1, <3>2
    <3> HIDE DEF e, val
    <3> QED BY <1>2, <2>1, <3>1, <3>3, GoesOn DEF ReplyKinds
  <2>4. CASE s' = f /\ ToC(m)
    <3>1. /\ s'.id = s.id /\ s'.authenticated = FALSE /\ s'.state # SUCCESS
      BY <1>6, <2>4 DEF Child, FAILED, SUCCESS
    <3>2. m \in Proper /\ m.kind = "failure" /\ m.id = s.id
      BY <1>4, <1>5 DEF Msg, Proper, Sound, Packet, RequestKinds, ReplyKinds
    <3>3. toC' = Append(toC, m)
      BY <2>4 DEF ToC
    <3> HIDE DEF m, f
    <3>4. toC' \in Seq(Proper) /\ Elements(toC') = Elements(toC) \cup {m}
      BY <1>1, <3>2, <3>3, ProperCarried, OrderAppended
    <3>5. IdInv'
      <4> DEFINE M == {m}
      <4>1. /\ Elements(toS') \cup Elements(toC')
                 \subseteq Elements(toS) \cup Elements(toC) \cup M
            /\ \A b \in Nat : Session(b) => \A p \in M : Fits(p, b)
        BY <1>3, <1>4, <3>2, <3>4 DEF Fits
      <4> HIDE DEF M
      <4> QED BY <1>1, <1>2, <1>3, <3>1, <3>4, <4>1, IdKept
    <3>6. OrderInv'
      <4>1. m.kind \notin LateKinds
        BY <3>2 DEF LateKinds
      <4> QED BY <1>1, <1>2, <1>3, <3>1, <3>3, <4>1, OrderChild
    <3>7. KeyInv'
      BY <1>1, <1>2, <3>1 DEF KeyInv
    <3> QED BY <3>5, <3>6, <3>7 DEF AgreeInv
  <2> QED BY <1>failed, <2>2, <2>3, <2>4
<1>11. CASE RecvSuccess(i)
  <2>1. toS[i].kind = "success" /\ toS[i].id = s.id /\ toC' = toC
    BY <1>11 DEF RecvSuccess, Response, AtS, Silent
  <2>2. s.id >= 1
    BY <1>3, <2>1 DEF Proper
  <2>3. CASE ~s.authenticated
    <3>1. s' = Answered
      BY <1>11, <2>3 DEF RecvSuccess
    <3> QED BY <1>2, <1>3, <1>6, <2>1, <3>1, Stays
  <2>4. CASE s.authenticated
    <3>1. /\ s'.id = s.id + 1 /\ s'.authenticated = s.authenticated
          /\ s'.ctx = s.ctx /\ s'.tx = s.tx /\ s'.rx = s.rx
      BY <1>6, <1>11, <2>4 DEF RecvSuccess, Child
    <3>2. IdInv' /\ Unused(s'.id)
      <4>1. CASE s.id >= RequestMark
        <5>1. s'.id \in Nat /\ s'.id >= RequestMark
          BY <1>4, <3>1, <4>1 DEF RequestMark
        <5> QED BY <1>1, <1>2, <1>3, <2>1, <5>1, OutsideUnused, IdOutside
      <4>2. CASE \E b \in Nat : Session(b)
        <5>1. PICK b \in Nat : Session(b)
          BY <4>2
        <5>2. toS[i] \in Elements(toS) /\ s.id \in b .. b + 4
          BY <5>1 DEF Elements, Session
        <5>3. s.id = b + 3 /\ s.id < b + 4
          BY <2>1, <5>1, <5>2 DEF Session, Fits
        <5> DEFINE M == {}
        <5>4. /\ Elements(toS') \cup Elements(toC')
                   \subseteq Elements(toS) \cup Elements(toC) \cup M
              /\ \A p \in M : Fits(p, b)'
          BY <1>3, <2>1
        <5> HIDE DEF M
        <5> QED
          BY <1>1, <1>2, <1>3, <2>1, <3>1, <5>1, <5>3, <5>4, IdMoved, NextUnused
      <4>3. s.id # 0
        BY <2>2
      <4> QED BY <1>1, <4>1, <4>2, <4>3 DEF IdInv
    <3>3. OrderInv'
      BY <1>1, <1>2, <1>3, <2>1, <3>1, <3>2, OrderChild
    <3>4. KeyInv'
      BY <1>1, <1>2, <2>4, <3>1 DEF KeyInv
    <3> QED BY <3>2, <3>3, <3>4 DEF AgreeInv
  <2> QED BY <2>3, <2>4
<1>12. CASE RecvPassRequest(i)
  <2>1. /\ toS[i].kind = "passRequest"
        /\ \/ s.state = SUCCESS /\ Requests(s, "password", toS[i].id, s.ctx)
           \/ Requests(s, "failure", toS[i].id, <<>>)
    BY <1>12 DEF RecvPassRequest, AtS
  <2>2. PICK kind \in {"password", "failure"}, val \in Seq(Int) :
          Requests(s, kind, toS[i].id, val)
    BY <1>4, <1>5, <2>1
  <2> DEFINE m == Msg(kind, toS[i].id, val)
  <2>3. /\ s'.id = toS[i].id /\ s'.authenticated = s.authenticated
        /\ s'.ctx = s.ctx /\ s'.tx = s.tx /\ s'.rx = s.rx /\ s'.state = s.state
        /\ toC' = Append(toC, m)
    BY <1>1, <2>2 DEF Requests, ToC, Child
  <2>4. toS[i].id >= RequestMark
    BY <1>3, <2>1 DEF Proper
  <2>5. m \in Proper /\ m.kind \notin LateKinds
    BY <1>4, <2>2, <2>4 DEF Msg, Proper, Sound, Packet, RequestKinds, ReplyKinds, LateKinds
  <2> HIDE DEF m
  <2>6. toC' \in Seq(Proper)
    BY <1>1, <2>3, <2>5, ProperCarried
  <2>7. IdInv'
    BY <1>1, <1>2, <1>3, <2>3, <2>4, <2>6, IdOutside
  <2>8. Unused(s'.id)
    BY <1>1, <1>4, <2>3, <2>4, OutsideUnused
  <2>9. OrderInv'
    BY <1>1, <1>2, <1>3, <2>3, <2>5, <2>8, OrderChild
  <2>10. KeyInv'
    BY <1>1, <1>2, <2>3 DEF KeyInv
  <2> QED BY <2>7, <2>9, <2>10 DEF AgreeInv
<1>13. CASE DropAtS(i)
  <2>1. s' = s /\ toC' = toC
    BY <1>13 DEF DropAtS, Silent
  <2> QED BY <1>2, <1>3, <2>1, Stays
<1> QED
  BY <1>7, <1>8, <1>9, <1>10, <1>11, <1>12, <1>13 DEF Handles

-----------------------------------------------------------------------------
\* What the caller does: packets that leave and packets that are put behind the
\* others.
LEMMA Talks ==
  ASSUME IdInv, toC' = toC \/ \E i \in DOMAIN toC : toC' = RemoveAt(toC, i),
         NEW M, M \subseteq Proper, NEW r \in Seq(M), Sends(r)
  PROVE  /\ toS' \in Seq(Proper) /\ toC' \in Seq(Proper)
         /\ Elements(toS') \subseteq Elements(toS) \cup M
         /\ Elements(toC') \subseteq Elements(toC)
<1>1. toS \in Seq(Proper) /\ toC \in Seq(Proper) /\ r \in Seq(Proper)
  BY DEF IdInv
<1>2. Elements(r) \subseteq M
  BY DEF Elements
<1>3. toS' = toS \o r
  BY DEF Sends
<1>4. toS' \in Seq(Proper) /\ Elements(toS') \subseteq Elements(toS) \cup Elements(r)
  BY <1>1, <1>3, ProperCarried, Joins
<1>5. toC' \in Seq(Proper) /\ Elements(toC') \subseteq Elements(toC)
  BY <1>1, ProperCarried, OrderRemoved
<1> QED
  BY <1>2, <1>4, <1>5

\* The caller says nothing that s takes for a reply, and finishes no handshake.
LEMMA Mentions ==
  ASSUME AgreeInv, s' = s, useKey' = useKey, c'.reqId >= RequestMark,
         toC' = toC \/ \E i \in DOMAIN toC : toC' = RemoveAt(toC, i),
         NEW M, M \subseteq Proper, NEW r \in Seq(M), Sends(r),
         \A m \in M : /\ m.kind \notin ReplyKinds
                      /\ \A b \in Nat : Session(b) => Fits(m, b),
         c'.state = SUCCESS => c.state = SUCCESS /\ c'.ctx = c.ctx, KeyInv'
  PROVE  AgreeInv'
<1>1. IdInv /\ OrderInv /\ toC \in Seq(Proper)
  BY DEF AgreeInv, IdInv
<1>2. /\ toS' \in Seq(Proper) /\ toC' \in Seq(Proper)
      /\ Elements(toS') \subseteq Elements(toS) \cup M
      /\ Elements(toC') \subseteq Elements(toC)
  BY <1>1, Talks
<1>3. IdInv'
  BY <1>1, <1>2, IdKept
<1>4. LastOne(toC', s.id)
  <2>1. LastOne(toC, s.id)
    BY <1>1 DEF OrderInv
  <2> QED BY <1>1, <2>1, OrderRemoved
<1>5. Unheard(s.id) => Unheard(s.id)'
  BY <1>2 DEF Unheard
<1>6. \A key : Holds(key) => Holds(key)'
  BY DEF Holds
<1>7. OrderInv'
  BY <1>1, <1>2, <1>4, <1>5, <1>6 DEF OrderInv
<1> QED
  BY <1>3, <1>7 DEF AgreeInv

\* It replies to a request: then no proof of the key can be behind the request.
LEMMA Replies ==
  ASSUME AgreeInv, s' = s, useKey' = useKey, c'.reqId >= RequestMark,
         1 \in DOMAIN toC, toC' = RemoveAt(toC, 1),
         NEW m \in Proper, Sends(<<m>>), m.id = toC[1].id,
         \/ toC[1].kind = "reqIdentity" /\ m.kind = "identity"
         \/ toC[1].kind = "challenge" /\ m.kind = "clientKey"
         \/ toC[1].kind = "serverKey" /\ m.kind = "clientValidator",
         c'.state # SUCCESS, KeyInv'
  PROVE  AgreeInv'
<1>1. IdInv /\ OrderInv /\ toC \in Seq(Proper)
  BY DEF AgreeInv, IdInv
<1> DEFINE M == {m}
           r == <<m>>
<1>2. M \subseteq Proper /\ r \in Seq(M) /\ Sends(r)
  OBVIOUS
<1>3. toC[1] \in Elements(toC)
  BY DEF Elements
<1>4. \A p \in M : \A b \in Nat : Session(b) => Fits(p, b)
  BY <1>3 DEF Session, Fits
<1>5. \A p \in M : p.id = toC[1].id
  OBVIOUS
<1> HIDE DEF M, r
<1>6. toC' = toC \/ \E i \in DOMAIN toC : toC' = RemoveAt(toC, i)
  OBVIOUS
<1>7. /\ toS' \in Seq(Proper) /\ toC' \in Seq(Proper)
      /\ Elements(toS') \subseteq Elements(toS) \cup M
      /\ Elements(toC') \subseteq Elements(toC)
  BY <1>1, <1>2, <1>6, Talks
<1>8. IdInv'
  BY <1>1, <1>4, <1>7, IdKept
<1>9. LastOne(toC, s.id) /\ LastOne(toC', s.id)
  BY <1>1, OrderRemoved DEF OrderInv
<1>10. ASSUME NEW p \in Elements(toC'), p.kind = "serverValidator"
       PROVE  Unheard(s.id)' /\ Holds(p.val)'
  <2>1. Unheard(s.id) /\ Holds(p.val)
    BY <1>1, <1>7, <1>10 DEF OrderInv
  <2>2. toC[1].id # s.id
    <3> SUFFICES ASSUME toC[1].id = s.id PROVE FALSE
      OBVIOUS
    <3>1. Marks(toC[1], s.id)
      BY DEF Marks, RequestKinds
    <3>2. After(toC, 1)
      BY <1>9, <3>1 DEF LastOne
    <3>3. p.kind \notin LateKinds
      BY <1>1, <3>2, OrderRemoved
    <3> QED BY <1>10, <3>3 DEF LateKinds
  <2>3. Unheard(s.id)'
    BY <1>5, <1>7, <2>1, <2>2 DEF Unheard
  <2> QED BY <2>1, <2>3 DEF Holds
<1>11. OrderInv'
  BY <1>9, <1>10 DEF OrderInv
<1> QED
  BY <1>8, <1>11 DEF AgreeInv

\* It finishes: then nothing changes the key of s any more.
LEMMA Finishes ==
  ASSUME AgreeInv, s' = s, useKey' = useKey, c'.reqId >= RequestMark,
         1 \in DOMAIN toC, toC' = RemoveAt(toC, 1),
         toC[1].kind = "serverValidator", toC[1].val = c.ctx, c'.ctx = c.ctx,
         NEW m \in Proper, NEW n \in Proper, Sends(<<m, n>>),
         m.id = toC[1].id, m.kind = "success",
         n.id >= RequestMark, n.kind = "passRequest", KeyInv'
  PROVE  AgreeInv'
<1>1. IdInv /\ OrderInv /\ toC \in Seq(Proper)
  BY DEF AgreeInv, IdInv
<1> DEFINE M == {m, n}
           r == <<m, n>>
<1>2. M \subseteq Proper /\ r \in Seq(M) /\ Sends(r)
  OBVIOUS
<1>3. toC[1] \in Elements(toC)
  BY DEF Elements
<1>4. ASSUME NEW b \in Nat, Session(b) PROVE Fits(m, b) /\ Fits(n, b)
  <2>1. n.id \notin b .. b + 9
    BY <1>4 DEF Session, RequestMark
  <2> QED BY <1>3, <1>4, <2>1 DEF Session, Fits
<1>5. \A p \in M : /\ p.kind \notin ReplyKinds
                   /\ \A b \in Nat : Session(b) => Fits(p, b)
  BY <1>4 DEF ReplyKinds
<1> HIDE DEF M, r
<1>6. toC' = toC \/ \E i \in DOMAIN toC : toC' = RemoveAt(toC, i)
  OBVIOUS
<1>7. /\ toS' \in Seq(Proper) /\ toC' \in Seq(Proper)
      /\ Elements(toS') \subseteq Elements(toS) \cup M
      /\ Elements(toC') \subseteq Elements(toC)
  BY <1>1, <1>2, <1>6, Talks
<1>8. IdInv'
  BY <1>1, <1>5, <1>7, IdKept
<1>9. LastOne(toC, s.id) /\ LastOne(toC', s.id)
  BY <1>1, OrderRemoved DEF OrderInv
<1>10. After(toC, 1)
  BY <1>9 DEF LastOne, Marks
<1>11. \A p \in Elements(toC') : p.kind \notin LateKinds
  BY <1>1, <1>10, OrderRemoved
<1>12. Unheard(s.id) /\ Holds(c.ctx)
  BY <1>1, <1>3 DEF OrderInv
<1>13. Unheard(s.id)'
  BY <1>5, <1>7, <1>12 DEF Unheard
<1>14. Holds(c.ctx)'
  BY <1>12 DEF Holds
<1>15. OrderInv'
  BY <1>9, <1>11, <1>13, <1>14 DEF OrderInv, LateKinds
<1> QED
  BY <1>8, <1>15 DEF AgreeInv

\* What the caller does with the packet in front.
LEMMA AgreeAnswers ==
  ASSUME AgreeInv, TypesInv, Drawable, 1 \in DOMAIN toC, Answers(1)
  PROVE  AgreeInv'
<1>1. /\ IdInv /\ OrderInv /\ KeyInv /\ toC \in Seq(Proper)
      /\ c \in Caller /\ c.reqId >= RequestMark
  BY DEF AgreeInv, IdInv, TypesInv, TypeOK
<1>2. toC' = RemoveAt(toC, 1) /\ s' = s /\ useKey' = useKey
  BY DEF Answers, RecvIdentityRequest, RecvChallenge, RecvServerKey, config,
    RecvServerValidator, RecvFailure, RecvPassword, RefusedAtC, AtC
<1>3. toC[1] \in Proper /\ toC[1] \in Elements(toC)
  BY <1>1, ProperCarried DEF Elements
<1>4. /\ c.id \in Nat /\ toC[1].id \in Nat /\ toC[1].val \in Seq(Int)
      /\ c.ctx \in Seq(Int) /\ c.reqId \in Nat /\ <<>> \in Seq(Int)
  BY <1>1, <1>3 DEF Caller, Proper, Sound, Packet
<1>5. NewNumber \in Nat
  BY Draws
<1>6. NoCtx \in Seq(Int) /\ DOMAIN NoCtx # 1 .. 3
  <2>1. DOMAIN NoCtx = 1 .. 1
    BY DEF NoCtx
  <2> QED BY <2>1 DEF NoCtx
<1>7. toC' = toC \/ \E i \in DOMAIN toC : toC' = RemoveAt(toC, i)
  BY <1>2
<1>8. /\ c.state = SUCCESS => DOMAIN c.ctx = 1 .. 3 /\ (useKey => c.rx = c.ctx)
      /\ useKey /\ DOMAIN c.ctx = 1 .. 3 => c.tx = c.ctx
      /\ s'.state = SUCCESS => s'.authenticated
  BY <1>1, <1>2 DEF KeyInv
\* The caller keeps what KeyInv says of it.
<1>fields. ASSUME NEW e \in Caller, Becomes(e)
           PROVE  /\ c'.state = e.state /\ c'.ctx = e.ctx /\ c'.tx = e.tx
                  /\ c'.rx = e.rx /\ c'.reqId = e.reqId
  BY <1>fields DEF Becomes, Caller
<1>key. ASSUME NEW e \in Caller, Becomes(e), useKey /\ DOMAIN e.ctx = 1 .. 3 => e.tx = e.ctx,
               e.state = SUCCESS => DOMAIN e.ctx = 1 .. 3 /\ (useKey => e.rx = e.ctx)
        PROVE  KeyInv'
  BY <1>2, <1>8, <1>key, <1>fields DEF KeyInv
\* It says nothing, and is not further than it was.
<1>quiet. ASSUME NEW e \in Caller, Becomes(e), Sends(<<>>), e.reqId = c.reqId,
                 useKey /\ DOMAIN e.ctx = 1 .. 3 => e.tx = e.ctx,
                 e.state = SUCCESS => /\ c.state = SUCCESS /\ e.ctx = c.ctx
                                      /\ (useKey => e.rx = c.rx)
          PROVE  AgreeInv'
  <2>1. KeyInv'
    BY <1>8, <1>key, <1>quiet
  <2> DEFINE M == {}
             r == <<>>
  <2>2. /\ M \subseteq Proper /\ r \in Seq(M) /\ Sends(r)
        /\ \A m \in M : /\ m.kind \notin ReplyKinds
                        /\ \A b \in Nat : Session(b) => Fits(m, b)
    BY <1>quiet
  <2> HIDE DEF M, r
  <2>3. c'.reqId >= RequestMark /\ (c'.state = SUCCESS => c.state = SUCCESS /\ c'.ctx = c.ctx)
    BY <1>1, <1>fields, <1>quiet
  <2> QED BY <1>2, <1>7, <2>1, <2>2, <2>3, Mentions
\* It says one thing that is no reply.
<1>says. ASSUME NEW e \in Caller, Becomes(e), NEW m \in Proper, Sends(<<m>>),
                m.kind \notin ReplyKinds, m.id = 0 \/ m.id >= RequestMark,
                e.reqId = c.reqId,
                useKey /\ DOMAIN e.ctx = 1 .. 3 => e.tx = e.ctx,
                e.state = SUCCESS => /\ c.state = SUCCESS /\ e.ctx = c.ctx
                                     /\ (useKey => e.rx = c.rx)
         PROVE  AgreeInv'
  <2>1. KeyInv'
    BY <1>8, <1>key, <1>says
  <2> DEFINE M == {m}
             r == <<m>>
  <2>2. \A b \in Nat : Session(b) => Fits(m, b)
    <3> SUFFICES ASSUME NEW b \in Nat, Session(b) PROVE m.id \notin b .. b + 9
      BY DEF Fits
    <3> QED BY <1>says DEF Session, RequestMark
  <2>3. /\ M \subseteq Proper /\ r \in Seq(M) /\ Sends(r)
        /\ \A p \in M : /\ p.kind \notin ReplyKinds
                        /\ \A b \in Nat : Session(b) => Fits(p, b)
    BY <1>says, <2>2
  <2> HIDE DEF M, r
  <2>4. c'.reqId >= RequestMark /\ (c'.state = SUCCESS => c.state = SUCCESS /\ c'.ctx = c.ctx)
    BY <1>1, <1>fields, <1>says
  <2> QED BY <1>2, <1>7, <2>1, <2>3, <2>4, Mentions
<1> USE DEF FAILED, UNAUTH, SUCCESS, REAUTH
<1>9. CASE RecvIdentityRequest(1)
  <2> DEFINE e == [c EXCEPT !.probe = TRUE]
             f == [c EXCEPT !.ctx = NoCtx]
             m == Msg("identity", toC[1].id, <<>>)
  <2>1. \/ Becomes(e) /\ Sends(<<>>)
        \/ c.state < SUCCESS /\ Becomes(f) /\ Sends(<<m>>)
        \/ Becomes(c) /\ Sends(<<>>)
    BY <1>9 DEF RecvIdentityRequest
  <2>2. e \in Caller /\ e.state = c.state /\ e.ctx = c.ctx /\ e.tx = c.tx
        /\ e.rx = c.rx /\ e.reqId = c.reqId
    BY <1>1 DEF Caller
  <2>3. f \in Caller /\ f.state = c.state /\ f.ctx = NoCtx /\ f.reqId = c.reqId
    BY <1>1, <1>6 DEF Caller
  <2>4. toC[1].kind = "reqIdentity"
    BY <1>9 DEF RecvIdentityRequest, AtC
  <2>5. m \in Proper /\ m.kind = "identity" /\ m.id = toC[1].id
    <3>1. toC[1].id \in 1 .. RequestMark - 1
      BY <1>3, <2>4 DEF Proper, RequestKinds
    <3> QED BY <1>4, <3>1 DEF Msg, Proper, Sound, Packet, RequestKinds, ReplyKinds
  <2> HIDE DEF e, f, m
  <2>6. CASE (Becomes(e) \/ Becomes(c)) /\ Sends(<<>>)
    BY <1>1, <1>8, <1>quiet, <2>2, <2>6
  <2>7. CASE c.state < SUCCESS /\ Becomes(f) /\ Sends(<<m>>)
    <3>1. c'.state # SUCCESS /\ c'.reqId >= RequestMark
      BY <1>1, <1>fields, <2>3, <2>7
    <3>3. f.state # SUCCESS
      BY <1>1, <2>3, <2>7 DEF Caller
    <3>2. KeyInv'
      BY <1>6, <1>key, <2>3, <2>7, <3>3
    <3> QED BY <1>2, <2>4, <2>5, <2>7, <3>1, <3>2, Replies
  <2> QED BY <2>1, <2>6, <2>7
<1>10. CASE RecvChallenge(1)
  <2> DEFINE e == [c EXCEPT !.id = toC[1].id, !.ctx = <<NewNumber>>]
             f == [c EXCEPT !.id = toC[1].id]
             m == Msg("clientKey", toC[1].id, <<NewNumber>>)
  <2>1. (Becomes(e) /\ Sends(<<m>>)) \/ (Becomes(f) /\ Sends(<<>>))
    BY <1>10 DEF RecvChallenge
  <2>2. toC[1].kind = "challenge"
    BY <1>10 DEF RecvChallenge, AtC
  <2>3. c.state # SUCCESS
    BY <1>1, <1>3, <2>2 DEF OrderInv, LateKinds
  <2>4. <<NewNumber>> \in Seq(Int) /\ <<NewNumber>> # <<>> /\ DOMAIN <<NewNumber>> # 1 .. 3
    <3>1. DOMAIN <<NewNumber>> = 1 .. 1
      OBVIOUS
    <3> QED BY <1>5, <3>1
  <2>5. e \in Caller /\ e.state = c.state /\ e.ctx = <<NewNumber>> /\ e.reqId = c.reqId
    BY <1>1, <1>4, <2>4 DEF Caller
  <2>6. f \in Caller /\ f.state = c.state /\ f.ctx = c.ctx /\ f.tx = c.tx
        /\ f.reqId = c.reqId
    BY <1>1, <1>4 DEF Caller
  <2>7. m \in Proper /\ m.kind = "clientKey" /\ m.id = toC[1].id
    <3>1. toC[1].id \in 1 .. RequestMark - 1
      BY <1>3, <2>2 DEF Proper, RequestKinds
    <3> QED BY <1>4, <2>4, <3>1 DEF Msg, Proper, Sound, Packet, RequestKinds, ReplyKinds
  <2> HIDE DEF e, f, m
  <2>8. CASE Becomes(f) /\ Sends(<<>>)
    BY <1>8, <1>quiet, <2>3, <2>6, <2>8
  <2>9. CASE Becomes(e) /\ Sends(<<m>>)
    <3>1. c'.state # SUCCESS /\ c'.reqId >= RequestMark
      BY <1>1, <1>fields, <2>3, <2>5, <2>9
    <3>2. KeyInv'
      BY <1>key, <2>3, <2>4, <2>5, <2>9
    <3> QED BY <1>2, <2>2, <2>7, <2>9, <3>1, <3>2, Replies
  <2> QED BY <2>1, <2>8, <2>9
<1>11. CASE RecvServerKey(1)
  <2> DEFINE key == <<c.ctx[1], toC[1].val[1], IF right THEN 1 ELSE 0>>
             g == [c EXCEPT !.id = toC[1].id]
             e == [g EXCEPT !.ctx = key, !.tx = IF useKey THEN key ELSE @]
             f == [g EXCEPT !.state = FAILED]
             m == Msg("clientValidator", toC[1].id, key)
  <2>1. (Becomes(f) /\ Sends(<<>>)) \/ (Becomes(e) /\ Sends(<<m>>))
    BY <1>11 DEF RecvServerKey
  <2>2. toC[1].kind = "serverKey"
    BY <1>11 DEF RecvServerKey, AtC
  <2>3. c.state # SUCCESS
    BY <1>1, <1>3, <2>2 DEF OrderInv, LateKinds
  <2>4. key \in Seq(Int) /\ DOMAIN key = 1 .. 3
    <3>1. c.ctx # <<>> /\ toC[1].val # <<>>
      BY <1>3, <2>2 DEF TypesInv, Proper, Sound
    <3>2. c.ctx[1] \in Int /\ toC[1].val[1] \in Int
      BY <1>4, <3>1
    <3> QED BY <3>2
  <2> HIDE DEF key
  <2>5. e \in Caller /\ e.state = c.state /\ e.ctx = key /\ e.reqId = c.reqId
        /\ (useKey => e.tx = key)
    BY <1>1, <1>4, <2>4 DEF Caller
  <2>6. f \in Caller /\ f.state = FAILED /\ f.ctx = c.ctx /\ f.tx = c.tx
        /\ f.reqId = c.reqId
    BY <1>1, <1>4 DEF Caller
  <2>7. m \in Proper /\ m.kind = "clientValidator" /\ m.id = toC[1].id
    <3>1. toC[1].id \in 1 .. RequestMark - 1
      BY <1>3, <2>2 DEF Proper, RequestKinds
    <3> QED BY <1>4, <2>4, <3>1 DEF Msg, Proper, Sound, Packet, RequestKinds, ReplyKinds
  <2> HIDE DEF e, f, m
  <2>8. CASE Becomes(f) /\ Sends(<<>>)
    BY <1>8, <1>quiet, <2>6, <2>8
  <2>9. CASE Becomes(e) /\ Sends(<<m>>)
    <3>1. c'.state # SUCCESS /\ c'.reqId >= RequestMark
      BY <1>1, <1>fields, <2>3, <2>5, <2>9
    <3>2. KeyInv'
      BY <1>key, <2>3, <2>5, <2>9
    <3> QED BY <1>2, <2>2, <2>7, <2>9, <3>1, <3>2, Replies
  <2> QED BY <2>1, <2>8, <2>9
<1>12. CASE RecvServerValidator(1)
  <2> DEFINE e == [c EXCEPT !.id = toC[1].id]
             f == [e EXCEPT !.state = FAILED]
             g == [e EXCEPT !.state = FAILED, !.tries = Permanent]
             h == [e EXCEPT !.state = SUCCESS, !.tries = 0,
                            !.stamp = FALSE, !.req = TRUE,
                            !.reqTimes = @ + 1, !.reqId = @ + 1,
                            !.rx = IF useKey THEN c.ctx ELSE @]
             m == Msg("success", toC[1].id, <<>>)
             n == Msg("passRequest", c.reqId + 1, <<>>)
  <2>1. \/ Becomes(f) /\ Sends(<<>>)
        \/ M2Right(toC[1]) /\ Becomes(h) /\ Sends(<<m, n>>)
        \/ Becomes(g) /\ Sends(<<>>)
    BY <1>12 DEF RecvServerValidator
  <2>2. toC[1].kind = "serverValidator"
    BY <1>12 DEF RecvServerValidator, AtC
  <2>3. f \in Caller /\ f.state = FAILED /\ f.ctx = c.ctx /\ f.tx = c.tx
        /\ f.reqId = c.reqId
    BY <1>1, <1>4 DEF Caller
  <2>4. g \in Caller /\ g.state = FAILED /\ g.ctx = c.ctx /\ g.tx = c.tx
        /\ g.reqId = c.reqId
    BY <1>1, <1>4, Ranges DEF Caller
  <2>5. h \in Caller /\ h.state = SUCCESS /\ h.ctx = c.ctx /\ h.tx = c.tx
        /\ h.reqId = c.reqId + 1 /\ (useKey => h.rx = c.ctx)
    <3>1. c.reqTimes + 1 \in Nat /\ c.reqId + 1 \in Nat
      BY <1>1 DEF Caller
    <3> QED BY <1>1, <1>4, <3>1, Ranges DEF Caller
  <2>6. /\ m \in Proper /\ m.kind = "success" /\ m.id = toC[1].id
        /\ n \in Proper /\ n.kind = "passRequest" /\ n.id >= RequestMark
    <3>1. toC[1].id >= 1
      BY <1>3, <2>2 DEF Proper, RequestKinds
    <3>2. c.reqId + 1 >= RequestMark /\ c.reqId + 1 \in Nat
      BY <1>1, <1>4 DEF RequestMark
    <3> QED BY <1>4, <3>1, <3>2 DEF Msg, Proper, Sound, Packet, RequestKinds, ReplyKinds
  <2> HIDE DEF f, g, h, m, n
  <2>7. CASE (Becomes(f) \/ Becomes(g)) /\ Sends(<<>>)
    BY <1>8, <1>quiet, <2>3, <2>4, <2>7
  <2>8. CASE M2Right(toC[1]) /\ Becomes(h) /\ Sends(<<m, n>>)
    <3>1. toC[1].val = c.ctx /\ DOMAIN c.ctx = 1 .. 3
      BY <1>3, <2>2, <2>8 DEF M2Right, Proper
    <3>2. KeyInv'
      BY <1>8, <1>key, <2>5, <2>8, <3>1
    <3>3. c'.ctx = c.ctx /\ c'.reqId >= RequestMark
      BY <1>1, <1>4, <1>fields, <2>5, <2>8 DEF RequestMark
    <3> QED BY <1>2, <2>2, <2>6, <2>8, <3>1, <3>2, <3>3, Finishes
  <2> QED BY <2>1, <2>7, <2>8
<1>13. CASE RecvFailure(1)
  <2> DEFINE e == [c EXCEPT !.ctx = NoCtx,
                        !.tries = IF @ < Permanent THEN @ + 1 ELSE @]
             f == [e EXCEPT !.state = FAILED, !.stamp = TRUE]
             g == [e EXCEPT !.state = IF @ = SUCCESS THEN REAUTH ELSE @]
  <2>1. \/ Becomes(c) /\ Sends(<<>>)
        \/ Becomes(f) /\ Sends(<<>>)
        \/ Becomes(g) /\ Sends(<<Start>>)
    BY <1>13 DEF RecvFailure
  <2>2. e \in Caller /\ e.ctx = NoCtx /\ e.reqId = c.reqId
    BY <1>1, <1>6, Ranges DEF Caller
  <2> HIDE DEF e
  <2>3. f \in Caller /\ f.ctx = NoCtx /\ f.reqId = c.reqId /\ f.state = FAILED
    BY <2>2 DEF Caller
  <2>4. g \in Caller /\ g.ctx = NoCtx /\ g.reqId = c.reqId /\ g.state # SUCCESS
    <3>1. g \in Caller
      BY <2>2 DEF Caller
    <3> QED BY <2>2, <3>1 DEF Caller
  <2> HIDE DEF f, g
  <2>5. CASE (Becomes(c) \/ Becomes(f)) /\ Sends(<<>>)
    <3>1. f.state # SUCCESS
      BY <2>3
    <3>2. CASE Becomes(f)
      BY <1>6, <1>quiet, <2>3, <2>5, <3>1, <3>2
    <3>3. CASE Becomes(c)
      BY <1>1, <1>8, <1>quiet, <2>5, <3>3
    <3> QED BY <2>5, <3>2, <3>3
  <2>6. CASE Becomes(g) /\ Sends(<<Start>>)
    <3>1. Start \in Proper /\ Start.kind \notin ReplyKinds /\ Start.id = 0
      BY <1>4 DEF Start, Msg, Proper, Sound, Packet, RequestKinds, ReplyKinds
    <3> HIDE DEF Start
    <3> QED BY <1>6, <1>says, <2>4, <2>6, <3>1
  <2> QED BY <2>1, <2>5, <2>6
<1>14. CASE RecvPassword(1) \/ RefusedAtC(1)
  <2> DEFINE e == [c EXCEPT !.rx = Psk, !.req = FALSE]
             m == Msg("success", toC[1].id, <<>>)
  <2>1. \/ Becomes(c) /\ Sends(<<>>)
        \/ /\ toC[1].kind = "password" /\ ~useKey
           /\ Becomes(e) /\ Sends(<<m>>)
    BY <1>14 DEF RecvPassword, RefusedAtC, AtC
  <2>2. e \in Caller /\ e.state = c.state /\ e.ctx = c.ctx /\ e.tx = c.tx
        /\ e.reqId = c.reqId
    <3>1. Psk \in Seq(Int)
      BY DEF Psk
    <3> QED BY <1>1, <3>1 DEF Caller
  <2> HIDE DEF e
  <2>3. CASE Becomes(c) /\ Sends(<<>>)
    BY <1>1, <1>8, <1>quiet, <2>3
  <2>4. CASE toC[1].kind = "password" /\ ~useKey /\ Becomes(e) /\ Sends(<<m>>)
    <3>1. m \in Proper /\ m.kind = "success" /\ m.id >= RequestMark
      <4>1. toC[1].id >= RequestMark /\ toC[1].id >= 1
        BY <1>3, <1>4, <2>4 DEF Proper, RequestMark
      <4> QED BY <1>4, <4>1 DEF Msg, Proper, Sound, Packet, RequestKinds, ReplyKinds
    <3> HIDE DEF m
    <3>2. m.kind \notin ReplyKinds
      BY <3>1 DEF ReplyKinds
    <3> QED BY <1>8, <1>says, <2>2, <2>4, <3>1, <3>2
  <2> QED BY <2>1, <2>3, <2>4
<1> QED
  BY <1>9, <1>10, <1>11, <1>12, <1>13, <1>14 DEF Answers

\* What nobody's packet causes.
LEMMA AgreeTimers ==
  ASSUME AgreeInv, TypesInv,
         ProbeExpires \/ StartTimer \/ RequestTimer \/ RecoversFromFailed \/ Rebind
  PROVE  AgreeInv'
<1>1. /\ IdInv /\ OrderInv /\ KeyInv /\ toC \in Seq(Proper)
      /\ c \in Caller /\ s \in Child /\ c.reqId >= RequestMark /\ c.reqId \in Nat
  BY DEF AgreeInv, IdInv, TypesInv, TypeOK, Caller
<1>2. useKey' = useKey
  BY DEF ProbeExpires, StartTimer, RequestTimer, RecoversFromFailed, Rebind,
    Timer, config
<1>3. NoCtx \in Seq(Int) /\ DOMAIN NoCtx # 1 .. 3
  <2>1. DOMAIN NoCtx = 1 .. 1
    BY DEF NoCtx
  <2> QED BY <2>1 DEF NoCtx
<1>4. Start \in Proper /\ Start.kind = "start" /\ Start.id = 0
  BY DEF Start, Msg, Proper, Sound, Packet, RequestKinds, ReplyKinds
<1> DEFINE ask == Msg("passRequest", c.reqId, <<>>)
<1>5. ask \in Proper /\ ask.kind = "passRequest" /\ ask.id >= RequestMark
  BY <1>1 DEF Msg, Proper, Sound, Packet, RequestKinds, ReplyKinds
<1> HIDE DEF ask, Start
<1> USE DEF UNAUTH, SUCCESS, FAILED
<1>6. CASE Rebind
  <2>1. toC' = <<>> /\ toS' = <<Start>> /\ (s' = s \/ s' = NewChild)
    BY <1>6 DEF Rebind
  <2>2. /\ toS' \in Seq(Proper) /\ toC' \in Seq(Proper) /\ DOMAIN toC' = {}
        /\ Elements(toS') = {Start} /\ Elements(toC') = {}
    BY <1>4, <2>1 DEF Elements
  <2>3. c'.state = UNAUTH /\ c'.ctx = NoCtx /\ c'.reqId = c.reqId
    BY <1>1, <1>6 DEF Rebind, Restarted, Caller
  <2>4. IdInv'
    <3>1. CASE s' = s
      <4> DEFINE M == {Start}
      <4>1. /\ Elements(toS') \cup Elements(toC')
                 \subseteq Elements(toS) \cup Elements(toC) \cup M
            /\ \A b \in Nat : Session(b) => \A m \in M : Fits(m, b)
        BY <1>4, <2>2 DEF Session, Fits
      <4> HIDE DEF M
      <4> QED BY <1>1, <2>2, <2>3, <3>1, <4>1, IdKept
    <3>2. CASE s' = NewChild
      BY <1>1, <2>2, <2>3, <3>2, IdOutside DEF NewChild
    <3> QED BY <2>1, <3>1, <3>2
  <2>5. OrderInv'
    BY <2>2, <2>3 DEF OrderInv, LastOne
  <2>6. KeyInv'
    <3>1. s'.state = SUCCESS => s'.authenticated
      BY <1>1, <2>1 DEF KeyInv, NewChild
    <3> QED BY <1>3, <2>3, <3>1 DEF KeyInv
  <2> QED BY <2>4, <2>5, <2>6 DEF AgreeInv
<1>7. CASE ProbeExpires \/ StartTimer \/ RequestTimer \/ RecoversFromFailed
  <2>1. s' = s /\ toC' = toC
    BY <1>7 DEF ProbeExpires, StartTimer, RequestTimer, RecoversFromFailed, Timer
  <2>2. /\ c'.reqId = c.reqId
        /\ c'.state = SUCCESS => c.state = SUCCESS /\ c'.ctx = c.ctx /\ c'.rx = c.rx
        /\ c'.ctx = NoCtx \/ (c'.ctx = c.ctx /\ c'.tx = c.tx)
    <3>1. CASE ProbeExpires
      BY <1>1, <3>1 DEF ProbeExpires, Restarted, Caller
    <3>2. CASE StartTimer
      BY <1>1, <3>2 DEF StartTimer, Caller
    <3>3. CASE RequestTimer
      BY <1>1, <3>3 DEF RequestTimer, Caller
    <3>4. CASE RecoversFromFailed
      BY <1>1, <3>4 DEF RecoversFromFailed, Caller
    <3> QED BY <1>7, <3>1, <3>2, <3>3, <3>4
  <2>3. KeyInv'
    BY <1>1, <1>2, <1>3, <2>1, <2>2 DEF KeyInv
  <2> DEFINE M == {Start, ask}
  <2>4. \E r \in Seq(M) : Sends(r)
    <3>1. Sends(<<>>) \/ Sends(<<Start>>) \/ Sends(<<ask>>)
      BY <1>7 DEF ProbeExpires, StartTimer, RequestTimer, RecoversFromFailed, ask
    <3>2. <<>> \in Seq(M) /\ <<Start>> \in Seq(M) /\ <<ask>> \in Seq(M)
      OBVIOUS
    <3> HIDE DEF M
    <3> QED BY <3>1, <3>2
  <2>5. M \subseteq Proper
    BY <1>4, <1>5
  <2>6. \A m \in M : m.kind \notin ReplyKinds
    BY <1>4, <1>5 DEF ReplyKinds
  <2>7. ASSUME NEW b \in Nat, Session(b) PROVE Fits(Start, b) /\ Fits(ask, b)
    <3>1. Start.id \notin b .. b + 9
      BY <1>4, <2>7 DEF Session
    <3>2. ask.id \notin b .. b + 9
      BY <1>5, <2>7 DEF Session, RequestMark
    <3> QED BY <3>1, <3>2 DEF Fits
  <2>8. \A m \in M : /\ m.kind \notin ReplyKinds
                     /\ \A b \in Nat : Session(b) => Fits(m, b)
    BY <2>6, <2>7
  <2> HIDE DEF M
  <2>9. PICK r \in Seq(M) : Sends(r)
    BY <2>4
  <2>10. c'.reqId >= RequestMark /\ (c'.state = SUCCESS => c.state = SUCCESS /\ c'.ctx = c.ctx)
    BY <1>1, <2>2
  <2> QED BY <1>2, <2>1, <2>3, <2>5, <2>8, <2>9, <2>10, Mentions
<1> QED
  BY <1>6, <1>7

LEMMA AgreeStep ==
  ASSUME AgreeInv, TypesInv, Drawable, IdsApart, [OrderedNext]_vars
  PROVE  AgreeInv'
<1>1. /\ IdInv /\ OrderInv /\ KeyInv /\ toC \in Seq(Proper) /\ toS \in Seq(Proper)
      /\ s \in Child
  BY DEF AgreeInv, IdInv, TypesInv, TypeOK
<1>2. ASSUME NEW i \in DOMAIN toS, (i = 1 /\ Handles(i)) \/ LoseS(i) PROVE AgreeInv'
  <2>1. CASE LoseS(i)
    <3>1. /\ toS' = RemoveAt(toS, i) /\ s' = s /\ c' = c /\ toC' = toC
          /\ useKey' = useKey
      BY <2>1 DEF LoseS, config
    <3>2. toS' \in Seq(Proper) /\ Elements(toS') \subseteq Elements(toS)
      BY <1>1, <3>1, ProperCarried, OrderRemoved
    <3> QED BY <3>1, <3>2, Stays
  <2> QED BY <1>2, <2>1, AgreeHandles
<1>3. ASSUME NEW i \in DOMAIN toC, (i = 1 /\ Answers(i)) \/ LoseC(i) PROVE AgreeInv'
  <2>1. CASE LoseC(i)
    <3>1. /\ toC' = RemoveAt(toC, i) /\ s' = s /\ c' = c /\ toS' = toS
          /\ useKey' = useKey
      BY <2>1 DEF LoseC, config
    <3> QED BY <1>1, <3>1, Stays
  <2> QED BY <1>3, <2>1, AgreeAnswers
<1>4. CASE Resend \/ Reauthenticate \/ ReauthExpires
  <2>1. c' = c /\ toS' = toS /\ useKey' = useKey
    BY <1>4 DEF Resend, Reauthenticate, ReauthExpires, config
  <2>2. CASE RequestIdentity(s)
    <3>1. Requests(s, "reqIdentity", NewId, <<>>)
      BY <2>2 DEF RequestIdentity
    <3> QED BY <1>1, <2>1, <3>1, Begins
  <2>3. CASE RequestIdentity([s EXCEPT !.state = REAUTH])
    <3> DEFINE e == [s EXCEPT !.state = REAUTH]
    <3>1. Requests(e, "reqIdentity", NewId, <<>>)
      BY <2>3 DEF RequestIdentity
    <3>2. e \in Child
      BY <1>1 DEF Child
    <3>3. /\ e.authenticated = s.authenticated /\ e.ctx = s.ctx /\ e.tx = s.tx
          /\ e.rx = s.rx /\ e.state = REAUTH /\ REAUTH # SUCCESS
      BY <1>1 DEF Child, REAUTH, SUCCESS
    <3> HIDE DEF e
    <3> QED BY <1>1, <2>1, <3>1, <3>2, <3>3, Begins
  <2>4. CASE toC' = toC /\ (s' = [s EXCEPT !.resends = @ + 1] \/ ReauthExpires)
    <3>1. /\ s'.id = s.id /\ s'.authenticated = s.authenticated /\ s'.ctx = s.ctx
          /\ s'.tx = s.tx /\ s'.rx = s.rx /\ (s'.state = s.state \/ s'.state = UNAUTH)
      BY <1>1, <2>4 DEF ReauthExpires, Child
    <3>2. UNAUTH # SUCCESS
      BY DEF UNAUTH, SUCCESS
    <3> QED BY <1>1, <2>1, <2>4, <3>1, <3>2, Stays
  <2> QED
    BY <1>4, <2>2, <2>3, <2>4 DEF Resend, Reauthenticate, ReauthExpires, Silent
<1>5. CASE Replaced \/ ListenerRestarts
  <2>1. c' = c /\ toS' = toS /\ toC' = toC /\ useKey' = useKey /\ s' = NewChild
    BY <1>5 DEF Replaced, ListenerRestarts, config
  <2>2. s'.id = 0 /\ s'.authenticated = FALSE /\ s'.state # SUCCESS
    BY <2>1 DEF NewChild, UNAUTH, SUCCESS
  <2> QED BY <1>1, <2>1, <2>2, Stays
<1>6. CASE ProbeExpires \/ StartTimer \/ RequestTimer \/ RecoversFromFailed \/ Rebind
  BY <1>6, AgreeTimers
<1>7. CASE UNCHANGED vars
  BY <1>1, <1>7, Stays DEF vars, config
<1> QED
  BY <1>2, <1>3, <1>4, <1>5, <1>6, <1>7 DEF OrderedNext

\* Two ends that have both finished hold the same session key, whatever is lost,
\* late or restarted, as long as no packet overtakes another: packets of an
\* earlier handshake are never taken for those of the last.
THEOREM KeysAgree ==
  ASSUME IdsApart
  PROVE  Init /\ [][OrderedNext]_vars /\ []Drawable => []Agreement
<1>1. TypesInv /\ AgreeInv /\ Drawable /\ [OrderedNext]_vars => (TypesInv /\ AgreeInv)'
  <2> SUFFICES ASSUME TypesInv, AgreeInv, Drawable, [OrderedNext]_vars
               PROVE  TypesInv' /\ AgreeInv'
    OBVIOUS
  <2>1. [Next]_vars
    BY DEF OrderedNext, Next
  <2> QED BY <2>1, TypesStep, AgreeStep
<1>2. Init => TypesInv /\ AgreeInv
  BY TypesInit, AgreeInit
<1> QED
  BY <1>1, <1>2, AgreeInvSuffices, PTL
=============================================================================
