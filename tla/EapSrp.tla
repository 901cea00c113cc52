------------------------------- MODULE EapSrp -------------------------------
(***************************************************************************)
(* EAP-SRP authentication between a calling peer (the authenticatee, c)    *)
(* and the child the listener made for it (the authenticator, s), as eap.c *)
(* runs it: the handshake, its retries and timers, re-authentication, the  *)
(* request for the passphrase, a listener that restarts and a caller that  *)
(* starts over on a silent path.                                           *)
(*                                                                         *)
(* SRP itself is abstract: A and B are numbers, a session key is what both *)
(* ends derive from A, B and the password.  Clocks are abstract too: a     *)
(* timer that waits for an answer fires when none is under way; firing     *)
(* before that, a lost packet, one that overtakes another and a request    *)
(* refused by a rate limit are faults, whose number is bounded.  Packets   *)
(* are not duplicated, and both ends speak version 4.                      *)
(***************************************************************************)
EXTENDS Integers, Sequences, SequencesExt

CONSTANTS
  RetryMax,      \* EAP_AUTH_RETRY_MAX
  ResendMax,     \* EAP_AUTH_TIMEOUT_RETRY_MAX
  Bases,         \* the identifiers eap_request_identity may draw
  Numbers,       \* the random A and B
  MaxFaults, MaxReauths, MaxRestarts

ASSUME EapAssumption ==
  /\ RetryMax \in Nat /\ ResendMax \in Nat
  /\ Bases \subseteq Nat /\ Numbers \subseteq Nat \ {0}
  /\ MaxFaults \in Nat /\ MaxReauths \in Nat /\ MaxRestarts \in Nat

FAILED  == -1
UNAUTH  == 0
SUCCESS == 1
REAUTH  == 2
Permanent == RetryMax + 2         \* EAP_AUTH_TRIES_PERMANENT

\* An SRP context: none, one that knows no number yet, one that knows A, and
\* one with the session key.  A key ends in 1 if the password was the right one.
NoCtx == <<0>>
Fresh == <<>>
Psk   == <<-1>>                   \* the passphrase the listener was given
Unset == <<-2>>

VARIABLES
  right,      \* configuration: the caller has the right password
  useKey,     \* configuration: use_key_as_passphrase
  c, s,       \* the two eapsrp_ctx, with the passphrases of their peers
  toS, toC,   \* packets under way
  faults, reauths, restarts,
  unrepaired  \* something happened that the protocol does not mend by itself

config == <<right, useKey>>
vars   == <<config, c, s, toS, toC, faults, reauths, restarts, unrepaired>>

\* The bits of an identifier that mark a request for the passphrase.
RequestMark == 200

Caller == [state : {FAILED, UNAUTH, SUCCESS, REAUTH}, tries : 0 .. Permanent,
           id : Nat, ctx : Seq(Int),
           probe : BOOLEAN,            \* reauth_probe_timer runs
           start : -1 .. ResendMax,    \* authee_start_tries, -1: timer off
           req : BOOLEAN,              \* passphrase_request_timer runs
           reqTimes : Nat, reqId : Nat,
           stamp : BOOLEAN,            \* failed_state_timestamp is set
           tx : Seq(Int), rx : Seq(Int)]
Child == [state : {FAILED, UNAUTH, SUCCESS, REAUTH}, tries : 0 .. RetryMax + 1,
          id : Nat, ctx : Seq(Int), authenticated : BOOLEAN,
          pkt : BOOLEAN,               \* last_pkt holds a packet
          resends : 0 .. ResendMax,    \* timeout_retries
          tx : Seq(Int), rx : Seq(Int),
          guesses : Nat]               \* wrong M1 since it last succeeded
Packet == [kind : {"start", "identity", "clientKey", "clientValidator",
                   "success", "passRequest", "reqIdentity", "challenge",
                   "serverKey", "serverValidator", "failure", "password"},
           id : Nat, val : Seq(Int)]

\* Everything has its type.
TypeOK ==
  /\ right \in BOOLEAN /\ useKey \in BOOLEAN /\ unrepaired \in BOOLEAN
  /\ c \in Caller /\ s \in Child
  /\ toS \in Seq(Packet) /\ toC \in Seq(Packet)
  /\ faults \in Nat /\ reauths \in Nat /\ restarts \in Nat

NewChild == [state |-> UNAUTH, tries |-> 0, id |-> 0, ctx |-> NoCtx,
             authenticated |-> FALSE, pkt |-> FALSE, resends |-> 0,
             tx |-> Psk, rx |-> Unset, guesses |-> 0]

Msg(kind, id, val) == [kind |-> kind, id |-> id, val |-> val]
Start == Msg("start", 0, <<>>)

\* rist_enable_eap_srp_2 sends the first EAPOL START.
Init ==
  /\ right \in BOOLEAN /\ useKey \in BOOLEAN
  /\ c = [state |-> UNAUTH, tries |-> 0, id |-> 0, ctx |-> NoCtx,
          probe |-> FALSE, start |-> 0, req |-> FALSE, reqTimes |-> 0,
          reqId |-> RequestMark, stamp |-> FALSE, tx |-> Unset, rx |-> Unset]
  /\ s = NewChild
  /\ toS = <<Start>> /\ toC = <<>>
  /\ faults = 0 /\ reauths = 0 /\ restarts = 0 /\ unrepaired = FALSE

-----------------------------------------------------------------------------
(* The network, faults, random numbers.                                    *)

Fault == faults < MaxFaults /\ faults' = faults + 1
NoFault == UNCHANGED <<faults, unrepaired>>

\* A timer that waits for an answer.
Due == \/ toS = <<>> /\ toC = <<>> /\ UNCHANGED faults
       \/ (toS # <<>> \/ toC # <<>>) /\ Fault

UnderWay == {toS[i] : i \in DOMAIN toS} \cup {toC[i] : i \in DOMAIN toC}

\* A and B come from a large group and identifiers from 256 values: what is
\* drawn is something nobody remembers.
NewNumber ==
  CHOOSE n \in Numbers :
    \A q \in {c.ctx, c.tx, c.rx, s.ctx, s.tx, s.rx}
              \cup {m.val : m \in UnderWay} : \A i \in DOMAIN q : q[i] # n
NewId ==
  CHOOSE b \in Bases :
    \A i \in {c.id, s.id} \cup {m.id : m \in UnderWay} : i \notin b .. b + 9

\* The packet in front is taken, or one that has overtaken it.
Takes(q, i) == \/ i = 1 /\ Len(q) > 0 /\ NoFault
               \/ i = 2 /\ Len(q) > 1 /\ Fault /\ unrepaired' = TRUE
\* The packet in front comes within the interval of a rate limit.
Limited(q) == Len(q) > 0 /\ Fault /\ UNCHANGED unrepaired

-----------------------------------------------------------------------------
(* The authenticator: eap_process_eapol with process_eap_response,         *)
(* process_eap_succes and process_eap_request_srp_passphrase.              *)

\* Parked: every EAP packet is answered with EAP_AUTH_TERMINATED.
Parked(e) == e.state = FAILED /\ e.tries > RetryMax

AtS(kind, i) ==
  /\ i \in DOMAIN toS /\ toS[i].kind = kind
  /\ toS' = RemoveAt(toS, i)
  /\ UNCHANGED <<config, c, reauths, restarts>>
Silent == UNCHANGED toC
ToC(m) == toC' = Append(toC, m)

\* A request is kept for a retransmission: send_eapol_pkt.
Requests(e, kind, id, val) ==
  /\ s' = [e EXCEPT !.id = id, !.pkt = TRUE, !.resends = 0]
  /\ ToC(Msg(kind, id, val))

\* Mutant: START clears the count of failures.
StartForgives(i) ==
  /\ Takes(toS, i) /\ AtS("start", i)
  /\ Requests([s EXCEPT !.state = IF @ = SUCCESS THEN REAUTH ELSE @,
                        !.tries = 0], "reqIdentity", NewId, <<>>)

\* START is heard even by a parked child.
RecvStart(i) ==
  /\ Takes(toS, i) /\ AtS("start", i)
  /\ Requests([s EXCEPT !.state = IF @ = SUCCESS THEN REAUTH ELSE @],
              "reqIdentity", NewId, <<>>)

\* Mutant: a response to an earlier request is heard.
ResponseToAny(kind, i) == AtS(kind, i) /\ ~Parked(s)

\* A response is heard if it carries the identifier of the last request: the
\* request needs no retransmission any more.
Response(kind, i) == AtS(kind, i) /\ ~Parked(s) /\ toS[i].id = s.id
Answered == [s EXCEPT !.pkt = FALSE, !.resends = 0]

RecvIdentity(i) ==
  /\ Takes(toS, i) /\ Response("identity", i)
  /\ Requests([s EXCEPT !.ctx = Fresh], "challenge", s.id + 1, <<>>)

RecvClientKey(i) ==
  /\ Response("clientKey", i)
  /\ \/ /\ s.ctx = NoCtx /\ Takes(toS, i)
        /\ s' = [Answered EXCEPT !.state = FAILED] /\ Silent
     \/ /\ s.ctx # NoCtx /\ Takes(toS, i)
        /\ Requests([s EXCEPT !.ctx = <<toS[i].val[1], NewNumber, 1>>],
                    "serverKey", s.id + 1, <<NewNumber>>)
     \/ /\ s.ctx # NoCtx /\ i = 1 /\ Limited(toS)
        /\ s' = Answered /\ Silent

\* Mutant: M1 proves that A and B arrived, and not the password.
M1Arrived(m) == m.val[1] = s.ctx[1] /\ m.val[2] = s.ctx[2]

M1Right(m) == m.val = s.ctx

RecvClientValidator(i) ==
  /\ Takes(toS, i) /\ Response("clientValidator", i)
  /\ \/ /\ s.ctx = NoCtx
        /\ s' = [Answered EXCEPT !.state = FAILED] /\ Silent
     \/ /\ s.ctx # NoCtx /\ M1Right(toS[i])
        /\ Requests([s EXCEPT !.authenticated = TRUE,
                              !.rx = IF useKey THEN s.ctx ELSE @,
                              !.tx = IF useKey THEN s.ctx ELSE @],
                    "serverValidator", s.id + 1, s.ctx)
     \/ /\ s.ctx # NoCtx /\ ~M1Right(toS[i])
        /\ s' = [Answered EXCEPT !.state = FAILED, !.tries = @ + 1,
                                 !.guesses = @ + 1, !.ctx = NoCtx,
                                 !.authenticated = FALSE]
        /\ ToC(Msg("failure", s.id, <<>>))

RecvSuccess(i) ==
  /\ Takes(toS, i) /\ Response("success", i)
  /\ s' = IF s.authenticated
          THEN [Answered EXCEPT !.state = SUCCESS, !.tries = 0,
                                !.guesses = 0, !.id = @ + 1]
          ELSE Answered
  /\ Silent

\* The caller asks for the passphrase; its identifier becomes the last one, so
\* that a child that is not ready forgets what it waits for.
RecvPassRequest(i) ==
  /\ AtS("passRequest", i) /\ ~Parked(s)
  /\ \/ /\ s.state = SUCCESS /\ Takes(toS, i)
        /\ Requests(s, "password", toS[i].id, s.ctx)
     \/ /\ s.state # SUCCESS /\ unrepaired' = TRUE
        /\ (i = 1 /\ UNCHANGED faults) \/ (i = 2 /\ Fault)
        /\ Requests(s, "failure", toS[i].id, <<>>)

DropAtS(i) ==
  /\ Takes(toS, i)
  /\ \E kind \in {"identity", "clientKey", "clientValidator", "success",
                  "passRequest"} :
       /\ AtS(kind, i)
       /\ Parked(s) \/ (kind # "passRequest" /\ toS[i].id # s.id)
  /\ UNCHANGED s /\ Silent

RequestIdentity(e) == Requests(e, "reqIdentity", NewId, <<>>)

\* Mutant: the bound of the retransmissions is off by one.
ResendOneMore ==
  /\ s.state # SUCCESS /\ s.tries <= RetryMax /\ s.resends <= ResendMax /\ Due
  /\ \/ s.pkt /\ s' = [s EXCEPT !.resends = @ + 1] /\ Silent
     \/ ~s.pkt /\ RequestIdentity(s)
  /\ UNCHANGED <<config, c, toS, reauths, restarts, unrepaired>>

\* eap_periodic_impl.  The retransmission goes out without a GRE header, which
\* the caller does not take for an EAPOL packet: it only counts.
Resend ==
  /\ s.state # SUCCESS /\ s.tries <= RetryMax /\ s.resends < ResendMax /\ Due
  /\ \/ s.pkt /\ s' = [s EXCEPT !.resends = @ + 1] /\ Silent
     \/ ~s.pkt /\ RequestIdentity(s)
  /\ UNCHANGED <<config, c, toS, reauths, restarts, unrepaired>>

Reauthenticate ==
  /\ s.state = SUCCESS /\ reauths < MaxReauths /\ reauths' = reauths + 1
  /\ RequestIdentity([s EXCEPT !.state = REAUTH])
  /\ UNCHANGED <<config, c, toS, faults, restarts, unrepaired>>

ReauthExpires ==
  /\ s.state = REAUTH /\ s' = [s EXCEPT !.state = UNAUTH]
  /\ UNCHANGED <<config, c, toS, toC, faults, reauths, restarts, unrepaired>>

\* A parked child is dead, is removed and the caller's keepalives make another.
Replaced ==
  /\ Parked(s) /\ s' = NewChild
  /\ UNCHANGED <<config, c, toS, toC, faults, reauths, restarts, unrepaired>>

ListenerRestarts ==
  /\ restarts < MaxRestarts /\ restarts' = restarts + 1 /\ s' = NewChild
  /\ UNCHANGED <<config, c, toS, toC, faults, reauths, unrepaired>>

-----------------------------------------------------------------------------
(* The authenticatee: eap_process_eapol with process_eap_request,          *)
(* process_eap_pkt and process_eap_response_passphrase.                    *)

AtC(kind, i) ==
  /\ i \in DOMAIN toC /\ toC[i].kind = kind
  /\ toC' = RemoveAt(toC, i)
  /\ UNCHANGED <<config, s, reauths, restarts>>

\* Mutant: the first EAPOL packet turns the retransmission of START off.
BecomesQuiet(e) == c' = [e EXCEPT !.start = -1]

\* After every EAPOL packet the retransmission of START is armed anew while
\* the handshake goes on, and off otherwise.
Becomes(e) == c' = [e EXCEPT !.start = IF e.state = UNAUTH THEN 0 ELSE -1]
Sends(q) == toS' = toS \o q

\* What starts over asks the authenticator to.
Restarted(e) == [e EXCEPT !.ctx = NoCtx, !.state = UNAUTH, !.tries = 0,
                          !.start = 0, !.stamp = FALSE]

RecvIdentityRequest(i) ==
  /\ AtC("reqIdentity", i) /\ ~Parked(c)
  /\ \/ /\ c.state >= SUCCESS /\ Takes(toC, i)
        /\ Becomes([c EXCEPT !.probe = TRUE]) /\ Sends(<<>>)
     \/ /\ c.state < SUCCESS /\ Takes(toC, i)
        /\ Becomes([c EXCEPT !.ctx = NoCtx])
        /\ Sends(<<Msg("identity", toC[i].id, <<>>)>>)
     \/ /\ c.state < SUCCESS /\ i = 1 /\ Limited(toC)
        /\ Becomes(c) /\ Sends(<<>>)

RecvChallenge(i) ==
  /\ AtC("challenge", i) /\ ~Parked(c)
  /\ \/ /\ Takes(toC, i)
        /\ Becomes([c EXCEPT !.id = toC[i].id, !.ctx = <<NewNumber>>])
        /\ Sends(<<Msg("clientKey", toC[i].id, <<NewNumber>>)>>)
     \/ /\ i = 1 /\ Limited(toC)
        /\ Becomes([c EXCEPT !.id = toC[i].id]) /\ Sends(<<>>)

\* The key follows from B: a new passphrase for sending, at once.
RecvServerKey(i) ==
  /\ Takes(toC, i) /\ AtC("serverKey", i) /\ ~Parked(c)
  /\ LET e == [c EXCEPT !.id = toC[i].id]
         key == <<c.ctx[1], toC[i].val[1], IF right THEN 1 ELSE 0>>
     IN IF c.ctx = NoCtx
        THEN Becomes([e EXCEPT !.state = FAILED]) /\ Sends(<<>>)
        ELSE /\ Becomes([e EXCEPT !.ctx = key,
                                  !.tx = IF useKey THEN key ELSE @])
             /\ Sends(<<Msg("clientValidator", toC[i].id, key)>>)

M2Right(m) == m.val = c.ctx

\* The last word of the handshake, with the request for the passphrase.
RecvServerValidator(i) ==
  /\ Takes(toC, i) /\ AtC("serverValidator", i) /\ ~Parked(c)
  /\ LET e == [c EXCEPT !.id = toC[i].id]
     IN \/ /\ c.ctx = NoCtx
           /\ Becomes([e EXCEPT !.state = FAILED]) /\ Sends(<<>>)
        \/ /\ c.ctx # NoCtx /\ M2Right(toC[i])
           /\ Becomes([e EXCEPT !.state = SUCCESS, !.tries = 0,
                                !.stamp = FALSE, !.req = TRUE,
                                !.reqTimes = @ + 1, !.reqId = @ + 1,
                                !.rx = IF useKey THEN c.ctx ELSE @])
           /\ Sends(<<Msg("success", toC[i].id, <<>>),
                      Msg("passRequest", c.reqId + 1, <<>>)>>)
        \/ /\ c.ctx # NoCtx /\ ~M2Right(toC[i])
           /\ Becomes([e EXCEPT !.state = FAILED, !.tries = Permanent])
           /\ Sends(<<>>)

RecvFailure(i) ==
  /\ Takes(toC, i) /\ AtC("failure", i) /\ ~Parked(c)
  /\ LET e == [c EXCEPT !.ctx = NoCtx,
                        !.tries = IF @ < Permanent THEN @ + 1 ELSE @]
     IN \/ /\ toC[i].id # c.id
           /\ Becomes(c) /\ Sends(<<>>)
        \/ /\ toC[i].id = c.id /\ e.tries > RetryMax
           /\ Becomes([e EXCEPT !.state = FAILED, !.stamp = TRUE])
           /\ Sends(<<>>)
        \/ /\ toC[i].id = c.id /\ e.tries <= RetryMax
           /\ Becomes([e EXCEPT !.state = IF @ = SUCCESS THEN REAUTH ELSE @])
           /\ Sends(<<Start>>)

\* A passphrase is taken if it answers the request, is not the key itself and
\* was encrypted under the key of this session.
RecvPassword(i) ==
  /\ Takes(toC, i) /\ AtC("password", i) /\ ~Parked(c)
  /\ IF /\ c.state = SUCCESS
        /\ c.req => toC[i].id = c.reqId
        /\ ~useKey
        /\ toC[i].val = c.ctx
     THEN /\ Becomes([c EXCEPT !.rx = Psk, !.req = FALSE])
          /\ Sends(<<Msg("success", toC[i].id, <<>>)>>)
     ELSE Becomes(c) /\ Sends(<<>>)

RefusedAtC(i) ==
  /\ Takes(toC, i)
  /\ \E kind \in {"reqIdentity", "challenge", "serverKey", "serverValidator",
                  "failure", "password"} : AtC(kind, i)
  /\ Parked(c) /\ Becomes(c) /\ Sends(<<>>)

\* eap_periodic_impl.
Timer == UNCHANGED <<config, s, toC, reauths, restarts>>

\* An identity request that a finished caller saw has not gone away.
ProbeExpires ==
  /\ c.state >= SUCCESS /\ c.probe
  /\ c' = [Restarted(c) EXCEPT !.probe = FALSE]
  /\ Sends(<<Start>>) /\ NoFault /\ Timer

StartTimer ==
  /\ c.state = UNAUTH /\ c.start >= 0 /\ Due
  /\ \/ /\ c.start >= ResendMax
        /\ c' = [c EXCEPT !.start = -1] /\ Sends(<<>>) /\ unrepaired' = TRUE
     \/ /\ c.start < ResendMax
        /\ c' = [c EXCEPT !.start = @ + 1] /\ Sends(<<Start>>)
        /\ UNCHANGED unrepaired
  /\ Timer

\* passphrase_request_times is never cleared: the code clears another counter.
RequestTimer ==
  /\ c.state = SUCCESS /\ c.req /\ Due
  /\ \/ /\ c.reqTimes > ResendMax
        /\ c' = [c EXCEPT !.req = FALSE] /\ Sends(<<>>)
     \/ /\ c.reqTimes <= ResendMax
        /\ c' = [c EXCEPT !.reqTimes = @ + 1]
        /\ Sends(<<Msg("passRequest", c.reqId, <<>>)>>)
  /\ UNCHANGED unrepaired /\ Timer

\* A caller that only failed too often tries again after half a minute.
RecoversFromFailed ==
  /\ c.state = FAILED /\ c.stamp /\ c.tries \in RetryMax + 1 .. Permanent - 1
  /\ c' = [c EXCEPT !.state = UNAUTH, !.tries = 0, !.stamp = FALSE]
  /\ Sends(<<>>) /\ NoFault /\ Timer

\* try_caller_socket_rebind and eap_reset_authenticatee: the path was silent
\* for the session timeout.  From another port the listener makes another child.
Rebind ==
  /\ restarts < MaxRestarts /\ restarts' = restarts + 1
  /\ toC' = <<>> /\ toS' = <<Start>>
  /\ c' = [Restarted(c) EXCEPT !.id = 0]
  /\ s' \in {s, NewChild}
  /\ UNCHANGED <<config, faults, reauths, unrepaired>>

\* The network loses a packet.
LoseS(i) ==
  /\ i \in DOMAIN toS /\ Fault /\ toS' = RemoveAt(toS, i)
  /\ unrepaired' = (unrepaired \/ c.state >= SUCCESS)
  /\ UNCHANGED <<config, c, s, toC, reauths, restarts>>
LoseC(i) ==
  /\ i \in DOMAIN toC /\ Fault /\ toC' = RemoveAt(toC, i)
  /\ unrepaired' = (unrepaired \/ c.state >= SUCCESS)
  /\ UNCHANGED <<config, c, s, toS, reauths, restarts>>

-----------------------------------------------------------------------------
Handles(i) ==
  \/ RecvStart(i) \/ RecvIdentity(i) \/ RecvClientKey(i)
  \/ RecvClientValidator(i) \/ RecvSuccess(i) \/ RecvPassRequest(i)
  \/ DropAtS(i)
Answers(i) ==
  \/ RecvIdentityRequest(i) \/ RecvChallenge(i) \/ RecvServerKey(i)
  \/ RecvServerValidator(i) \/ RecvFailure(i) \/ RecvPassword(i)
  \/ RefusedAtC(i)

Next ==
  \/ \E i \in DOMAIN toS : Handles(i) \/ LoseS(i)
  \/ \E i \in DOMAIN toC : Answers(i) \/ LoseC(i)
  \/ Resend \/ Reauthenticate \/ ReauthExpires
  \/ Replaced \/ ListenerRestarts
  \/ ProbeExpires \/ StartTimer \/ RequestTimer \/ RecoversFromFailed \/ Rebind

Spec == Init /\ [][Next]_vars

\* Packets that are not lost arrive, and both ends run eap_periodic forever.
Fairness ==
  /\ WF_vars(Handles(1)) /\ WF_vars(Answers(1))
  /\ WF_vars(Resend) /\ WF_vars(Replaced)
  /\ WF_vars(ProbeExpires) /\ WF_vars(StartTimer) /\ WF_vars(RequestTimer)

FairSpec == Spec /\ Fairness

-----------------------------------------------------------------------------
(* Properties.                                                             *)

\* Two ends that have both finished hold the same session key, and where the
\* key serves as the passphrase each decrypts with what the other sends under:
\* no order of retries, re-authentications and restarts mixes two handshakes.
Agreement ==
  c.state = SUCCESS /\ s.state = SUCCESS =>
    /\ c.ctx = s.ctx
    /\ useKey => c.tx = s.rx /\ c.rx = s.tx

\* Nobody comes in with the wrong password, however the packets are shuffled:
\* neither end finishes, and the listener believes no M1.
Authentic ==
  ~right => c.state < SUCCESS /\ s.state < SUCCESS /\ ~s.authenticated

\* A child lets a caller guess RetryMax + 1 times: neither START nor a new
\* handshake clears the count ("it is the brute-force cap", eap.c).
GuessesBounded == s.guesses <= RetryMax + 1

Joined == /\ c.state = SUCCESS /\ s.state = SUCCESS
          /\ IF useKey THEN c.rx = s.tx /\ c.tx = s.rx ELSE c.rx = s.tx

\* With the right password the two ends end up authenticated and agreed on the
\* passphrases, whatever was lost, late, limited or restarted on the way.  Not
\* mended are a packet that overtook another, one lost when the caller was done,
\* a request for the passphrase that met a child not ready for it, and a caller
\* whose last START was lost.
Recovers == right => (<>[]Joined \/ <>unrepaired)
=============================================================================
