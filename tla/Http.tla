-------------------------------- MODULE Http --------------------------------
(***************************************************************************)
(* net_http_get of kernel/net.c with its TCP client: net_handle_tcp for    *)
(* what arrives, tcp_send for what goes out.  One call is one connection;  *)
(* the client sends a SYN, a GET and a FIN once each, never again, and     *)
(* acknowledges what arrives in order.  Its FIN changes nothing in what    *)
(* follows here and is left out, and so are the old calls' ACKs.           *)
(*                                                                         *)
(* The network may lose, delay, repeat and reorder everything, also        *)
(* segments of earlier calls.  So the segments under way from the servers  *)
(* need no variable: any segment that one of them may have sent so far may *)
(* arrive at any moment, or never.  Sequence numbers of the servers are    *)
(* taken modulo Mod (2^32 in the code); those of the client are left out,  *)
(* the call that sent a segment stands for them.  A byte is a token; an    *)
(* empty line is one token of its own, CRLF2 or LF2.                       *)
(***************************************************************************)
EXTENDS Integers, Sequences, FiniteSets

CONSTANTS
  MaxCalls,       \* a bound on the calls of net_http_get
  Ports, NoPort,  \* the local ports tcp_sport may take; none yet
  Pages,          \* what servers answer: header, empty line, body
  CRLF2, LF2,     \* the two kinds of empty line
  Mod,            \* the size of the sequence space
  ServerISS,      \* initial sequence numbers of the servers
  AsmMax,         \* TCP_ASM_MAX
  Margin,         \* the 2048 tokens kept free for what is under way
  OutCap          \* out_cap, the caller's buffer

Calls == 1 .. MaxCalls

\* Where token a lies as seen from token b, in sequence space.
Dist(a, b) == (a - b) % Mod

EmptyLines(buf) == {i \in DOMAIN buf : buf[i] \in {CRLF2, LF2}}
HeaderLen(page) == CHOOSE i \in EmptyLines(page) : \A j \in EmptyLines(page) : i <= j

(* A server's header ends with CRLF CRLF, as HTTP has it; a connection     *)
(* does not use up the sequence space, and those of a port do not overlap  *)
(* in it.                                                                  *)
ASSUME HttpAssumption ==
  /\ MaxCalls \in Nat /\ NoPort \notin Ports /\ AsmMax \in Nat /\ Margin \in Nat /\ OutCap \in Nat
  /\ Mod \in Nat \ {0}
  /\ 0 < Margin /\ Margin < AsmMax /\ 1 < OutCap /\ CRLF2 # LF2
  /\ ServerISS \subseteq 0 .. Mod - 1
  /\ \A p \in Pages : /\ p \in Seq(UNION {{q[i] : i \in DOMAIN q} : q \in Pages})
                      /\ \E i \in EmptyLines(p) : p[i] = CRLF2 /\ \A j \in EmptyLines(p) : i <= j
                      /\ Len(p) + 2 < Mod
                      /\ \A a, b \in ServerISS : a # b => Dist(a, b) > Len(p) + 2

VARIABLES
  pc,             \* net_http_get: "off", or in its "syn", "wait" or "close" loop
  call,           \* which call it is
  port,           \* the port of each call; port[call] is tcp_sport
  tcp_state, tcp_rcv_nxt, tcp_asm,
  result,         \* what the call returned, with the body it stored; 0 until it does
  up,             \* what the client has sent and may still arrive at a server
  srv             \* the server's side of each call's connection

client == <<pc, call, port>>
conn   == <<tcp_state, tcp_rcv_nxt, tcp_asm>>
vars   == <<client, conn, result, up, srv>>

Tokens == UNION {{q[i] : i \in DOMAIN q} : q \in Pages}

Nothing == [code |-> 0, body |-> <<>>]

SendAck(ack) == up' = up \cup {[call |-> call, kind |-> "ACK", ack |-> ack]}

----------------------------------------------------------------------------
(* The servers.  After a SYN a server answers SYN+ACK, after the GET any   *)
(* slice of the page, as often as it likes, and a FIN at the page's end;   *)
(* it may abort the connection or refuse it.  una counts what the client   *)
(* has acknowledged, which the server need not keep any longer.            *)

Unborn == [st |-> "none", iss |-> 0, page |-> <<>>, una |-> 0, reset |-> FALSE]

Accept(n, iss, page) ==
  /\ \E u \in up : u.call = n /\ u.kind = "SYN"
  /\ srv[n].st = "none" /\ ~srv[n].reset
  /\ \A m \in Calls : srv[m].st # "none" /\ port[m] = port[n] => srv[m].iss # iss
  /\ srv' = [srv EXCEPT ![n].st = "synced", ![n].iss = iss, ![n].page = page]
  /\ UNCHANGED <<client, conn, result, up>>

Serve(n) ==
  /\ srv[n].st = "synced" /\ ~srv[n].reset
  /\ \E u \in up : u.call = n /\ u.kind = "GET" /\ Dist(u.ack, srv[n].iss) = 1
  /\ srv' = [srv EXCEPT ![n].st = "served"]
  /\ UNCHANGED <<client, conn, result, up>>

TakeAck(n) ==
  /\ srv[n].st = "served"
  /\ \E u \in up : LET acked == Dist(u.ack, srv[n].iss + 1) IN
       /\ u.call = n /\ u.kind = "ACK"
       /\ srv[n].una < acked /\ acked <= Len(srv[n].page) + 1
       /\ srv' = [srv EXCEPT ![n].una = acked]
  /\ UNCHANGED <<client, conn, result, up>>

Abort(n) ==
  /\ \E u \in up : u.call = n
  /\ ~srv[n].reset /\ srv' = [srv EXCEPT ![n].reset = TRUE]
  /\ UNCHANGED <<client, conn, result, up>>

(* Tokens i .. j of the page; i = 0 is the place of the SYN.               *)
Segment(n, kind, i, j, fin) ==
  [kind |-> kind, port |-> port[n], seq |-> (srv[n].iss + i) % Mod,
   data |-> SubSeq(srv[n].page, i, j), fin |-> fin]

Slices(page) == {t \in (1 .. Len(page) + 1) \X (0 .. Len(page)) \X BOOLEAN :
                   t[1] <= t[2] + 1 /\ (t[3] => t[2] = Len(page))}

Sent(n) == UNION {
  IF srv[n].st = "none" THEN {} ELSE {Segment(n, "SYNACK", 0, -1, FALSE)},
  IF srv[n].reset THEN {Segment(n, "RST", 0, -1, FALSE)} ELSE {},
  IF srv[n].st = "served"
    THEN {Segment(n, "DATA", t[1], t[2], t[3]) : t \in Slices(srv[n].page)} ELSE {}}

Arriving == IF pc = "off" THEN {}
            ELSE {s \in UNION {Sent(n) : n \in Calls} : s.port = port[call]}

----------------------------------------------------------------------------
(* net_handle_tcp, called by spin_rx in each of the loops.                 *)

Reset(s) ==
  /\ s.kind = "RST" /\ tcp_state' = "IDLE"
  /\ UNCHANGED <<client, tcp_rcv_nxt, tcp_asm, result, up, srv>>

\* The acknowledgement number of a SYN+ACK is not looked at.
SynAck(s) ==
  /\ s.kind = "SYNACK" /\ tcp_state = "SYN_SENT"
  /\ tcp_state' = "ESTAB" /\ tcp_rcv_nxt' = (s.seq + 1) % Mod /\ tcp_asm' = <<>>
  /\ UNCHANGED <<client, result, up, srv>>

\* Bug: no token is kept free for the terminating zero.
RoomToTheEnd == AsmMax - Len(tcp_asm)

Room == AsmMax - Len(tcp_asm) - 1

(* The payload and the FIN of a segment are taken.  What does not fit is   *)
(* dropped, and acknowledged all the same.                                 *)
Take(s) ==
  /\ tcp_asm' = tcp_asm \o SubSeq(s.data, 1, IF Room < Len(s.data) THEN Room ELSE Len(s.data))
  /\ tcp_rcv_nxt' = (s.seq + Len(s.data) + (IF s.fin THEN 1 ELSE 0)) % Mod
  /\ tcp_state' = IF s.fin THEN "FIN" ELSE "ESTAB"
  /\ UNCHANGED <<client, result, srv>>

\* Bug: whatever arrives is appended.
InOrderAnyway(s) ==
  s.kind # "RST" /\ tcp_state = "ESTAB" /\ Take(s) /\ SendAck(tcp_rcv_nxt')

\* Bug: a segment that begins earlier is appended as if it were new.
InOrderOrOlder(s) ==
  /\ s.kind # "RST" /\ tcp_state = "ESTAB" /\ Dist(tcp_rcv_nxt, s.seq) < Mod \div 2
  /\ Take(s) /\ SendAck(tcp_rcv_nxt')

InOrder(s) ==
  s.kind # "RST" /\ tcp_state = "ESTAB" /\ s.seq = tcp_rcv_nxt /\ Take(s) /\ SendAck(tcp_rcv_nxt')

\* Bug: the FIN is looked at before the sequence number.
OutOfOrderFin(s) ==
  /\ s.kind # "RST" /\ tcp_state = "ESTAB" /\ s.seq # tcp_rcv_nxt
  /\ SendAck(tcp_rcv_nxt) /\ tcp_state' = IF s.fin THEN "FIN" ELSE "ESTAB"
  /\ UNCHANGED <<client, tcp_rcv_nxt, tcp_asm, result, srv>>

\* Bug: what arrives is acknowledged, whether it is kept or not.
OutOfOrderAcked(s) ==
  /\ s.kind # "RST" /\ tcp_state = "ESTAB" /\ s.seq # tcp_rcv_nxt
  /\ SendAck((s.seq + Len(s.data)) % Mod)
  /\ UNCHANGED <<client, conn, result, srv>>

\* Bug: what arrives again is not acknowledged again.
OutOfOrderSilent(s) ==
  /\ s.kind # "RST" /\ tcp_state = "ESTAB" /\ s.seq # tcp_rcv_nxt
  /\ UNCHANGED vars

OutOfOrder(s) ==
  /\ s.kind # "RST" /\ tcp_state = "ESTAB" /\ s.seq # tcp_rcv_nxt
  /\ SendAck(tcp_rcv_nxt)
  /\ UNCHANGED <<client, conn, result, srv>>

Handle(s) == Reset(s) \/ SynAck(s) \/ InOrder(s) \/ OutOfOrder(s)

----------------------------------------------------------------------------
(* net_http_get.                                                           *)

Returns(code, body) == pc' = "off" /\ result' = [code |-> code, body |-> body]

\* A call's beginning, with the look-up of the host's name.
NoSuchHost ==
  /\ pc = "off" /\ call + 1 \in Calls
  /\ call' = call + 1 /\ tcp_state' = "IDLE" /\ tcp_asm' = <<>>
  /\ Returns(-2, <<>>)
  /\ UNCHANGED <<port, tcp_rcv_nxt, up, srv>>

Connect(p) ==
  /\ pc = "off" /\ call + 1 \in Calls
  /\ call' = call + 1 /\ port' = [port EXCEPT ![call + 1] = p]
  /\ tcp_state' = "SYN_SENT" /\ tcp_asm' = <<>>
  /\ up' = {u \in up : u.kind # "ACK"} \cup {[call |-> call + 1, kind |-> "SYN", ack |-> 0]}
  /\ pc' = "syn" /\ result' = Nothing /\ UNCHANGED <<tcp_rcv_nxt, srv>>

Established ==
  /\ pc = "syn" /\ tcp_state = "ESTAB" /\ pc' = "wait"
  /\ up' = up \cup {[call |-> call, kind |-> kind, ack |-> tcp_rcv_nxt] : kind \in {"ACK", "GET"}}
  /\ UNCHANGED <<call, port, conn, result, srv>>

\* 8000 ticks have passed, or the connection is up and down again.
NotEstablished ==
  /\ pc = "syn" /\ tcp_state # "ESTAB" /\ Returns(-3, <<>>)
  /\ UNCHANGED <<call, port, conn, up, srv>>

BodyOffset(buf) ==
  LET at(kind) == {i \in DOMAIN buf : buf[i] = kind}
      first(S) == CHOOSE i \in S : \A j \in S : i <= j
  IN  IF at(CRLF2) # {} THEN first(at(CRLF2)) ELSE IF at(LF2) # {} THEN first(at(LF2)) ELSE -1

Finish == pc' = "close" /\ UNCHANGED <<call, port, conn, result, up, srv>>

Stop   == pc = "wait" /\ (tcp_state \in {"IDLE", "FIN"} \/ Len(tcp_asm) >= AsmMax - Margin) /\ Finish

\* 20000 ticks have passed, or 500 turns of the loop since the header was complete.
GiveUp == pc = "wait" /\ Finish

\* The loop of 100 turns after the FIN is over.
Deliver ==
  /\ pc = "close"
  /\ LET off  == BodyOffset(tcp_asm)
         body == SubSeq(tcp_asm, off + 1, Len(tcp_asm))
         kept == SubSeq(body, 1, IF Len(body) > OutCap - 1 THEN OutCap - 1 ELSE Len(body))
     IN  IF tcp_asm = <<>> THEN Returns(-4, <<>>)
         ELSE IF off < 0 THEN Returns(-5, <<>>) ELSE Returns(Len(kept), kept)
  /\ UNCHANGED <<call, port, conn, up, srv>>

Init ==
  /\ pc = "off" /\ call = 0 /\ port = [n \in Calls |-> NoPort]
  /\ tcp_state = "IDLE" /\ tcp_rcv_nxt = 0 /\ tcp_asm = <<>>
  /\ result = Nothing /\ up = {} /\ srv = [n \in Calls |-> Unborn]

Client == NoSuchHost \/ Established \/ NotEstablished \/ Stop \/ GiveUp \/ Deliver
          \/ \E p \in Ports : Connect(p)
Server(n) == Serve(n) \/ TakeAck(n) \/ Abort(n)
             \/ \E iss \in ServerISS, page \in Pages : Accept(n, iss, page)
Next == Client \/ (\E n \in Calls : Server(n)) \/ (\E s \in Arriving : Handle(s))

Spec == Init /\ [][Next]_vars

(* For progress it matters that ACKs get lost: the client must send them   *)
(* again.  The client's loops go on, and a server sends again what begins  *)
(* where the acknowledged part ends; of all that is sent again and again,  *)
(* some arrives.  Giving up is never forced.                               *)
Lose(u) ==
  /\ u.kind = "ACK" /\ up' = up \ {u}
  /\ UNCHANGED <<client, conn, result, srv>>

Retransmitted == \E s \in Arriving :
  s.kind = "DATA" /\ s.seq = (srv[call].iss + 1 + srv[call].una) % Mod
  /\ (s.data # <<>> \/ s.fin) /\ Handle(s)

Acked == \E n \in Calls : TakeAck(n)

FairSpec ==
  /\ Init /\ [][Next \/ \E u \in up : Lose(u)]_vars
  /\ WF_vars(Stop) /\ SF_vars(Retransmitted) /\ SF_vars(Acked)

----------------------------------------------------------------------------
TypeOK ==
  /\ pc \in {"off", "syn", "wait", "close"} /\ call \in {0} \cup Calls
  /\ port \in [Calls -> Ports \cup {NoPort}]
  /\ tcp_state \in {"IDLE", "SYN_SENT", "ESTAB", "FIN"} /\ tcp_rcv_nxt \in 0 .. Mod - 1
  /\ tcp_asm \in Seq(Tokens) /\ Len(tcp_asm) < AsmMax
  /\ result \in [code : Int, body : Seq(Tokens)] /\ Len(result.body) < OutCap
  /\ up \subseteq [call : Calls, kind : {"SYN", "ACK", "GET"}, ack : 0 .. Mod - 1]
  /\ srv \in [Calls -> [st : {"none", "synced", "served"}, iss : {0} \cup ServerISS,
                        page : Pages \cup {<<>>}, una : Nat, reset : BOOLEAN]]

IsPrefixOf(s, t) == Len(s) <= Len(t) /\ s = SubSeq(t, 1, Len(s))

\* No earlier call used this call's port.
FreshPort == \A n \in Calls : n < call => port[n] # port[call]

Body(page) == SubSeq(page, HeaderLen(page) + 1, Len(page))

(* A call that succeeds hands over a part of what the server answered to   *)
(* it, from its beginning and without gaps, repetitions or anything of     *)
(* another page, whatever order net_handle_tcp sees the segments in.       *)
BodyIsPrefix == pc = "off" /\ result.code >= 0 /\ call > 0 /\ FreshPort
                  => IsPrefixOf(result.body, Body(srv[call].page))

(* After a FIN it is all of it, as far as the two buffers hold it: a FIN   *)
(* that overtakes data must not end the connection.                        *)
FinMeansWhole ==
  pc = "off" /\ result.code >= 0 /\ tcp_state = "FIN" /\ FreshPort =>
    LET page == srv[call].page
        room == AsmMax - 1 - HeaderLen(page)
        most == IF OutCap - 1 < room THEN OutCap - 1 ELSE room
    IN  result.code = IF Len(Body(page)) < most THEN Len(Body(page)) ELSE most

(* Even when a port is used again and old segments answer the new SYN,     *)
(* tcp_asm holds (part of) one page and never a mixture of two.            *)
OnePage == call > 0 /\ tcp_asm # <<>> =>
  \E n \in Calls : port[n] = port[call] /\ IsPrefixOf(tcp_asm, srv[n].page)

(* What is handed over is the right page, of what came in nothing is of    *)
(* another, and after a FIN nothing is missing.  net_handle_tcp and the    *)
(* end of net_http_get.                                                    *)
RightPage == BodyIsPrefix /\ FinMeansWhole /\ OnePage

(* What the server may forget because it was acknowledged, the client has, *)
(* unless its buffer is full: only then does net_handle_tcp acknowledge    *)
(* what it drops.                                                          *)
AckedIsKept ==
  \A n \in Calls : n = call /\ FreshPort /\ srv[n].st = "served" =>
    \/ srv[n].una <= Len(tcp_asm)
    \/ Len(tcp_asm) = AsmMax - 1
    \/ srv[n].una = Len(tcp_asm) + 1 /\ tcp_asm = srv[n].page

(* Once the GET has arrived and nobody gives up or aborts, the page comes  *)
(* in: a lost or overtaken segment does not stall the connection.          *)
PageArrives ==
  \A n \in Calls : [](pc = "wait" /\ call = n /\ FreshPort /\ srv[n].st = "served" => <>(pc # "wait"))
=============================================================================
