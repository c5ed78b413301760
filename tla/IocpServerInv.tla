--------------------------- MODULE IocpServerInv ---------------------------
(***************************************************************************)
(* The inductive invariant behind the session properties of IocpServer.    *)
(* Its parts say who may refer to a session object in each phase of its    *)
(* life; all of them hold until an object is reused while something still  *)
(* points at it (clean becomes FALSE).                                     *)
(***************************************************************************)
EXTENDS IocpServer

Registered(s) == \E c \in Conns : table[c] = s
InPool(s)     == \E i \in 1 .. Len(free) : free[i] = s

(* Worker w's handler is the only thing that refers to s.                  *)
OnlyHandlerOf(w, s) ==
  /\ ~Pending(s)
  /\ \A v \in Workers :
       /\ v # w => hand[v].s # s
       /\ snd[v].s # s
       /\ cls[v].s # s
       /\ \A c \in Conns : <<c, s>> \notin hand[v].targets

(* An object just acquired is private until it is in the table.            *)
FreshInv ==
  \A w \in Workers : hand[w].at \in {"setup", "register"} =>
    /\ OnlyHandlerOf(w, hand[w].s)
    /\ ~Registered(hand[w].s)
    /\ ~InPool(hand[w].s)

(* A table entry is under the id its session has.                          *)
TableInv ==
  \A c \in Conns, s \in Sessions : table[c] = s => conn[s] = c

(* A free object is unregistered and on the stack once; whatever still     *)
(* refers to it finds "closing" set.                                       *)
PoolInv ==
  /\ \A i, j \in 1 .. Len(free) : free[i] = free[j] => i = j
  /\ \A s \in Sessions : InPool(s) => ~Registered(s)
  /\ \A s \in Sessions : InPool(s) /\ Referenced(s) => closing[s]

(* The one worker that closes an object owns it until it is released.      *)
CloserInv ==
  /\ \A v, w \in Workers, s \in Sessions : Closer(v, s) /\ Closer(w, s) => v = w
  /\ \A w \in Workers, s \in Sessions : Closer(w, s) => closing[s] /\ ~InPool(s)
  /\ \A w \in Workers, s \in Sessions :
       cls[w].s = s /\ cls[w].at = "release" => ~Registered(s)

(* Whoever has the send token finds "sending" set.                         *)
SendingInv ==
  \A s \in Sessions :
    /\ \A w \in Workers : SendHolder(w, s) => sending[s]
    /\ \A c \in Conns : sends[s][c] > 0 => sending[s]

(* Data on its way into the ring is the data of the session's connection.  *)
OriginInv ==
  /\ \A s \in Sessions, c \in Conns : recvs[s][c] > 0 => conn[s] = c
  /\ \A w \in Workers : hand[w].at = "append" => hand[w].c = conn[hand[w].s]

(* Who owns a session object in each phase of its life.                    *)
ObjectInv == FreshInv /\ TableInv /\ PoolInv /\ CloserInv

(* The inductive invariant of the session properties.                      *)
SessionInv ==
  /\ RecvExclusive
  /\ SendExclusive
  /\ Attribution
  /\ clean => ObjectInv /\ SendingInv /\ OriginInv
=============================================================================
