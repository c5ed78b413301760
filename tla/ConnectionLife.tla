--------------------------- MODULE ConnectionLife ---------------------------
(***************************************************************************)
(* What the chat server promises its clients about sessions: a connection  *)
(* is refused only while no session object is free, otherwise it leases    *)
(* one object of the pool, which serves nobody else until the connection's *)
(* socket is closed and the chat room no longer knows it.  The promise     *)
(* ends when an object is handed out while something of its last lease     *)
(* still refers to it.                                                     *)
(***************************************************************************)
CONSTANTS Conns, Sessions

VARIABLES
  fresh,  \* the connections that have not arrived
  open,   \* those whose socket is open
  known,  \* those that a chat message is sent to
  lease,  \* which object serves which connection
  pool,   \* the free objects
  ok      \* the promise still stands

vars == <<fresh, open, known, lease, pool, ok>>

Init ==
  /\ fresh = Conns
  /\ open = {} /\ known = {} /\ lease = {}
  /\ pool = Sessions
  /\ ok = TRUE

Leased(c) == \E s \in Sessions : <<c, s>> \in lease

Arrive(c) ==
  /\ c \in fresh
  /\ fresh' = fresh \ {c}
  /\ open' = open \cup {c}
  /\ UNCHANGED <<known, lease, pool>>

Refuse(c) ==
  /\ c \in open /\ ~Leased(c) /\ pool = {}
  /\ open' = open \ {c}
  /\ UNCHANGED <<fresh, known, lease, pool>>

Lease(c, s) ==
  /\ c \in open /\ ~Leased(c) /\ s \in pool
  /\ pool' = pool \ {s}
  /\ lease' = lease \cup {<<c, s>>}
  /\ UNCHANGED <<fresh, open, known>>

Enter(c) ==
  /\ c \in open /\ Leased(c)
  /\ known' = known \cup {c}
  /\ UNCHANGED <<fresh, open, lease, pool>>

Close(c) ==
  /\ c \in open /\ Leased(c)
  /\ open' = open \ {c}
  /\ UNCHANGED <<fresh, known, lease, pool>>

Leave(c) ==
  /\ c \in known \ open
  /\ known' = known \ {c}
  /\ UNCHANGED <<fresh, open, lease, pool>>

Return(c, s) ==
  /\ <<c, s>> \in lease /\ c \notin open \cup known
  /\ lease' = lease \ {<<c, s>>}
  /\ pool' = pool \cup {s}
  /\ UNCHANGED <<fresh, open, known>>

Kept ==
  \E c \in Conns :
    \/ Arrive(c) \/ Refuse(c) \/ Enter(c) \/ Close(c) \/ Leave(c)
    \/ \E s \in Sessions : Lease(c, s) \/ Return(c, s)

Next == ~ok' \/ (ok /\ ok' /\ Kept)

Spec == Init /\ [][Next]_vars

(* An object is free or serves one connection, a connection has one object *)
(* at most, and the chat room knows only connections that have one.        *)
Exclusive ==
  ok =>
    /\ \A s \in Sessions : s \in pool \/ \E c \in Conns : <<c, s>> \in lease
    /\ \A p, q \in lease : p[1] = q[1] \/ p[2] = q[2] => p = q
    /\ \A p \in lease : p[2] \notin pool
    /\ \A c \in known : Leased(c)
=============================================================================
