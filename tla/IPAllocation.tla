---------------------------- MODULE IPAllocation ----------------------------
(***************************************************************************)
(* The addresses of the sandboxes: AllocateIP and ReleaseIP of             *)
(* internal/store/ip_allocation.go, as setupNetNS and teardownNetNS of     *)
(* internal/sandbox/manager.go and initializeUser of the web server call   *)
(* them.  AllocateIP is three SQL statements and no transaction, so calls  *)
(* interleave between them.  100.64.a.b is the number a * 256 + b: the     *)
(* gateway is 1, and 0 stands for the empty column.                        *)
(***************************************************************************)
EXTENDS Naturals, Sequences, SequencesExt

CONSTANTS Users,
          MaxIP,        \* the highest address handed out: 65533 in the code
          Hash          \* the fallback address computed from each user name

VARIABLES rows,      \* local_users in the order of id
          ip,        \* column ip
          call,      \* the call of AllocateIP made for each user
          addr,      \* the address of each user's running sandbox, 0 for none
          refused    \* the last call answered that the pool is exhausted

vars == <<rows, ip, call, addr, refused>>

NoCall == [pc |-> "none", for |-> "init", ip |-> 0]

Init == /\ rows = <<>>
        /\ ip = [u \in Users |-> 0]
        /\ call = [u \in Users |-> NoCall]
        /\ addr = [u \in Users |-> 0]
        /\ refused = FALSE

Listed == ToSet(rows)
Holding == {u \in Listed : ip[u] # 0}
Calling == {u \in Users : call[u].pc # "none"}

-----------------------------------------------------------------------------
(* The users                                                               *)

\* A new user's row; initializeUser goes on to allocate.
AddUser(u) == /\ u \notin Listed /\ call[u] = NoCall
              /\ rows' = Append(rows, u)
              /\ call' = [call EXCEPT ![u] = [pc |-> "own", for |-> "init", ip |-> 0]]
              /\ refused' = FALSE
              /\ UNCHANGED <<ip, addr>>

\* A login initializes the user again.
Login(u) == /\ u \in Listed /\ call[u] = NoCall
            /\ call' = [call EXCEPT ![u] = [pc |-> "own", for |-> "init", ip |-> 0]]
            /\ refused' = FALSE
            /\ UNCHANGED <<rows, ip, addr>>

\* A sandbox of the user goes on.
DeleteUser(u) == /\ \E i \in DOMAIN rows : rows[i] = u /\ rows' = RemoveAt(rows, i)
                 /\ ip' = [ip EXCEPT ![u] = 0]
                 /\ refused' = FALSE
                 /\ UNCHANGED <<call, addr>>

-----------------------------------------------------------------------------
(* The sandboxes                                                           *)

\* setupNetNS asks for an address; one sandbox of a user at a time.
Setup(u) == /\ u \in Listed /\ addr[u] = 0 /\ call[u] = NoCall
            /\ call' = [call EXCEPT ![u] = [pc |-> "own", for |-> "sandbox", ip |-> 0]]
            /\ refused' = FALSE
            /\ UNCHANGED <<rows, ip, addr>>

\* teardownNetNS: the interface goes and the column is emptied.
Teardown(u) == /\ addr[u] # 0
               /\ addr' = [addr EXCEPT ![u] = 0]
               /\ ip' = [ip EXCEPT ![u] = 0]
               /\ refused' = FALSE
               /\ UNCHANGED <<rows, call>>

-----------------------------------------------------------------------------
(* AllocateIP                                                              *)

\* What the caller does with the answer: setupNetNS gives it to the sandbox.
Answer(u, n) == /\ call' = [call EXCEPT ![u] = NoCall]
                /\ addr' = IF call[u].for = "sandbox" THEN [addr EXCEPT ![u] = n] ELSE addr

\* The user keeps an address it has.
ReadOwn(u) == /\ call[u].pc = "own"
              /\ IF u \in Listed /\ ip[u] # 0
                 THEN Answer(u, ip[u])
                 ELSE /\ call' = [call EXCEPT ![u].pc = "last"]
                      /\ UNCHANGED addr
              /\ refused' = FALSE
              /\ UNCHANGED <<rows, ip>>

Allocated(i) == ip[rows[i]] # 0

\* Oldest first: ORDER BY id instead of ORDER BY id DESC.
Base_oldest ==
    IF Holding = {} THEN 1
    ELSE ip[rows[CHOOSE i \in DOMAIN rows :
                     Allocated(i) /\ \A k \in DOMAIN rows : Allocated(k) => i <= k]]

\* The address of the newest user that has one, and the gateway if none has.
Base ==
    IF Holding = {} THEN 1
    ELSE ip[rows[CHOOSE i \in DOMAIN rows :
                     Allocated(i) /\ \A k \in DOMAIN rows : Allocated(k) => k <= i]]

\* Past the end of the pool the call fails, and userIP falls back on the hash.
ReadLast(u) ==
    /\ call[u].pc = "last"
    /\ IF Base < MaxIP
       THEN /\ call' = [call EXCEPT ![u].pc = "write", ![u].ip = Base + 1]
            /\ refused' = FALSE
            /\ UNCHANGED addr
       ELSE Answer(u, Hash[u]) /\ refused' = TRUE
    /\ UNCHANGED <<rows, ip>>

\* The UPDATE finds no row when the user was deleted meanwhile.
Write(u) == /\ call[u].pc = "write"
            /\ ip' = IF u \in Listed THEN [ip EXCEPT ![u] = call[u].ip] ELSE ip
            /\ Answer(u, call[u].ip)
            /\ refused' = FALSE
            /\ UNCHANGED rows

-----------------------------------------------------------------------------
Ask(u) == AddUser(u) \/ Login(u) \/ Setup(u)
Allocate(u) == ReadOwn(u) \/ ReadLast(u) \/ Write(u)
Free(u) == DeleteUser(u) \/ Teardown(u)

Step(u) == Ask(u) \/ Allocate(u) \/ Free(u)

\* One call at a time, and nothing is freed.
Grow(u) == (Calling = {} /\ Ask(u)) \/ Allocate(u)

Next == \E u \in Users : Step(u)

Spec == Init /\ [][Next]_vars

-----------------------------------------------------------------------------
(* Properties                                                              *)

\* Neither the gateway nor an address past the end of the pool is ever given
\* to a user or to a sandbox (ip_allocation.go:43 "skip .0.0 and .0.1, at most
\* 65533 addresses").
TypeOK == /\ rows \in Seq(Users) /\ IsInjective(rows)
          /\ ip \in [Users -> {0} \union 2..MaxIP]
          /\ addr \in [Users -> {0} \union 2..MaxIP]
          /\ call \in [Users -> [pc : {"none", "own", "last", "write"},
                                 for : {"init", "sandbox"}, ip : {0} \union 2..MaxIP]]
          /\ refused \in BOOLEAN

\* No two users have the same address ("a unique address in 100.64.0.0/16",
\* ip_allocation.go:8).
UniqueIPs == \A u, v \in Holding : u # v => ip[u] # ip[v]

\* The pool is called exhausted only when every address of it is taken
\* ("the pool of addresses is exhausted", ip_allocation.go:48).
FullWhenRefused == refused => {ip[u] : u \in Holding} = 2..MaxIP
=============================================================================
