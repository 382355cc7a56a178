----------------------------- MODULE EditLocks -----------------------------
(***************************************************************************)
(* What lock_content and its companions promise the editors of the         *)
(* calendar: each content is free or owned by one user, and it changes     *)
(* hands only by being free in between.  Who may release a lock is left    *)
(* open: the owner, an administrator, or the server when the owner leaves. *)
(***************************************************************************)
CONSTANTS Users, Contents, NoOwner

VARIABLE owner

TypeOK == owner \in [Contents -> Users \cup {NoOwner}]

Init == owner = [k \in Contents |-> NoOwner]

Acquire(u, k) ==
  /\ owner[k] = NoOwner
  /\ owner' = [owner EXCEPT ![k] = u]

Release(k) ==
  /\ owner[k] # NoOwner
  /\ owner' = [owner EXCEPT ![k] = NoOwner]

Next == \E k \in Contents : Release(k) \/ \E u \in Users : Acquire(u, k)

Spec == Init /\ [][Next]_owner
=============================================================================
