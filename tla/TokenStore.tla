----------------------------- MODULE TokenStore -----------------------------
(***************************************************************************)
(* What the rest of zombiescan relies on from azure.Credential: a table    *)
(* of ARM tokens by cache key, filled one `az` process at a time, in which *)
(* a token that still has SKEW seconds to live is never minted again.      *)
(***************************************************************************)
EXTENDS Integers

CONSTANTS
  Tenants,         \* the directories the operator can sign in to
  Keys,            \* cache keys; every tenant is one
  Lifetimes,       \* seconds a token lives when `az` returns it
  SKEW,            \* Credential.SKEW
  NoToken,         \* a key that holds nothing yet
  None             \* no mint in progress

VARIABLES
  now,             \* the clock, in seconds
  held,            \* held[k]: the token stored under k
  minting          \* the key an `az` process is minting for, or None

vars == <<now, held, minting>>

Token == [tenant: Tenants, expires: Nat]

\* Credential._expiring, negated, for a key that may hold nothing.
Usable(tok) == tok # NoToken /\ now < tok.expires - SKEW

Init ==
  /\ now = 0
  /\ held = [k \in Keys |-> NoToken]
  /\ minting = None

Tick == now' = now + 1 /\ UNCHANGED <<held, minting>>

\* An `az` process starts: none is running, and the key needs a token.
StartMint(k) ==
  /\ minting = None
  /\ ~Usable(held[k])
  /\ minting' = k
  /\ UNCHANGED <<now, held>>

\* The token arrives. It may also be filed under the tenant it names, when
\* that key holds nothing.
EndMint(tenant, life) ==
  LET tok == [tenant |-> tenant, expires |-> now + life]
      kept == [held EXCEPT ![minting] = tok]
  IN /\ minting \in Keys
     /\ \/ held' = kept
        \/ kept[tenant] = NoToken /\ held' = [kept EXCEPT ![tenant] = tok]
     /\ minting' = None
     /\ UNCHANGED now

\* `az` fails: the table is as it was, and the next caller may try again.
FailMint ==
  /\ minting \in Keys
  /\ minting' = None
  /\ UNCHANGED <<now, held>>

\* A token already held is filed under the tenant it names.
File(k) ==
  /\ minting = None
  /\ held[k] # NoToken
  /\ held[held[k].tenant] = NoToken
  /\ held' = [held EXCEPT ![held[k].tenant] = held[k]]
  /\ UNCHANGED <<now, minting>>

Next ==
  \/ Tick
  \/ \E k \in Keys : StartMint(k) \/ File(k)
  \/ \E tenant \in Tenants, life \in Lifetimes : EndMint(tenant, life)
  \/ FailMint

Spec == Init /\ [][Next]_vars
=============================================================================
