---------------------------- MODULE UserAccounts ----------------------------
(***************************************************************************)
(* User accounting (src/util/user.c): what a user has left of a resource,  *)
(* who uses how much of it, and the charge objects that remember what has  *)
(* to be given back.                                                       *)
(*                                                                         *)
(* A User is kept alive by its holders (peers, queued messages) and by its *)
(* UserUsage objects; a UserUsage, one per user and acting uid, by the     *)
(* UserCharge objects that refer to it.  Holders keep their charges        *)
(* themselves, with one exception: a reply slot that runs into the quota   *)
(* is not freed (src/bus/reply.c).                                         *)
(***************************************************************************)
EXTENDS Naturals, FiniteSets, Collections

CONSTANTS Uids,        \* uids of users and actors
          Accounted,   \* the users among them that are charged
          Slots,       \* accounted resources, USER_SLOT_*
          Maximum,     \* UserRegistry.maxima, per slot
          Charges,     \* UserCharge objects
          Amounts,     \* amounts that are charged
          MaxHolders,  \* bound: direct references to a user
          UintMax      \* largest unsigned int

ASSUME AccountsAssumption ==
    /\ IsFiniteSet(Uids)
    /\ Accounted \subseteq Uids
    /\ IsFiniteSet(Charges)
    /\ UintMax \in Nat
    /\ Maximum \in [Slots -> 0 .. UintMax]
    /\ Amounts \subseteq 1 .. UintMax
    /\ MaxHolders \in Nat

VARIABLES
    holders,   \* direct references to the User of each uid
    n,         \* User.slots[].n: what is left
    usages,    \* User.usage_tree: the acting uids in it
    n_usages,  \* User.n_usages
    n_refs,    \* UserUsage.n_refs
    share,     \* UserUsage.slots[]: what an actor uses of a user
    charge,    \* UserCharge: user, actor, slot and amount, or Unused
    leaked     \* charges whose owner is neither linked nor freed

avars == <<holders, n, usages, n_usages, n_refs, share, charge, leaked>>

Unused == [usage |-> FALSE]
Charged(u, a, s, amount) ==
    [usage |-> TRUE, user |-> u, actor |-> a, slot |-> s, charge |-> amount]

\* The User object of u is in the registry's user_tree.
Exists(u) == holders[u] > 0 \/ usages[u] # {}

-----------------------------------------------------------------------------
(* The quota *)

\* Faulty variant: nothing checks for overflow.
WithinQuotaWraps(remaining, users, used, amount) ==
    ((used + amount) * (users + 1)) % (UintMax + 1) <= remaining + used

\* Faulty variant: what the actor uses already counts against it twice.
WithinQuotaStingy(remaining, users, used, amount) ==
    (used + amount) * (users + 1) <= remaining

\* user_charge_check(): the three operations must not overflow.
WithinQuota(remaining, users, used, amount) ==
    LET sum == used + amount
        product == sum * (users + 1)
    IN  /\ sum <= UintMax
        /\ product <= UintMax
        /\ product - used <= remaining

\* Whether actor a may charge amount on user u.  For itself u only needs to
\* have it left; n_usages counts the actor, whose usage was looked up before.
Allowed(u, a, s, amount, users) ==
    IF u = a THEN amount <= n[u][s]
    ELSE WithinQuota(n[u][s], users, share[u][a][s], amount)

-----------------------------------------------------------------------------
(* user_charge() *)

\* A charge object is unused, or used for the same user, actor and slot.
Usable(c, u, a, s) ==
    \/ charge[c] = Unused
    \/ /\ charge[c].usage
       /\ charge[c].user = u /\ charge[c].actor = a /\ charge[c].slot = s
       /\ c \notin leaked

\* user_ref_usage(): the usage of a is created if need be, and c refers to it.
RefUsage(c, u, a) ==
    /\ usages' = [usages EXCEPT ![u] = @ \cup {a}]
    /\ n_usages' = [n_usages EXCEPT ![u] = IF a \in usages[u] THEN @ ELSE @ + 1]
    /\ n_refs' = [n_refs EXCEPT ![u][a] = IF charge[c].usage THEN @ ELSE @ + 1]

Users(u, a) == IF a \in usages[u] THEN n_usages[u] ELSE n_usages[u] + 1

Amount(c) == IF charge[c].usage THEN charge[c].charge ELSE 0

Charge(c, u, a, s, amount) ==
    /\ holders[u] > 0 /\ holders[a] > 0
    /\ Usable(c, u, a, s)
    /\ Allowed(u, a, s, amount, Users(u, a))
    /\ RefUsage(c, u, a)
    /\ n' = [n EXCEPT ![u][s] = @ - amount]
    /\ share' = [share EXCEPT ![u][a][s] = @ + amount]
    /\ charge' = [charge EXCEPT ![c] = Charged(u, a, s, Amount(c) + amount)]
    /\ UNCHANGED <<holders, leaked>>

\* USER_E_QUOTA: nothing is charged, but the charge object refers to the usage
\* from now on.  Its owner frees it as if it had been charged.
Refuse(c, u, a, s, amount) ==
    /\ holders[u] > 0 /\ holders[a] > 0
    /\ Usable(c, u, a, s)
    /\ ~Allowed(u, a, s, amount, Users(u, a))
    /\ RefUsage(c, u, a)
    /\ charge' = [charge EXCEPT ![c] = Charged(u, a, s, Amount(c))]
    /\ UNCHANGED <<holders, n, share, leaked>>

\* reply_slot_new(): on USER_E_QUOTA the slot that holds the charge is neither
\* linked nor freed.
RefuseReplySlot(c, u, a, s, amount) ==
    /\ holders[u] > 0 /\ holders[a] > 0
    /\ charge[c] = Unused
    /\ ~Allowed(u, a, s, amount, Users(u, a))
    /\ RefUsage(c, u, a)
    /\ charge' = [charge EXCEPT ![c] = Charged(u, a, s, 0)]
    /\ leaked' = leaked \cup {c}
    /\ UNCHANGED <<holders, n, share>>

\* Faulty variant: the usage keeps what the charge gives back to the user.
DeinitKeepsShare(c) ==
    LET u == charge[c].user
        a == charge[c].actor
        last == n_refs[u][a] = 1
    IN  /\ charge[c].usage
        /\ c \notin leaked
        /\ n' = [n EXCEPT ![u][charge[c].slot] = @ + charge[c].charge]
        /\ n_refs' = [n_refs EXCEPT ![u][a] = @ - 1]
        /\ usages' = IF last THEN [usages EXCEPT ![u] = @ \ {a}] ELSE usages
        /\ n_usages' = IF last THEN [n_usages EXCEPT ![u] = @ - 1] ELSE n_usages
        /\ charge' = [charge EXCEPT ![c] = Unused]
        /\ UNCHANGED <<holders, share, leaked>>

\* user_charge_deinit(), with user_usage_free() for the last reference.
Deinit(c) ==
    LET u == charge[c].user
        a == charge[c].actor
        last == n_refs[u][a] = 1
    IN  /\ charge[c].usage
        /\ c \notin leaked
        /\ n' = [n EXCEPT ![u][charge[c].slot] = @ + charge[c].charge]
        /\ share' = [share EXCEPT ![u][a][charge[c].slot] = @ - charge[c].charge]
        /\ n_refs' = [n_refs EXCEPT ![u][a] = @ - 1]
        /\ usages' = IF last THEN [usages EXCEPT ![u] = @ \ {a}] ELSE usages
        /\ n_usages' = IF last THEN [n_usages EXCEPT ![u] = @ - 1] ELSE n_usages
        /\ charge' = [charge EXCEPT ![c] = Unused]
        /\ UNCHANGED <<holders, leaked>>

-----------------------------------------------------------------------------
(* References to users *)

\* user_registry_ref_user() and user_ref(); user_new() sets what is left.
RefUser(u) ==
    /\ holders[u] < MaxHolders
    /\ holders' = [holders EXCEPT ![u] = @ + 1]
    /\ n' = IF Exists(u) THEN n ELSE [n EXCEPT ![u] = Maximum]
    /\ UNCHANGED <<usages, n_usages, n_refs, share, charge, leaked>>

\* user_unref() by a holder, which has freed what it was charged for.  The User
\* is freed if no usage refers to it.
UnrefUser(u) ==
    /\ holders[u] > 0
    /\ holders' = [holders EXCEPT ![u] = @ - 1]
    /\ UNCHANGED <<n, usages, n_usages, n_refs, share, charge, leaked>>

-----------------------------------------------------------------------------
AInit ==
    /\ holders = [u \in Uids |-> 0]
    /\ n = [u \in Uids |-> Maximum]
    /\ usages = [u \in Uids |-> {}]
    /\ n_usages = [u \in Uids |-> 0]
    /\ n_refs = [u \in Uids |-> [a \in Uids |-> 0]]
    /\ share = [u \in Uids |-> [a \in Uids |-> [s \in Slots |-> 0]]]
    /\ charge = [c \in Charges |-> Unused]
    /\ leaked = {}

ANext ==
    \/ \E c \in Charges, u \in Accounted, a \in Uids, s \in Slots, amount \in Amounts :
          \/ Charge(c, u, a, s, amount)
          \/ Refuse(c, u, a, s, amount)
          \/ RefuseReplySlot(c, u, a, s, amount)
    \/ \E c \in Charges : Deinit(c)
    \/ \E u \in Uids : RefUser(u) \/ UnrefUser(u)

ASpec == AInit /\ [][ANext]_avars

-----------------------------------------------------------------------------
(* Properties *)

ATypeOK ==
    /\ holders \in [Uids -> 0 .. MaxHolders]
    /\ n \in [Uids -> [Slots -> 0 .. UintMax]]
    /\ usages \in [Uids -> SUBSET Uids]
    /\ n_usages \in [Uids -> Nat]
    /\ n_refs \in [Uids -> [Uids -> Nat]]
    /\ share \in [Uids -> [Uids -> [Slots -> 0 .. UintMax]]]
    /\ charge \in [Charges -> {Unused} \cup
                             {Charged(u, a, s, amount) : u \in Uids, a \in Uids,
                                 s \in Slots, amount \in 0 .. UintMax}]
    /\ leaked \subseteq Charges

\* The charges of a on u, and how much of s one of them is for.
ChargesOn(u, a) == {c \in Charges : charge[c].usage /\ charge[c].user = u
                                                    /\ charge[c].actor = a}
Part(c, u, a, s) ==
    IF c \in ChargesOn(u, a) /\ charge[c].slot = s THEN charge[c].charge ELSE 0

ChargedOn(u, a, s) == SumOf([c \in Charges |-> Part(c, u, a, s)], Charges)

\* What everyone uses of slot s of u.
ShareOn(u, s) == [a \in Uids |-> share[u][a][s]]

\* A usage is in the tree, and counted, as long as a charge refers to it.
UsagesCounted ==
    \A u \in Uids :
        /\ n_usages[u] = Cardinality(usages[u])
        /\ \A a \in Uids : /\ n_refs[u][a] = Cardinality(ChargesOn(u, a))
                           /\ a \in usages[u] <=> n_refs[u][a] > 0

\* A usage has what its charges say.
SharesBalance ==
    \A u, a \in Uids, s \in Slots : share[u][a][s] = ChargedOn(u, a, s)

\* A user has left what no usage has.
UsersBalance ==
    \A u \in Uids, s \in Slots : n[u][s] + SumOf(ShareOn(u, s), Uids) = Maximum[s]

\* The books balance on both sides, and no amount wraps: a usage has what its
\* charges say and lives as long as one of them, and the user has left what no
\* usage has.  This is what user_usage_free() and user_free() assert at the end.
BooksBalance == ATypeOK /\ UsagesCounted /\ SharesBalance /\ UsersBalance

\* Other users together, however many and in whatever order they charge and
\* release, never hold more than k/(k+1) of a user's resources, k being their
\* number: "available resources of a peer cannot be exhausted by remote UIDs".
RemotesCannotExhaust ==
    \A u \in Uids, s \in Slots : \A S \in SUBSET (Uids \ {u}) :
        LET k == Cardinality(S)
            held == SumOf(ShareOn(u, s), S)
        IN  held * (k + 1) <= k * Maximum[s]

\* A remote user is never refused what keeps it below 1/(k * (k + 1)) of the
\* resources, k being the number of actors, unless the user itself has taken
\* them: the guarantee of "between 1/n and 1/n^2" with n = k + 1.
SmallSharesAreGranted ==
    \A u \in Uids, s \in Slots, amount \in Amounts : \A a \in Uids \ {u} :
        LET k == Users(u, a)
            used == share[u][a][s] + amount
        IN  /\ used * k * (k + 1) + k * share[u][u][s] <= Maximum[s]
            /\ used * (k + 1) <= UintMax
            => Allowed(u, a, s, amount, k)

\* "All user elements instantiated from the registry must have been destroyed
\* before the registry is deinitialized": they are, once nobody holds a user
\* and whoever can free a charge has done so.
UsersDestroyed ==
    (\A u \in Uids : holders[u] = 0) /\ (\A c \in Charges \ leaked : charge[c] = Unused)
        => \A u \in Uids : ~Exists(u)

=============================================================================
