----------------------------- MODULE Governance -----------------------------
(***************************************************************************)
(* The key-holding part of the State account (state.rs) and the            *)
(* instructions that change it: initialize, close_state, the two-step boss *)
(* transfer, admins, approvers, worker, kill switch, targeted disable,     *)
(* main offer and ONyc mint.  Each action names the key that signs it.     *)
(***************************************************************************)
EXTENDS Naturals, FiniteSets

CONSTANTS
    Keys,             \* the keys that can sign
    Default,          \* Pubkey::default(), which nobody can sign for
    UpgradeAuthority, \* upgrade authority of the program, Default if it has none
    MAX_ADMINS,       \* slots of State::admins
    Mints,            \* token mints
    Offers,           \* offer accounts
    TokenOut          \* token_out_mint of each offer

ASSUME GovernanceAssumption ==
    /\ Default \notin Keys
    /\ UpgradeAuthority \in Keys \union {Default}
    /\ MAX_ADMINS \in Nat
    /\ Default \notin Mints
    /\ Default \notin Offers
    /\ TokenOut \in [Offers -> Mints]

VARIABLES
    state,      \* the State account, Closed when it does not exist
    disabled,   \* Offer::disabled of each offer
    proposer,   \* history: who made the live boss proposal
    boss_signer \* history: who signed the last change of the boss

vars == <<state, disabled, proposer, boss_signer>>

\* A key field: a key or unset.
Pubkey == Keys \union {Default}

\* State
StateType ==
    [exists : BOOLEAN, boss : Pubkey, proposed_boss : Pubkey, is_killed : BOOLEAN,
     onyc_mint : Mints \union {Default}, admins : [1..MAX_ADMINS -> Pubkey],
     approver1 : Pubkey, approver2 : Pubkey, worker : Pubkey,
     main_offer : Offers \union {Default}]

\* No State account; initialize creates it with every key zeroed.
Closed ==
    [exists |-> FALSE, boss |-> Default, proposed_boss |-> Default,
     is_killed |-> FALSE, onyc_mint |-> Default,
     admins |-> [i \in 1..MAX_ADMINS |-> Default],
     approver1 |-> Default, approver2 |-> Default, worker |-> Default,
     main_offer |-> Default]

Init ==
    /\ state = Closed
    /\ disabled = [o \in Offers |-> FALSE]
    /\ proposer = Default
    /\ boss_signer = Default

-----------------------------------------------------------------------------
\* initialize: by the upgrade authority, by anyone if there is none.
initialize(signer, mint) ==
    /\ ~state.exists
    /\ UpgradeAuthority \in {signer, Default}
    /\ state' = [Closed EXCEPT !.exists = TRUE, !.boss = signer, !.onyc_mint = mint]
    /\ UNCHANGED <<disabled, proposer>>

\* Mutant: the account is marked closed but not wiped.
close_without_wiping(signer) ==
    /\ state.exists /\ signer = state.boss
    /\ state' = [state EXCEPT !.exists = FALSE]
    /\ UNCHANGED <<disabled, proposer>>

\* close_state
close_state(signer) ==
    /\ state.exists /\ signer = state.boss
    /\ state' = Closed
    /\ proposer' = Default
    /\ UNCHANGED disabled

\* The has_one = boss constraint.
signed_by_boss(signer) == state.exists /\ signer = state.boss

\* state.admins.contains
is_admin(k) == \E i \in 1..MAX_ADMINS : state.admins[i] = k

\* propose_boss; the boss may propose itself, and may replace a proposal.
propose_boss(signer, k) ==
    /\ signed_by_boss(signer)
    /\ state' = [state EXCEPT !.proposed_boss = k]
    /\ proposer' = signer
    /\ UNCHANGED disabled

\* Mutant: an accepted proposal stays.
accept_keeping_proposal(signer) ==
    /\ state.exists
    /\ state.proposed_boss # Default
    /\ signer = state.proposed_boss
    /\ state' = [state EXCEPT !.boss = state.proposed_boss]
    /\ UNCHANGED <<disabled, proposer>>

\* Mutant: the signer is not compared with the proposed boss.
accept_by_anyone(signer) ==
    /\ state.exists
    /\ state.proposed_boss # Default
    /\ state' = [state EXCEPT !.boss = state.proposed_boss, !.proposed_boss = Default]
    /\ proposer' = Default
    /\ UNCHANGED disabled

\* accept_boss
accept_boss(signer) ==
    /\ state.exists
    /\ state.proposed_boss # Default
    /\ signer = state.proposed_boss
    /\ state' = [state EXCEPT !.boss = state.proposed_boss, !.proposed_boss = Default]
    /\ proposer' = Default
    /\ UNCHANGED disabled

-----------------------------------------------------------------------------
\* The first admin slot that holds k.
first_slot(k) ==
    CHOOSE i \in 1..MAX_ADMINS :
        state.admins[i] = k /\ \A j \in 1..(i - 1) : state.admins[j] # k

\* Mutant: an admin may be added again.
add_admin_again(signer, k) ==
    /\ signed_by_boss(signer)
    /\ is_admin(Default)
    /\ state' = [state EXCEPT !.admins[first_slot(Default)] = k]
    /\ UNCHANGED <<disabled, proposer>>

\* add_admin.  The default key counts as present while a slot is empty, and
\* with no empty slot there is no room for it: it can never be added.
add_admin(signer, k) ==
    /\ signed_by_boss(signer)
    /\ ~is_admin(k)
    /\ is_admin(Default)
    /\ state' = [state EXCEPT !.admins[first_slot(Default)] = k]
    /\ UNCHANGED <<disabled, proposer>>

\* remove_admin (removing the default key changes nothing).
remove_admin(signer, k) ==
    /\ signed_by_boss(signer)
    /\ is_admin(k)
    /\ state' = [state EXCEPT !.admins[first_slot(k)] = Default]
    /\ UNCHANGED <<disabled, proposer>>

\* clear_admins
clear_admins(signer) ==
    /\ signed_by_boss(signer)
    /\ state' = [state EXCEPT !.admins = Closed.admins]
    /\ UNCHANGED <<disabled, proposer>>

\* add_approver: into the first free of two slots.
add_approver(signer, k) ==
    /\ signed_by_boss(signer)
    /\ k # Default
    /\ k \notin {state.approver1, state.approver2}
    /\ \/ /\ state.approver1 = Default
          /\ state' = [state EXCEPT !.approver1 = k]
       \/ /\ state.approver1 # Default
          /\ state.approver2 = Default
          /\ state' = [state EXCEPT !.approver2 = k]
    /\ UNCHANGED <<disabled, proposer>>

\* remove_approver: from the first slot that holds it.
remove_approver(signer, k) ==
    /\ signed_by_boss(signer)
    /\ k # Default
    /\ \/ /\ state.approver1 = k
          /\ state' = [state EXCEPT !.approver1 = Default]
       \/ /\ state.approver1 # k
          /\ state.approver2 = k
          /\ state' = [state EXCEPT !.approver2 = Default]
    /\ UNCHANGED <<disabled, proposer>>

\* set_worker (the default key unsets it).
set_worker(signer, k) ==
    /\ signed_by_boss(signer)
    /\ k # state.worker
    /\ state' = [state EXCEPT !.worker = k]
    /\ UNCHANGED <<disabled, proposer>>

-----------------------------------------------------------------------------
\* set_kill_switch: the boss or an admin enables it, the boss disables it.
set_kill_switch(signer, enable) ==
    /\ state.exists
    /\ signer = state.boss \/ (enable /\ is_admin(signer))
    /\ state' = [state EXCEPT !.is_killed = enable]
    /\ UNCHANGED <<disabled, proposer>>

\* set_offer_disabled through targeted_disable: boss or admin to disable, boss
\* to enable.  (set_redemption_offer_disabled is the same on its own account.)
set_offer_disabled(signer, o, disable) ==
    /\ state.exists
    /\ signer = state.boss \/ (disable /\ is_admin(signer))
    /\ disabled' = [disabled EXCEPT ![o] = disable]
    /\ UNCHANGED <<state, proposer>>

\* set_main_offer
set_main_offer(signer, o) ==
    /\ signed_by_boss(signer)
    /\ TokenOut[o] = state.onyc_mint
    /\ o # state.main_offer
    /\ state' = [state EXCEPT !.main_offer = o]
    /\ UNCHANGED <<disabled, proposer>>

\* set_onyc_mint; the main offer is not consulted.
set_onyc_mint(signer, mint) ==
    /\ signed_by_boss(signer)
    /\ state' = [state EXCEPT !.onyc_mint = mint]
    /\ UNCHANGED <<disabled, proposer>>

-----------------------------------------------------------------------------
Step(signer) ==
    \/ \E mint \in Mints : initialize(signer, mint)
    \/ close_state(signer)
    \/ \E k \in Keys : propose_boss(signer, k)
    \/ accept_boss(signer)
    \/ \E k \in Keys : add_admin(signer, k)
    \/ \E k \in Pubkey : remove_admin(signer, k)
    \/ clear_admins(signer)
    \/ \E k \in Keys : add_approver(signer, k)
    \/ \E k \in Keys : remove_approver(signer, k)
    \/ \E k \in Pubkey : set_worker(signer, k)
    \/ \E enable \in BOOLEAN : set_kill_switch(signer, enable)
    \/ \E o \in Offers, disable \in BOOLEAN : set_offer_disabled(signer, o, disable)
    \/ \E o \in Offers : set_main_offer(signer, o)
    \/ \E mint \in Mints : set_onyc_mint(signer, mint)

\* An instruction signed by some key, with the key noted if the boss changes.
Next ==
    \E signer \in Keys :
        /\ Step(signer)
        /\ boss_signer' = IF state'.boss # state.boss THEN signer ELSE boss_signer

Spec == Init /\ [][Next]_vars

-----------------------------------------------------------------------------
\* The State account holds keys, and a State account that exists has a boss
\* (initialize, accept_boss): no sequence of instructions leaves it without
\* one.
GovernanceTypeOK ==
    /\ state \in StateType
    /\ disabled \in [Offers -> BOOLEAN]
    /\ proposer \in Pubkey
    /\ boss_signer \in Pubkey
    /\ state.exists <=> state.boss # Default

\* A live proposal was made by the key that is boss now: a proposal does not
\* outlive its proposer's term (accept_boss clears it, close_state deletes it),
\* so no former boss can hand the program over.
ProposalIsTheBosses ==
    state.proposed_boss # Default => proposer = state.boss

\* No key sits in two admin slots or in both approver slots, whatever was added
\* and removed, in which order (add_admin, add_approver).
RolesHeldOnce ==
    /\ \A i, j \in 1..MAX_ADMINS :
           i # j /\ state.admins[i] # Default => state.admins[i] # state.admins[j]
    /\ state.approver1 # Default => state.approver1 # state.approver2

\* Removing a key once removes its power: although remove_admin and
\* remove_approver stop at the first slot, no other slot keeps the key.
RemovalRevokes ==
    [][\A signer, k \in Keys :
        /\ remove_admin(signer, k) => \A i \in 1..MAX_ADMINS : state'.admins[i] # k
        /\ remove_approver(signer, k) => k \notin {state'.approver1, state'.approver2}]_vars

\* A key becomes boss only by an instruction that it has signed itself
\* (accept_boss, initialize), and where there was a boss, only if that boss has
\* proposed it: no key is made boss without its consent or its predecessor's.
BossChangesOnlyByAcceptance ==
    [][state'.exists /\ state'.boss # state.boss =>
          /\ boss_signer' = state'.boss
          /\ state.exists => state'.boss = state.proposed_boss /\ proposer = state.boss]_vars

\* README.md: the main offer always pays ONyc.
MainOfferPaysOnyc ==
    state.main_offer # Default => TokenOut[state.main_offer] = state.onyc_mint
=============================================================================
