-------------------------- MODULE GovernanceProofs --------------------------
(***************************************************************************)
(* Proofs about Governance, for any number of keys, admin slots, mints and *)
(* offers, and about the approvals that its approvers sign.  Each          *)
(* invariant is inductive on top of the type invariant.                    *)
(***************************************************************************)
EXTENDS Approvals, TLAPS, WellFoundedInduction

\* Every instruction of Governance keeps the type invariant.
LEMMA GovernanceTypeStep ==
    ASSUME GovernanceTypeOK, NEW signer \in Keys, Step(signer), boss_signer' \in Pubkey
    PROVE  GovernanceTypeOK'
<1> USE GovernanceAssumption DEF Pubkey
<1>1. ASSUME NEW mint \in Mints, initialize(signer, mint) PROVE GovernanceTypeOK'
  BY <1>1 DEF initialize, GovernanceTypeOK, StateType, Closed
<1>2. CASE close_state(signer)
  BY <1>2 DEF close_state, GovernanceTypeOK, StateType, Closed
<1>3. ASSUME NEW k \in Keys, propose_boss(signer, k) PROVE GovernanceTypeOK'
  BY <1>3 DEF propose_boss, signed_by_boss, GovernanceTypeOK, StateType
<1>4. CASE accept_boss(signer)
  BY <1>4 DEF accept_boss, GovernanceTypeOK, StateType
<1>5. ASSUME NEW k \in Keys, add_admin(signer, k) PROVE GovernanceTypeOK'
  BY <1>5 DEF add_admin, signed_by_boss, GovernanceTypeOK, StateType
<1>6. ASSUME NEW k \in Pubkey, remove_admin(signer, k) PROVE GovernanceTypeOK'
  BY <1>6 DEF remove_admin, signed_by_boss, GovernanceTypeOK, StateType
<1>7. CASE clear_admins(signer)
  BY <1>7 DEF clear_admins, signed_by_boss, GovernanceTypeOK, StateType, Closed
<1>8. ASSUME NEW k \in Keys, add_approver(signer, k) PROVE GovernanceTypeOK'
  BY <1>8 DEF add_approver, signed_by_boss, GovernanceTypeOK, StateType
<1>9. ASSUME NEW k \in Keys, remove_approver(signer, k) PROVE GovernanceTypeOK'
  BY <1>9 DEF remove_approver, signed_by_boss, GovernanceTypeOK, StateType
<1>10. ASSUME NEW k \in Pubkey, set_worker(signer, k) PROVE GovernanceTypeOK'
  BY <1>10 DEF set_worker, signed_by_boss, GovernanceTypeOK, StateType
<1>11. ASSUME NEW enable \in BOOLEAN, set_kill_switch(signer, enable)
       PROVE  GovernanceTypeOK'
  BY <1>11 DEF set_kill_switch, GovernanceTypeOK, StateType
<1>12. ASSUME NEW o \in Offers, NEW disable \in BOOLEAN,
              set_offer_disabled(signer, o, disable)
       PROVE  GovernanceTypeOK'
  BY <1>12 DEF set_offer_disabled, GovernanceTypeOK
<1>13. ASSUME NEW o \in Offers, set_main_offer(signer, o) PROVE GovernanceTypeOK'
  BY <1>13 DEF set_main_offer, signed_by_boss, GovernanceTypeOK, StateType
<1>14. ASSUME NEW mint \in Mints, set_onyc_mint(signer, mint) PROVE GovernanceTypeOK'
  BY <1>14 DEF set_onyc_mint, signed_by_boss, GovernanceTypeOK, StateType
<1>15. QED
  BY <1>1, <1>2, <1>3, <1>4, <1>5, <1>6, <1>7, <1>8, <1>9, <1>10, <1>11, <1>12,
     <1>13, <1>14 DEF Step

\* The State account always holds keys, and one that exists always has a boss,
\* whatever instructions any keys sign.
THEOREM GovernanceTypeCorrect == Spec => []GovernanceTypeOK
<1>1. Init => GovernanceTypeOK
  BY GovernanceAssumption DEF Init, GovernanceTypeOK, StateType, Closed, Pubkey
<1>2. GovernanceTypeOK /\ [Next]_vars => GovernanceTypeOK'
  <2>1. ASSUME GovernanceTypeOK, Next PROVE GovernanceTypeOK'
    <3>1. PICK signer \in Keys : Step(signer)
                    /\ boss_signer' = IF state'.boss # state.boss THEN signer ELSE boss_signer
      BY <2>1 DEF Next
    <3>2. boss_signer' \in Pubkey
      BY <2>1, <3>1 DEF GovernanceTypeOK, Pubkey
    <3>3. QED
      BY <2>1, <3>1, <3>2, GovernanceTypeStep
  <2>2. ASSUME GovernanceTypeOK, UNCHANGED vars PROVE GovernanceTypeOK'
    BY <2>2 DEF GovernanceTypeOK, vars
  <2>3. QED
    BY <2>1, <2>2
<1>3. QED
  BY <1>1, <1>2, PTL DEF Spec

-----------------------------------------------------------------------------
\* Every instruction keeps a live proposal the present boss's.
LEMMA ProposalStep ==
    ASSUME GovernanceTypeOK, ProposalIsTheBosses, NEW signer \in Keys, Step(signer)
    PROVE  ProposalIsTheBosses'
<1> USE DEF ProposalIsTheBosses, GovernanceTypeOK, StateType
<1>1. CASE \E mint \in Mints : initialize(signer, mint)
  BY <1>1 DEF initialize, Closed
<1>2. CASE close_state(signer)
  BY <1>2 DEF close_state, Closed
<1>3. CASE \E k \in Keys : propose_boss(signer, k)
  BY <1>3 DEF propose_boss, signed_by_boss
<1>4. CASE accept_boss(signer)
  BY <1>4 DEF accept_boss
<1>5. CASE \E k \in Keys : add_admin(signer, k)
  BY <1>5 DEF add_admin
<1>6. CASE \E k \in Pubkey : remove_admin(signer, k)
  BY <1>6 DEF remove_admin
<1>7. CASE clear_admins(signer)
  BY <1>7 DEF clear_admins
<1>8. CASE \E k \in Keys : add_approver(signer, k) \/ remove_approver(signer, k)
  BY <1>8 DEF add_approver, remove_approver
<1>9. CASE \E k \in Pubkey : set_worker(signer, k)
  BY <1>9 DEF set_worker
<1>10. CASE \E enable \in BOOLEAN : set_kill_switch(signer, enable)
  BY <1>10 DEF set_kill_switch
<1>11. CASE \E o \in Offers, disable \in BOOLEAN : set_offer_disabled(signer, o, disable)
  BY <1>11 DEF set_offer_disabled
<1>12. CASE \E o \in Offers : set_main_offer(signer, o)
  BY <1>12 DEF set_main_offer
<1>13. CASE \E mint \in Mints : set_onyc_mint(signer, mint)
  BY <1>13 DEF set_onyc_mint
<1>14. QED
  BY <1>1, <1>2, <1>3, <1>4, <1>5, <1>6, <1>7, <1>8, <1>9, <1>10, <1>11, <1>12,
     <1>13 DEF Step

\* A live boss proposal was always made by the present boss: accept_boss and
\* close_state leave none behind.
THEOREM ProposalsAreTheBosses == Spec => []ProposalIsTheBosses
<1>1. Init => ProposalIsTheBosses
  BY DEF Init, Closed, ProposalIsTheBosses
<1>2. GovernanceTypeOK /\ ProposalIsTheBosses /\ [Next]_vars => ProposalIsTheBosses'
  BY ProposalStep DEF Next, ProposalIsTheBosses, vars
<1>3. QED
  BY <1>1, <1>2, GovernanceTypeCorrect, PTL DEF Spec

-----------------------------------------------------------------------------
\* Every instruction keeps each key in at most one admin slot and one approver
\* slot.
LEMMA RolesStep ==
    ASSUME GovernanceTypeOK, RolesHeldOnce, NEW signer \in Keys, Step(signer)
    PROVE  RolesHeldOnce'
<1> USE GovernanceAssumption DEF GovernanceTypeOK, StateType
<1> DEFINE AdminsOnce(admins) ==
        \A i, j \in 1..MAX_ADMINS :
            i # j /\ admins[i] # Default => admins[i] # admins[j]
<1>1. CASE \E mint \in Mints : initialize(signer, mint)
  BY <1>1 DEF initialize, Closed, RolesHeldOnce
<1>2. CASE close_state(signer)
  BY <1>2 DEF close_state, Closed, RolesHeldOnce
<1>3. CASE state'.admins = state.admins /\ state'.approver1 = state.approver1
           /\ state'.approver2 = state.approver2
  BY <1>3 DEF RolesHeldOnce
<1>4. ASSUME NEW k \in Keys, add_admin(signer, k) PROVE RolesHeldOnce'
  <2>1. state'.admins = [state.admins EXCEPT ![first_slot(Default)] = k]
    BY <1>4 DEF add_admin
  <2>2. \A i \in 1..MAX_ADMINS : state.admins[i] # k
    BY <1>4 DEF add_admin, is_admin
  <2>3. AdminsOnce(state.admins)
    BY DEF RolesHeldOnce
  <2>4. state.admins \in [1..MAX_ADMINS -> Pubkey]
    OBVIOUS
  <2>5. AdminsOnce(state'.admins)
    BY <2>1, <2>2, <2>3, <2>4
  <2>6. state'.approver1 = state.approver1 /\ state'.approver2 = state.approver2
    BY <1>4 DEF add_admin
  <2>7. QED
    BY <2>5, <2>6 DEF RolesHeldOnce
<1>5. ASSUME NEW k \in Pubkey, remove_admin(signer, k) PROVE RolesHeldOnce'
  <2>1. state'.admins = [state.admins EXCEPT ![first_slot(k)] = Default]
    BY <1>5 DEF remove_admin
  <2>2. AdminsOnce(state.admins)
    BY DEF RolesHeldOnce
  <2>3. state.admins \in [1..MAX_ADMINS -> Pubkey]
    OBVIOUS
  <2>4. AdminsOnce(state'.admins)
    BY <2>1, <2>2, <2>3
  <2>5. state'.approver1 = state.approver1 /\ state'.approver2 = state.approver2
    BY <1>5 DEF remove_admin
  <2>6. QED
    BY <2>4, <2>5 DEF RolesHeldOnce
<1>6. CASE clear_admins(signer)
  BY <1>6 DEF clear_admins, Closed, RolesHeldOnce
<1>7. ASSUME NEW k \in Keys, add_approver(signer, k) PROVE RolesHeldOnce'
  BY <1>7 DEF add_approver, RolesHeldOnce
<1>8. ASSUME NEW k \in Keys, remove_approver(signer, k) PROVE RolesHeldOnce'
  BY <1>8 DEF remove_approver, RolesHeldOnce
<1>9. CASE \/ \E k \in Keys : propose_boss(signer, k)
           \/ accept_boss(signer)
           \/ \E k \in Pubkey : set_worker(signer, k)
           \/ \E enable \in BOOLEAN : set_kill_switch(signer, enable)
           \/ \E o \in Offers, disable \in BOOLEAN :
                  set_offer_disabled(signer, o, disable)
           \/ \E o \in Offers : set_main_offer(signer, o)
           \/ \E mint \in Mints : set_onyc_mint(signer, mint)
  BY <1>3, <1>9 DEF propose_boss, accept_boss, set_worker, set_kill_switch,
     set_offer_disabled, set_main_offer, set_onyc_mint
<1>10. QED
  BY <1>1, <1>2, <1>4, <1>5, <1>6, <1>7, <1>8, <1>9 DEF Step

\* No key ever holds two admin slots or both approver slots, for any number of
\* admin slots.
THEOREM RolesAreHeldOnce == Spec => []RolesHeldOnce
<1>1. Init => RolesHeldOnce
  BY DEF Init, Closed, RolesHeldOnce
<1>2. GovernanceTypeOK /\ RolesHeldOnce /\ [Next]_vars => RolesHeldOnce'
  BY RolesStep DEF Next, RolesHeldOnce, vars
<1>3. QED
  BY <1>1, <1>2, GovernanceTypeCorrect, PTL DEF Spec

-----------------------------------------------------------------------------
\* A key in some admin slot has a first one.
LEMMA FirstSlot ==
    ASSUME GovernanceTypeOK, NEW k, is_admin(k)
    PROVE  first_slot(k) \in 1..MAX_ADMINS /\ state.admins[first_slot(k)] = k
<1> DEFINE T == {i \in 1..MAX_ADMINS : state.admins[i] = k}
<1>1. T \subseteq Nat /\ T # {}
  BY GovernanceAssumption DEF is_admin
<1>2. \E x \in T : \A y \in T : ~ (<<y, x>> \in OpToRel(<, Nat))
  BY <1>1, NatLessThanWellFounded, WFMin
<1>3. PICK x \in T : \A y \in T : ~ (<<y, x>> \in OpToRel(<, Nat))
  BY <1>2
<1>4. \A y \in T : ~ (y < x)
  BY <1>1, <1>3 DEF OpToRel
<1>5. \A j \in 1..(x - 1) : state.admins[j] # k
  BY <1>1, <1>4, GovernanceAssumption
<1>6. QED
  BY <1>5 DEF first_slot

\* Removing an admin or approver once leaves no slot that holds the key,
\* although remove_admin and remove_approver stop at the first match.
THEOREM RemovalAlwaysRevokes == Spec => RemovalRevokes
<1> DEFINE Revoked(signer, k) ==
        /\ remove_admin(signer, k) => \A i \in 1..MAX_ADMINS : state'.admins[i] # k
        /\ remove_approver(signer, k) => k \notin {state'.approver1, state'.approver2}
<1>1. ASSUME GovernanceTypeOK, RolesHeldOnce, NEW signer \in Keys, NEW k \in Keys
      PROVE  Revoked(signer, k)
  <2>1. k # Default
    BY GovernanceAssumption
  <2>2. ASSUME remove_admin(signer, k), NEW i \in 1..MAX_ADMINS
        PROVE  state'.admins[i] # k
    <3>1. first_slot(k) \in 1..MAX_ADMINS /\ state.admins[first_slot(k)] = k
      BY <1>1, <2>2, FirstSlot DEF remove_admin
    <3>2. state'.admins = [state.admins EXCEPT ![first_slot(k)] = Default]
      BY <1>1, <2>2 DEF remove_admin, GovernanceTypeOK, StateType
    <3>3. state.admins \in [1..MAX_ADMINS -> Pubkey]
      BY <1>1 DEF GovernanceTypeOK, StateType
    <3>4. i # first_slot(k) => state.admins[i] # k
      BY <1>1, <2>1, <3>1 DEF RolesHeldOnce
    <3>5. QED
      BY <2>1, <3>1, <3>2, <3>3, <3>4
  <2>3. ASSUME remove_approver(signer, k)
        PROVE  k \notin {state'.approver1, state'.approver2}
    BY <1>1, <2>1, <2>3 DEF remove_approver, RolesHeldOnce, GovernanceTypeOK, StateType
  <2>4. QED
    BY <2>2, <2>3
<1>2. GovernanceTypeOK /\ RolesHeldOnce =>
        [\A signer, k \in Keys : Revoked(signer, k)]_vars
  BY <1>1
<1>3. QED
  BY <1>2, GovernanceTypeCorrect, RolesAreHeldOnce, PTL DEF RemovalRevokes

-----------------------------------------------------------------------------
\* An instruction makes a key boss only if that key signs it, and where there
\* was a boss, only if that boss has proposed the key.
LEMMA BossStep ==
    ASSUME GovernanceTypeOK, ProposalIsTheBosses, NEW signer \in Keys, Step(signer),
           state'.exists, state'.boss # state.boss
    PROVE  /\ state'.boss = signer
           /\ state.exists => state'.boss = state.proposed_boss /\ proposer = state.boss
<1> USE DEF GovernanceTypeOK, StateType
<1>1. CASE accept_boss(signer)
  BY <1>1 DEF accept_boss, ProposalIsTheBosses
<1>2. CASE \E mint \in Mints : initialize(signer, mint)
  BY <1>2 DEF initialize, Closed
<1>3. CASE close_state(signer)
  BY <1>3 DEF close_state, Closed
<1>4. CASE \/ \E k \in Keys : propose_boss(signer, k)
           \/ \E k \in Keys : add_admin(signer, k)
           \/ \E k \in Pubkey : remove_admin(signer, k)
           \/ clear_admins(signer)
           \/ \E k \in Keys : add_approver(signer, k)
           \/ \E k \in Keys : remove_approver(signer, k)
  BY <1>4 DEF propose_boss, add_admin, remove_admin, clear_admins,
     add_approver, remove_approver
<1>5. CASE \/ \E k \in Pubkey : set_worker(signer, k)
           \/ \E enable \in BOOLEAN : set_kill_switch(signer, enable)
           \/ \E o \in Offers, disable \in BOOLEAN :
                  set_offer_disabled(signer, o, disable)
           \/ \E o \in Offers : set_main_offer(signer, o)
           \/ \E mint \in Mints : set_onyc_mint(signer, mint)
  BY <1>5 DEF set_worker, set_kill_switch, set_offer_disabled, set_main_offer,
     set_onyc_mint
<1>6. QED
  BY <1>1, <1>2, <1>3, <1>4, <1>5 DEF Step

\* A key becomes boss only by signing accept_boss or initialize itself, and
\* where there was a boss, only if that boss has proposed it.
THEOREM BossChangesAreAccepted == Spec => BossChangesOnlyByAcceptance
<1> DEFINE Accepted ==
        state'.exists /\ state'.boss # state.boss =>
            /\ boss_signer' = state'.boss
            /\ state.exists => state'.boss = state.proposed_boss /\ proposer = state.boss
<1>1. ASSUME GovernanceTypeOK, ProposalIsTheBosses, Next
      PROVE  Accepted
  <2>1. PICK signer \in Keys : Step(signer)
                  /\ boss_signer' = IF state'.boss # state.boss THEN signer ELSE boss_signer
    BY <1>1 DEF Next
  <2>2. QED
    BY <1>1, <2>1, BossStep
<1>2. GovernanceTypeOK /\ ProposalIsTheBosses /\ [Next]_vars => [Accepted]_vars
  BY <1>1
<1>3. QED
  BY <1>2, GovernanceTypeCorrect, ProposalsAreTheBosses, PTL
  DEF Spec, BossChangesOnlyByAcceptance

-----------------------------------------------------------------------------
(* Approvals: the verification is exact, whoever the approvers are.        *)

\* A carried item, its message and its key.
LEMMA CarriedTyped ==
    ASSUME NEW c \in Carried
    PROVE  c.pubkey \in Keys /\ c.pubkey # Default /\ c.message \in ApprovalMessage
  BY ApprovalAssumption, GovernanceAssumption

\* Whoever passes the verification has been approved: the header is its own,
\* so the runtime has checked the signature that the program reads.
LEMMA VerifiedIsApproved ==
    ASSUME NEW user \in Keys, now \in Nat, Verified(user)
    PROVE  Approved(user)
<1>1. PICK msg \in {c.message : c \in Carried}, ix \in Ed25519Instruction :
        runtime_accepts(ix) /\ verify_approval_message_generic(user, msg, ix)
  BY DEF Verified
<1>2. PICK parsed \in parse_ed25519_ix(ix) :
        is_approver(parsed.pubkey) /\ parsed.message = msg
  BY <1>1 DEF verify_approval_message_generic
<1>3. parsed = ix.data /\ ~ix.elsewhere
  BY <1>2 DEF parse_ed25519_ix
<1>4. parsed \in Signatures
  BY <1>1, <1>3 DEF runtime_accepts
<1>5. parsed.pubkey \in {state.approver1, state.approver2}
  BY <1>2 DEF is_approver
<1>6. /\ parsed.message.program_id = ThisProgram
      /\ parsed.message.user_pubkey = user
      /\ now <= parsed.message.expiry_unix
  BY <1>1, <1>2 DEF verify_approval_message_generic
<1>7. parsed.message.expiry_unix \in Nat
  BY <1>4, ApprovalAssumption, CarriedTyped DEF ApprovalMessage
<1>8. QED
  BY <1>4, <1>5, <1>6, <1>7 DEF Approved, ApprovalOf

\* Whoever has been approved can pass it, with the approval and its signature.
LEMMA ApprovedIsVerified ==
    ASSUME NEW user \in Keys, now \in Nat, Approved(user)
    PROVE  Verified(user)
<1>1. PICK s \in Signatures :
        /\ s.pubkey \in {state.approver1, state.approver2}
        /\ s.message.program_id = ThisProgram
        /\ s.message.user_pubkey = user
        /\ s.message.expiry_unix >= now
  BY DEF Approved, ApprovalOf
<1>2. s \in Carried
  BY ApprovalAssumption
<1> DEFINE ix == [data |-> s, sig_count |-> 1, elsewhere |-> FALSE]
<1>3. ix \in Ed25519Instruction /\ runtime_accepts(ix)
  BY <1>2 DEF Ed25519Instruction, runtime_accepts
<1>4. s \in parse_ed25519_ix(ix)
  BY DEF parse_ed25519_ix
<1>5. is_approver(s.pubkey)
  BY <1>1, <1>2, CarriedTyped DEF is_approver
<1>6. s.message.expiry_unix \in Nat
  BY <1>2, ApprovalAssumption, CarriedTyped DEF ApprovalMessage
<1> HIDE DEF ix
<1>7. verify_approval_message_generic(user, s.message, ix)
  BY <1>1, <1>4, <1>5, <1>6 DEF verify_approval_message_generic
<1>8. QED
  BY <1>2, <1>3, <1>7 DEF Verified

\* Exactly the users whom a present approver has approved pass the
\* verification, at every moment of every history of the approvers.
THEOREM ApprovalsAlwaysExact == ApprovalsSpec => []ApprovalsAreExact
<1>1. ApprovalsInit => now \in Nat
  BY DEF ApprovalsInit
<1>2. now \in Nat /\ [ApprovalsNext]_<<vars, now>> => (now \in Nat)'
  BY DEF ApprovalsNext, tick
<1>3. now \in Nat => ApprovalsAreExact
  BY VerifiedIsApproved, ApprovedIsVerified DEF ApprovalsAreExact
<1>4. QED
  BY <1>1, <1>2, <1>3, PTL DEF ApprovalsSpec

\* Governance runs beside the clock unchanged, so that its invariants can be
\* used of the approvals too.
LEMMA ApprovalsKeepGovernance == ApprovalsSpec => Spec
<1>1. ApprovalsInit => Init
  BY DEF ApprovalsInit
<1>2. [ApprovalsNext]_<<vars, now>> => [Next]_vars
  BY DEF ApprovalsNext, tick
<1>3. QED
  BY <1>1, <1>2, PTL DEF ApprovalsSpec, Spec

\* No instruction but the boss's add_approver puts a key into a slot.
LEMMA ApproversStep ==
    ASSUME GovernanceTypeOK, NEW signer \in Keys, Step(signer),
           NEW key \in Keys, key \in {state'.approver1, state'.approver2},
           key \notin {state.approver1, state.approver2}
    PROVE  add_approver(state.boss, key)
<1> USE GovernanceAssumption DEF GovernanceTypeOK, StateType
<1>1. ASSUME NEW k \in Keys, add_approver(signer, k) PROVE add_approver(state.boss, key)
  BY <1>1 DEF add_approver, signed_by_boss
<1>2. CASE \/ \E mint \in Mints : initialize(signer, mint)
           \/ close_state(signer)
  <2>1. CASE \E mint \in Mints : initialize(signer, mint)
    BY <2>1 DEF initialize, Closed
  <2>2. CASE close_state(signer)
    BY <2>2 DEF close_state, Closed
  <2>3. QED
    BY <1>2, <2>1, <2>2
<1>3. CASE \E k \in Keys : remove_approver(signer, k)
  BY <1>3 DEF remove_approver
<1>4. CASE \/ \E k \in Keys : propose_boss(signer, k)
           \/ accept_boss(signer)
           \/ \E k \in Keys : add_admin(signer, k)
           \/ \E k \in Pubkey : remove_admin(signer, k)
           \/ clear_admins(signer)
  BY <1>4 DEF propose_boss, accept_boss, add_admin, remove_admin, clear_admins
<1>5. CASE \/ \E k \in Pubkey : set_worker(signer, k)
           \/ \E enable \in BOOLEAN : set_kill_switch(signer, enable)
           \/ \E o \in Offers, disable \in BOOLEAN :
                  set_offer_disabled(signer, o, disable)
           \/ \E o \in Offers : set_main_offer(signer, o)
           \/ \E mint \in Mints : set_onyc_mint(signer, mint)
  BY <1>5 DEF set_worker, set_kill_switch, set_offer_disabled, set_main_offer,
     set_onyc_mint
<1>6. QED
  BY <1>1, <1>2, <1>3, <1>4, <1>5 DEF Step

\* A user who could not pass the verification passes it only once the boss
\* makes a key approver that has approved that user: neither time, nor the
\* removal of an approver, nor closing and re-initialising State, nor a change
\* of the boss revives an approval.
THEOREM ApprovalsAlwaysRevivedByBoss == ApprovalsSpec => ApprovalsRevivedOnlyByBoss
<1> DEFINE Revived(user) ==
        ~Verified(user) /\ Verified(user)' =>
            \E s \in Signatures : ApprovalOf(user, s) /\ add_approver(state.boss, s.pubkey)
<1>1. ASSUME GovernanceTypeOK, ApprovalsAreExact, ApprovalsAreExact', ApprovalsNext,
             now \in Nat, NEW user \in Keys, ~Verified(user), Verified(user)'
      PROVE  \E s \in Signatures : ApprovalOf(user, s) /\ add_approver(state.boss, s.pubkey)
  <2>1. ~Approved(user) /\ Approved(user)'
    BY <1>1 DEF ApprovalsAreExact
  <2>2. PICK s \in Signatures :
          s.pubkey \in {state'.approver1, state'.approver2} /\ ApprovalOf(user, s)'
    BY <2>1 DEF Approved
  <2>3. s.pubkey \in Keys /\ s.message.expiry_unix \in Nat
    BY ApprovalAssumption, CarriedTyped DEF ApprovalMessage
  <2>4. now' \in {now, now + 1}
    BY <1>1 DEF ApprovalsNext, tick
  <2>5. ApprovalOf(user, s)
    BY <1>1, <2>2, <2>3, <2>4 DEF ApprovalOf
  <2>6. s.pubkey \notin {state.approver1, state.approver2}
    BY <2>1, <2>5 DEF Approved
  <2>7. CASE tick
    BY <2>2, <2>6, <2>7 DEF tick, vars
  <2>8. CASE Next
    <3>1. PICK signer \in Keys : Step(signer)
      BY <2>8 DEF Next
    <3>2. QED
      BY <1>1, <2>2, <2>3, <2>5, <2>6, <3>1, ApproversStep
  <2>9. QED
    BY <1>1, <2>7, <2>8 DEF ApprovalsNext
<1>2. /\ GovernanceTypeOK /\ ApprovalsAreExact /\ ApprovalsAreExact' /\ now \in Nat
      /\ [ApprovalsNext]_<<vars, now>>
      => [\A user \in Keys : Revived(user)]_<<vars, now>>
  BY <1>1
<1>3. ApprovalsSpec => [](now \in Nat)
  <2>1. ApprovalsInit => now \in Nat
    BY DEF ApprovalsInit
  <2>2. now \in Nat /\ [ApprovalsNext]_<<vars, now>> => (now \in Nat)'
    BY DEF ApprovalsNext, tick
  <2>3. QED
    BY <2>1, <2>2, PTL DEF ApprovalsSpec
<1>4. QED
  BY <1>2, <1>3, ApprovalsKeepGovernance, GovernanceTypeCorrect, ApprovalsAlwaysExact, PTL
  DEF ApprovalsSpec, ApprovalsRevivedOnlyByBoss
=============================================================================
