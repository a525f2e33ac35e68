----------------------------- MODULE Approvals ------------------------------
(***************************************************************************)
(* The approval that take_offer and take_offer_v2 ask for when the offer   *)
(* needs one: the approval message among their arguments, the Ed25519      *)
(* instruction before them that carries its signature, and the approvers   *)
(* of Governance, who come and go while time passes.                       *)
(***************************************************************************)
EXTENDS Governance

CONSTANTS
    Programs,       \* program ids
    ThisProgram,    \* the id of this program
    LAST_TIME,      \* bound on the time
    Carried,        \* the messages, each with a key, that transactions carry
    Signatures      \* those of them that the key has signed

\* ApprovalMessage
ApprovalMessage ==
    [program_id : Programs, user_pubkey : Keys, expiry_unix : 0..LAST_TIME]

ASSUME ApprovalAssumption ==
    /\ ThisProgram \in Programs
    /\ LAST_TIME \in Nat
    /\ Carried \subseteq [pubkey : Keys, message : ApprovalMessage]
    /\ Signatures \subseteq Carried

VARIABLE now    \* Clock::unix_timestamp

\* The Ed25519 instruction before a take: the key and message among its own
\* data, the number of signatures its header announces, and whether the header
\* has the runtime read them from another instruction of the transaction.
Ed25519Instruction == [data : Carried, sig_count : {1, 2}, elsewhere : BOOLEAN]

\* The Ed25519 program checks what the header points at; a transaction with a
\* wrong signature never starts.
runtime_accepts(ix) == ix.elsewhere \/ ix.data \in Signatures

-----------------------------------------------------------------------------
\* Mutant: the header may point into another instruction.
parse_anywhere(ix) == IF ix.sig_count = 1 THEN {ix.data} ELSE {}

\* The key and the message, as a set that is empty when parsing fails.
parse_ed25519_ix(ix) == IF ix.sig_count = 1 /\ ~ix.elsewhere THEN {ix.data} ELSE {}

\* A key that sits in an approver slot; an empty slot matches no key.
is_approver(k) ==
    \/ state.approver1 # Default /\ k = state.approver1
    \/ state.approver2 # Default /\ k = state.approver2

\* The message among the arguments is checked for time, program and user; the
\* signed one is checked alike and must equal it.
verify_approval_message_generic(user, msg, ix) ==
    /\ now <= msg.expiry_unix
    /\ msg.program_id = ThisProgram
    /\ msg.user_pubkey = user
    /\ \E parsed \in parse_ed25519_ix(ix) :
           /\ is_approver(parsed.pubkey)
           /\ parsed.message = msg

\* Some transaction that reaches the program passes the verification for user.
Verified(user) ==
    \E msg \in {c.message : c \in Carried}, ix \in Ed25519Instruction :
        runtime_accepts(ix) /\ verify_approval_message_generic(user, msg, ix)

-----------------------------------------------------------------------------
tick == now < LAST_TIME /\ now' = now + 1 /\ UNCHANGED vars

ApprovalsNext == (Next /\ UNCHANGED now) \/ tick

ApprovalsInit == Init /\ now = 0

ApprovalsSpec == ApprovalsInit /\ [][ApprovalsNext]_<<vars, now>>

-----------------------------------------------------------------------------
\* What s says is an approval of user for this program that has not expired.
ApprovalOf(user, s) ==
    /\ s.message.program_id = ThisProgram
    /\ s.message.user_pubkey = user
    /\ s.message.expiry_unix >= now

\* A key that sits in an approver slot now has signed such an approval.
Approved(user) ==
    \E s \in Signatures :
        s.pubkey \in {state.approver1, state.approver2} /\ ApprovalOf(user, s)

\* Exactly the users whom a present approver has approved pass the
\* verification (verify_approval_message_generic): the signature the runtime
\* checked is the one the program reads, an approval counts to its last second
\* and from either slot, and with the removal of its approver or the closing
\* of State it is void, however often approvers were replaced.
ApprovalsAreExact == \A user \in Keys : Verified(user) <=> Approved(user)

\* A user comes to pass the verification only when the boss makes a key
\* approver that has approved that user (add_approver): nothing else, neither
\* time, a removal, a new boss nor a closed and re-initialised State, revives
\* an approval.
ApprovalsRevivedOnlyByBoss ==
    [][\A user \in Keys : ~Verified(user) /\ Verified(user)' =>
          \E s \in Signatures : ApprovalOf(user, s) /\ add_approver(state.boss, s.pubkey)
      ]_<<vars, now>>
=============================================================================
