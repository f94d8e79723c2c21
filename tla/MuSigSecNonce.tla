---------------------------- MODULE MuSigSecNonce ----------------------------
(***************************************************************************)
(* What secp256k1_musig.h promises about secret nonces, abstractly: a      *)
(* cosigner holds at most one secret nonce; nonce_gen makes one from a     *)
(* session id the cosigner has never used before (rule 1 of nonce_gen's    *)
(* documentation, a contract on the caller), or fails and holds none;      *)
(* partial_sign signs with the held nonce and gives it up, and a           *)
(* partial_sign that fails gives it up without signing.  A nonce is        *)
(* named by the session id it was derived from.                            *)
(***************************************************************************)
EXTENDS Naturals, Sequences, SequenceTheorems, TLAPS

CONSTANTS
    Signers,    \* the cosigners
    Ids,        \* session ids
    NoId        \* no nonce held

VARIABLES
    held,       \* cosigner -> id of the secret nonce it holds, or NoId
    issued,     \* cosigner -> session ids it has passed to nonce_gen
    sign_log    \* successful partial_sign calls: [signer, sid]

abs_vars == <<held, issued, sign_log>>

Entry == [signer : Signers, sid : Ids]

AbsTypeOK ==
    /\ held \in [Signers -> Ids \cup {NoId}]
    /\ issued \in [Signers -> SUBSET Ids]
    /\ sign_log \in Seq(Entry)

AbsInit ==
    /\ held = [i \in Signers |-> NoId]
    /\ issued = [i \in Signers |-> {}]
    /\ sign_log = <<>>

(* nonce_gen with a session id i never used: the cosigner then holds the   *)
(* nonce derived from it (ok) or, when the call fails, none.               *)
AbsNonceGen(i, id, ok) ==
    /\ id \in Ids \ issued[i]
    /\ issued' = [issued EXCEPT ![i] = @ \cup {id}]
    /\ held' = [held EXCEPT ![i] = IF ok THEN id ELSE NoId]
    /\ UNCHANGED sign_log

\* partial_sign succeeds only with a held nonce, and consumes it.
AbsPartialSign(i) ==
    /\ held[i] # NoId
    /\ sign_log' = Append(sign_log, [signer |-> i, sid |-> held[i]])
    /\ held' = [held EXCEPT ![i] = NoId]
    /\ UNCHANGED issued

\* partial_sign fails: the nonce (if any) is given up and nothing is signed.
AbsAbandon(i) ==
    /\ held' = [held EXCEPT ![i] = NoId]
    /\ UNCHANGED <<issued, sign_log>>

AbsNext ==
    \E i \in Signers :
        \/ \E id \in Ids, ok \in BOOLEAN : AbsNonceGen(i, id, ok)
        \/ AbsPartialSign(i)
        \/ AbsAbandon(i)

AbsSpec == AbsInit /\ [][AbsNext]_abs_vars

-----------------------------------------------------------------------------
(* Nonce reuse (spec 3, 8.7), as the abstract promise states it: no two    *)
(* successful partial_sign calls of a cosigner use the same nonce.         *)
SignedOnce ==
    \A a, b \in DOMAIN sign_log : a # b => sign_log[a] # sign_log[b]

-----------------------------------------------------------------------------
(* The inductive strengthening of SignedOnce: every signed id and every    *)
(* held id was issued to that cosigner, and a held id has not yet been     *)
(* signed with by it.                                                      *)
LogIssued ==
    \A k \in DOMAIN sign_log : sign_log[k].sid \in issued[sign_log[k].signer]

HeldFresh ==
    \A i \in Signers : held[i] # NoId =>
        /\ held[i] \in issued[i]
        /\ \A k \in DOMAIN sign_log :
               sign_log[k].signer = i => sign_log[k].sid # held[i]

AbsInv == AbsTypeOK /\ LogIssued /\ HeldFresh /\ SignedOnce

\* Nothing is held, issued or signed initially.
LEMMA AbsInvInit == AbsInit => AbsInv
BY DEF AbsInit, AbsInv, AbsTypeOK, LogIssued, HeldFresh, SignedOnce

\* Every abstract step keeps AbsInv.
LEMMA AbsInvStep == AbsInv /\ [AbsNext]_abs_vars => AbsInv'
<1>. SUFFICES ASSUME AbsInv, [AbsNext]_abs_vars PROVE AbsInv'  OBVIOUS
<1>. USE DEF AbsInv, AbsTypeOK
<1>1. ASSUME NEW i \in Signers, NEW id \in Ids, NEW ok \in BOOLEAN,
             AbsNonceGen(i, id, ok)
      PROVE  AbsInv'
  <2>1. AbsTypeOK'  BY <1>1 DEF AbsNonceGen
  <2>2. LogIssued'  BY <1>1 DEF AbsNonceGen, LogIssued
  <2>3. HeldFresh'
    <3>1. \A k \in DOMAIN sign_log : sign_log[k].signer = i => sign_log[k].sid # id
      BY <1>1 DEF AbsNonceGen, LogIssued
    <3>. QED  BY <1>1, <3>1 DEF AbsNonceGen, HeldFresh
  <2>4. SignedOnce'  BY <1>1 DEF AbsNonceGen, SignedOnce
  <2>. QED  BY <2>1, <2>2, <2>3, <2>4
<1>2. ASSUME NEW i \in Signers, AbsPartialSign(i) PROVE AbsInv'
  <2>. DEFINE e == [signer |-> i, sid |-> held[i]]
  <2>0. /\ e \in Entry
        /\ sign_log' = Append(sign_log, e)
        /\ held[i] \in issued[i]
        /\ \A k \in DOMAIN sign_log : sign_log[k] # e
    BY <1>2 DEF AbsPartialSign, HeldFresh, Entry
  <2>1. /\ sign_log' \in Seq(Entry)
        /\ Len(sign_log') = Len(sign_log) + 1
        /\ \A k \in 1 .. Len(sign_log) : sign_log'[k] = sign_log[k]
        /\ sign_log'[Len(sign_log) + 1] = e
    BY <2>0, AppendProperties
  <2>2. DOMAIN sign_log' = DOMAIN sign_log \cup {Len(sign_log) + 1}
    BY <2>1
  <2>3. AbsTypeOK'  BY <1>2, <2>1 DEF AbsPartialSign
  <2>4. LogIssued'  BY <1>2, <2>0, <2>1, <2>2 DEF AbsPartialSign, LogIssued
  <2>5. HeldFresh'  BY <1>2, <2>1, <2>2 DEF AbsPartialSign, HeldFresh
  <2>6. SignedOnce'  BY <2>0, <2>1, <2>2 DEF SignedOnce
  <2>. QED  BY <2>3, <2>4, <2>5, <2>6
<1>3. ASSUME NEW i \in Signers, AbsAbandon(i) PROVE AbsInv'
  BY <1>3 DEF AbsAbandon, LogIssued, HeldFresh, SignedOnce
<1>4. CASE UNCHANGED abs_vars
  BY <1>4 DEF abs_vars, LogIssued, HeldFresh, SignedOnce
<1>. QED  BY <1>1, <1>2, <1>3, <1>4 DEF AbsNext

\* The abstract promise never signs twice with one nonce.
THEOREM AbsSignedOnce == AbsSpec => []SignedOnce
<1>1. AbsSpec => []AbsInv  BY AbsInvInit, AbsInvStep, PTL DEF AbsSpec
<1>. QED  BY <1>1, PTL DEF AbsInv

=============================================================================
