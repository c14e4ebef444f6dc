------------------------------- MODULE Reserve -------------------------------
(***************************************************************************)
(* The reserve side of the oragami-vault program: the registry that names  *)
(* the backing asset and the hash of its custodian report, the mandate     *)
(* with its ratios, the attestation that the operator posts, and the two   *)
(* checks anyone may call.  The checks change nothing, so they are the     *)
(* predicates ProofOfReserveHolds and LiquidityAssertionHolds.             *)
(***************************************************************************)
EXTENDS SolanaClock, BasisPoints

CONSTANTS
    MandateShares,      \* the values of min_liquidity_buffer_bps and max_usx_allocation_bps
    CollateralRatios,   \* the values of min_collateral_ratio_bps
    YieldAccounts,      \* the USX and the eUSX token account of the vault
    LinkHashes,         \* the hashes of custodian reports
    GoldUnits,          \* the values of gold_units_held
    MaxAttestationAge   \* MAX_ATTESTATION_AGE_SECS

ASSUME RatiosAssumption == MandateShares \subseteq Nat /\ CollateralRatios \subseteq Nat
ASSUME AttestationAgeAssumption == MaxAttestationAge \in Nat

VARIABLES
    registry,     \* the RwaAssetRegistry account
    mandate,      \* the VaultMandate account
    attestation,  \* the ReserveAttestation account
    usxAccounts   \* which of vault_usx_account and vault_eusx_account are set

reserveVars == <<registry, mandate, attestation, usxAccounts>>

RwaAssetRegistry   == [linkHash : LinkHashes, lastVerifiedAt : Times]
VaultMandate       == [minLiquidityBuffer : MandateShares, maxUsxAllocation : MandateShares,
                       minCollateralRatio : CollateralRatios, enforced : BOOLEAN]
ReserveAttestation == [hash : LinkHashes, goldUnits : GoldUnits, attestedAt : Times]

ASSUME NoReserveAccountAssumption ==
    NoAccount \notin RwaAssetRegistry \cup VaultMandate \cup ReserveAttestation

ReserveInit ==
    /\ now = 0
    /\ registry = NoAccount
    /\ mandate = NoAccount
    /\ attestation = NoAccount
    /\ usxAccounts = {}

-----------------------------------------------------------------------------
InitRegistry(hash) ==
    /\ registry = NoAccount
    /\ registry' = [linkHash |-> hash, lastVerifiedAt |-> now]
    /\ UNCHANGED <<mandate, attestation, usxAccounts>>

(* Mutant: a new report hash registered without the date of the refresh. *)
RefreshWithoutDate(hash) ==
    /\ registry # NoAccount
    /\ registry' = [registry EXCEPT !.linkHash = hash]
    /\ UNCHANGED <<mandate, attestation, usxAccounts>>

(* Without a new hash the registry keeps the one it has. *)
UpdateRegistry(hash) ==
    /\ registry # NoAccount
    /\ registry' = [linkHash |-> hash, lastVerifiedAt |-> now]
    /\ UNCHANGED <<mandate, attestation, usxAccounts>>

(* What set_nav does to the registry that it requires. *)
StampRegistry ==
    /\ registry # NoAccount
    /\ registry' = [registry EXCEPT !.lastVerifiedAt = now]
    /\ UNCHANGED <<mandate, attestation, usxAccounts>>

InitMandate(buffer, cap, ratio, enforced) ==
    /\ mandate = NoAccount
    /\ buffer + cap <= BpsWhole
    /\ mandate' = [minLiquidityBuffer |-> buffer, maxUsxAllocation |-> cap,
                   minCollateralRatio |-> ratio, enforced |-> enforced]
    /\ UNCHANGED <<registry, attestation, usxAccounts>>

SetEnforcement(active) ==
    /\ mandate # NoAccount
    /\ mandate' = [mandate EXCEPT !.enforced = active]
    /\ UNCHANGED <<registry, attestation, usxAccounts>>

(* The attestation account is opened with `init_if_needed`: each report overwrites the last. *)
PostAttestation(hash, gold) ==
    /\ registry # NoAccount
    /\ hash = registry.linkHash
    /\ attestation' = [hash |-> hash, goldUnits |-> gold, attestedAt |-> now]
    /\ UNCHANGED <<registry, mandate, usxAccounts>>

(* Mutant: the default key registered like an account. *)
RegisterDefaultKey(accounts) ==
    /\ usxAccounts' = accounts \cup {NoAccount}
    /\ UNCHANGED <<registry, mandate, attestation>>

(* register_usx_accounts: Pubkey::default() unsets an account. *)
RegisterUsxAccounts(accounts) ==
    /\ usxAccounts' = accounts
    /\ UNCHANGED <<registry, mandate, attestation>>

-----------------------------------------------------------------------------
AttestationFresh == now - attestation.attestedAt <= MaxAttestationAge

(* total_assets * 10000 >= total_deposits * min_collateral_ratio_bps *)
CollateralCovers(usdcHeld, yieldHeld, deposits) ==
    (usdcHeld + yieldHeld) * BpsWhole >= deposits * mandate.minCollateralRatio

(* Both products are checked_mul of u64; the sum is checked_add, and fits when its product does. *)
ProofFits(usdcHeld, yieldHeld, deposits) ==
    /\ FitsU64((usdcHeld + yieldHeld) * BpsWhole)
    /\ FitsU64(deposits * mandate.minCollateralRatio)

(* verify_proof_of_reserve, with the USDC of the vault, the balances of the registered yield   *)
(* accounts together, and the accounts that the caller passes: each registered one is required. *)
ProofOfReserveHolds(usdcHeld, yieldHeld, deposits, passed) ==
    /\ registry # NoAccount /\ mandate # NoAccount /\ attestation # NoAccount
    /\ AttestationFresh
    /\ attestation.hash = registry.linkHash
    /\ usxAccounts \subseteq passed
    /\ ProofFits(usdcHeld, yieldHeld, deposits)
    /\ CollateralCovers(usdcHeld, yieldHeld, deposits)

(* What the registered yield accounts, two at most, may hold together. *)
YieldBalances == IF usxAccounts = {} THEN {0} ELSE 0 .. 2 * MaxU64

(* The band of assert_liquidity_allocation for the idle USDC. *)
WithinLiquidityBand(usdcHeld, deposits, allocation) ==
    /\ usdcHeld <= (deposits * SaturatingSub(BpsWhole, allocation)) \div BpsWhole
    /\ usdcHeld >= (deposits * mandate.minLiquidityBuffer) \div BpsWhole

(* assert_liquidity_allocation *)
LiquidityAssertionHolds(usdcHeld, deposits, allocation) ==
    mandate.enforced => WithinLiquidityBand(usdcHeld, deposits, allocation)

-----------------------------------------------------------------------------
ReserveInstruction ==
    \/ \E h \in LinkHashes : InitRegistry(h) \/ UpdateRegistry(h)
    \/ StampRegistry
    \/ \E b, c \in MandateShares, r \in CollateralRatios, e \in BOOLEAN : InitMandate(b, c, r, e)
    \/ \E e \in BOOLEAN : SetEnforcement(e)
    \/ \E h \in LinkHashes, g \in GoldUnits : PostAttestation(h, g)
    \/ \E accounts \in SUBSET YieldAccounts : RegisterUsxAccounts(accounts)

ReserveNext ==
    \/ ReserveInstruction /\ UNCHANGED now
    \/ Tick /\ UNCHANGED reserveVars

ReserveSpec == ReserveInit /\ [][ReserveNext]_<<now, reserveVars>>

-----------------------------------------------------------------------------
(* Type invariant of the reserve accounts. *)
ReserveTypeOK ==
    /\ now \in Times
    /\ registry \in RwaAssetRegistry \cup {NoAccount}
    /\ mandate \in VaultMandate \cup {NoAccount}
    /\ attestation \in ReserveAttestation \cup {NoAccount}
    /\ usxAccounts \subseteq YieldAccounts

(* A hash mismatch always means that the registry was refreshed after the attestation, never   *)
(* that a wrong report was attested: whatever the order of refreshes, NAV updates and          *)
(* attestations, an attestation whose hash is not the registered one is no younger than the    *)
(* registry, and an attestation exists only beside a registry.                                 *)
MismatchMeansRefresh ==
    attestation # NoAccount =>
        /\ registry # NoAccount
        /\ attestation.hash # registry.linkHash =>
              attestation.attestedAt <= registry.lastVerifiedAt
=============================================================================
