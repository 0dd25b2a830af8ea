----------------------------- MODULE AdminConfig -----------------------------
(***************************************************************************)
(* The program-wide role registry of the phygital-token program: the       *)
(* singleton account that names the admin, the issuer and the minter, the  *)
(* instruction that creates it and the three that replace a key.           *)
(*                                                                         *)
(* The account is zeroed when the runtime creates it, so a role that was   *)
(* never set holds the default (all-zero) public key.  No private key      *)
(* belongs to that public key: a signer is always one of Pubkeys.          *)
(***************************************************************************)

CONSTANTS
    Pubkeys,        \* the keys that can sign a transaction
    DefaultKey,     \* Pubkey::default(): all zeros, signs nothing
    NoConfig        \* the state of the registry before create_config

ASSUME KeyAssumption == /\ DefaultKey \notin Pubkeys
                        /\ NoConfig \notin [admin : Pubkeys,
                                            issuer : Pubkeys \cup {DefaultKey},
                                            minter : Pubkeys \cup {DefaultKey}]

VARIABLE
    adminConfig     \* the account at [ADMIN_CONFIG_SEED]

AnyKey == Pubkeys \cup {DefaultKey}

Roles == [admin : Pubkeys, issuer : AnyKey, minter : AnyKey]

ConfigTypeOK == adminConfig \in Roles \cup {NoConfig}

ConfigExists == adminConfig # NoConfig

IsAdmin(key) == ConfigExists /\ adminConfig.admin = key

IsIssuer(key) == ConfigExists /\ adminConfig.issuer = key

IsMinter(key) == ConfigExists /\ adminConfig.minter = key

\* Faulty variant of the next definition: a role it forgets.
RequireUniqueRoleKeySkippingMinter(key) ==
    key # DefaultKey /\ ~IsAdmin(key) /\ ~IsIssuer(key)

(***************************************************************************)
(* A new role key is a real key that holds no role at the moment.          *)
(***************************************************************************)
RequireUniqueRoleKey(key) ==
    /\ key # DefaultKey
    /\ ~IsAdmin(key)
    /\ ~IsIssuer(key)
    /\ ~IsMinter(key)

-----------------------------------------------------------------------------

ConfigInit == adminConfig = NoConfig

(***************************************************************************)
(* create_config: whoever calls it first becomes the admin.  The account   *)
(* can be created once; the other two keys stay zeroed.                    *)
(***************************************************************************)
CreateConfig(authority) ==
    /\ ~ConfigExists
    /\ adminConfig' = [admin |-> authority,
                       issuer |-> DefaultKey,
                       minter |-> DefaultKey]

SetAdmin(signer, newAdmin) ==
    /\ IsAdmin(signer)
    /\ RequireUniqueRoleKey(newAdmin)
    /\ adminConfig' = [adminConfig EXCEPT !.admin = newAdmin]

SetIssuer(signer, issuer) ==
    /\ IsAdmin(signer)
    /\ RequireUniqueRoleKey(issuer)
    /\ adminConfig' = [adminConfig EXCEPT !.issuer = issuer]

SetMinter(signer, minter) ==
    /\ IsAdmin(signer)
    /\ RequireUniqueRoleKey(minter)
    /\ adminConfig' = [adminConfig EXCEPT !.minter = minter]

ConfigNext ==
    \E signer \in Pubkeys :
        \/ CreateConfig(signer)
        \/ \E key \in AnyKey : \/ SetAdmin(signer, key)
                               \/ SetIssuer(signer, key)
                               \/ SetMinter(signer, key)

ConfigSpec == ConfigInit /\ [][ConfigNext]_adminConfig

-----------------------------------------------------------------------------

(***************************************************************************)
(* Separation of duties: no key ever holds two roles, whatever order the   *)
(* keys are replaced in.  (A role that was never set holds no key.)        *)
(***************************************************************************)
RolesSeparate ==
    ConfigExists =>
        /\ adminConfig.admin # adminConfig.issuer
        /\ adminConfig.admin # adminConfig.minter
        /\ \/ adminConfig.issuer # adminConfig.minter
           \/ adminConfig.issuer = DefaultKey

(***************************************************************************)
(* One step changes the holder of at most one role, a role once assigned   *)
(* is never unassigned, and the key taking the role over held none: a      *)
(* sequence of set_* calls can never leave the program without an admin,   *)
(* nor move a key straight from one role to another.                       *)
(***************************************************************************)
RolesHandedOver ==
    [][ConfigExists =>
        /\ ConfigExists'
        /\ \E role \in DOMAIN adminConfig :
            /\ \A other \in DOMAIN adminConfig \ {role} :
                adminConfig'[other] = adminConfig[other]
            /\ \A held \in DOMAIN adminConfig :
                adminConfig'[role] \notin {adminConfig[held], DefaultKey}
      ]_adminConfig
=============================================================================
