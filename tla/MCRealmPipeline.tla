---------------------------- MODULE MCRealmPipeline ----------------------------
(***************************************************************************)
(* Instances of RealmPipeline for TLC.  Two runs share the module: one     *)
(* proposes the events about devices and recovery, the other the events    *)
(* about roots, recovery authorities, sessions and federation trusts.      *)
(* Names are shared between ids and references in both.                    *)
(***************************************************************************)
EXTENDS RealmPipeline, TLC

RecoveryTypes == {"ROOT_AUTHORITY_CREATED", "DEVICE_KEY_ISSUED", "DEVICE_KEY_REVOKED",
                  "RECOVERY_AUTHORITY_ISSUED", "RECOVERY_AUTHORITY_REVOKED",
                  "RECOVERY_EXECUTED", "RECOVERY_CEREMONY"}

CeremonyTypes == RecoveryTypes \ {"RECOVERY_EXECUTED"}

GrantTypes == {"ROOT_AUTHORITY_CREATED", "AUTHORITY_ROTATED", "DEVICE_KEY_ISSUED",
                    "DEVICE_KEY_REVOKED", "RECOVERY_AUTHORITY_ISSUED",
                    "RECOVERY_AUTHORITY_REVOKED", "SESSION_AUTHORITY_ISSUED",
                    "SESSION_AUTHORITY_EXPIRED", "FEDERATION_TRUST_ESTABLISHED",
                    "FEDERATION_TRUST_UPDATED", "FEDERATION_TRUST_REVOKED"}

=============================================================================
