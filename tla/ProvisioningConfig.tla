------------------------- MODULE ProvisioningConfig -------------------------
(***************************************************************************)
(* The feature provisioning_config, for a device with an EST certificate:  *)
(* the only method that changes while the service runs.  The certificate's *)
(* expiry is read when the feature is created and at its interval, never   *)
(* when the twin is connected.  A certificate stands for its expiry.       *)
(***************************************************************************)
EXTENDS Reporting

CONSTANT Certificates

\* X509::new with est: no certificate is no error, more than one is.
Readable(certificates) == \A c, d \in certificates : c = d
Expires(certificates) ==
  IF certificates = {} THEN "unknown" ELSE CHOOSE c \in certificates : TRUE

ProvisioningView ==
  IF Readable(world) THEN [expires |-> Expires(world)] ELSE Nothing

\* An error of the constructor ends the process; systemd starts it again.
ProvisioningNew ==
  /\ feature = "provisioning" /\ Readable(world)
  /\ New("provisioning", [expires |-> Expires(world)], Nothing, "unused")

ProvisioningConnect ==
  /\ At("provisioning", "report")
  /\ Finish(<<cache>>)
  /\ UNCHANGED <<web, cache, seen, events, missed, worldVars, streamVars>>

\* A Tick.
Refresh ==
  /\ Ready("provisioning") /\ Readable(world) /\ cache.expires # Expires(world)
  /\ cache' = [expires |-> Expires(world)]
  /\ Finish(<<cache'>>)
  /\ UNCHANGED <<web, seen, events, missed, worldVars, streamVars>>

\* certd replaces a certificate by writing the new one and removing the old.
CertificateWritten ==
  /\ feature = "provisioning" /\ Spend("changes")
  /\ \E c \in Certificates \ world : WorldBecomes(world \cup {c})

CertificateRemoved ==
  /\ feature = "provisioning" /\ ~Readable(world)
  /\ \E c \in world : WorldBecomes(world \ {c})
  /\ UNCHANGED budget

CertificatesLost ==
  /\ feature = "provisioning" /\ Spend("changes")
  /\ world # {} /\ WorldBecomes({})

=============================================================================
