------------------------ MODULE DeviceUpdateConsent ------------------------
(***************************************************************************)
(* The feature device_update_consent: three files of which the service     *)
(* writes one, general consent, when the cloud desires it, and reports all.*)
(* A write truncates the file first; a file caught in between cannot be    *)
(* parsed, and one that cannot be parsed fails connect_twin.               *)
(***************************************************************************)
EXTENDS Reporting

CONSTANTS
  Consents,   \* lists of consents, sorted and without duplicates
  Lowercase   \* each of them in lower case

Torn == "torn"
ASSUME ConsentsAssumption == Torn \notin Consents
Watched == {"user_consent_request", "user_consent_history"}
ConsentFile == Watched \cup {"general_consent"}

\* granted: whether the user_consent.json of a component has been written.
ConsentWorlds ==
  [general_consent : Consents \cup {Torn}, granted : BOOLEAN,
   user_consent_request : {"old", "new", Torn},
   user_consent_history : {"old", "new", Torn}]

FileOf(file) == [f \in {file} |-> world[f]]
ConsentView == [f \in {g \in ConsentFile : world[g] # Torn} |-> world[f]]

ConsentNew == New("consent", Nothing, Nothing, "unused")

\* connect_twin reports one file after the other.
ConsentConnect ==
  /\ \/ At("consent", "general") /\ world.general_consent # Torn
        /\ Continue("request", <<FileOf("general_consent")>>)
     \/ At("consent", "request") /\ world.user_consent_request # Torn
        /\ Continue("history", <<FileOf("user_consent_request")>>)
     \/ At("consent", "history") /\ world.user_consent_history # Torn
        /\ Finish(<<FileOf("user_consent_history")>>)
  /\ UNCHANGED <<web, cache, seen, events, missed, worldVars, streamVars>>

ConsentUnparsable ==
  /\ \/ At("consent", "general") /\ world.general_consent = Torn
     \/ At("consent", "request") /\ world.user_consent_request = Torn
     \/ At("consent", "history") /\ world.user_consent_history = Torn
  /\ Fail(FALSE)
  /\ UNCHANGED worldVars

\* Mutant: an event clears all that are pending.
ConsentEventMutant ==
  /\ Ready("consent")
  /\ \E file \in events :
       Finish(IF world[file] = Torn THEN <<>> ELSE <<FileOf(file)>>)
  /\ events' = {}
  /\ UNCHANGED <<web, cache, seen, missed, worldVars, streamVars>>

\* A FileModified event; a torn file is logged, its completion is another event.
ConsentEvent ==
  /\ Ready("consent")
  /\ \E file \in events :
       /\ Finish(IF world[file] = Torn THEN <<>> ELSE <<FileOf(file)>>)
       /\ events' = events \ {file}
  /\ UNCHANGED <<web, cache, seen, missed, worldVars, streamVars>>

\* Mutant: the report is made before the file is written.
DesiredGeneralConsentMutant ==
  /\ Ready("consent") /\ client /\ Spend("changes")
  /\ world.general_consent # Torn
  /\ \E desired \in Consents \ {Lowercase[world.general_consent]} :
       /\ seen' = [general_consent |-> desired]
       /\ Continue("write", <<seen'>>)
  /\ world' = [world EXCEPT !.general_consent = Torn]
  /\ UNCHANGED <<web, cache, events, missed, streamVars>>

\* update_general_consent, up to the truncation of the file.
DesiredGeneralConsent ==
  /\ Ready("consent") /\ client /\ Spend("changes")
  /\ world.general_consent # Torn
  /\ \E desired \in Consents \ {Lowercase[world.general_consent]} :
       seen' = [general_consent |-> desired]
  /\ world' = [world EXCEPT !.general_consent = Torn]
  /\ Continue("write", <<>>)
  /\ UNCHANGED <<web, cache, events, missed, streamVars>>

SaveGeneralConsent ==
  /\ At("consent", "write")
  /\ world' = [world EXCEPT !.general_consent = seen.general_consent]
  /\ Continue("saved", <<>>)
  /\ UNCHANGED <<web, cache, seen, events, missed, budget, streamVars>>

SaveFails ==
  /\ At("consent", "write") /\ Spend("disruptions")
  /\ Fail(FALSE)
  /\ UNCHANGED world

ReportGeneralConsent ==
  /\ At("consent", "saved")
  /\ Finish(<<seen>>)
  /\ seen' = Nothing
  /\ UNCHANGED <<web, cache, events, missed, worldVars, streamVars>>

\* user_consent: components are written one by one until a name is invalid.
UserConsent ==
  /\ Ready("consent") /\ Spend("changes")
  /\ world' = [world EXCEPT !.granted = TRUE]
  /\ Finish(<<>>)
  /\ UNCHANGED <<web, cache, seen, events, missed, streamVars>>

\* The update client writes the other files, as non-atomically as the service.
ConsentToolTruncates ==
  /\ feature = "consent" /\ Spend("changes")
  /\ \E file \in Watched :
       /\ world[file] # Torn
       /\ FileChanged(file, [world EXCEPT ![file] = Torn])

ConsentToolWrites ==
  /\ feature = "consent"
  /\ \E file \in Watched :
       /\ world[file] = Torn
       /\ FileChanged(file, [world EXCEPT ![file] = "new"])
  /\ UNCHANGED budget

=============================================================================
