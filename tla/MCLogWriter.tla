---------------------------- MODULE MCLogWriter ----------------------------
(***************************************************************************)
(* Small instances of the log writer and its supervisor for TLC.           *)
(***************************************************************************)
EXTENDS LogWriterSupervisor

CONSTANTS app, updater

\* The application starts logging, then may stop or start it again while the other thread updates the
\* firmware, stores a configuration, or stops.
AppScripts ==
    {RequestStart, RequestStart \o RequestStop, RequestStart \o RequestStart, RequestStart \o StoreLoggingEarly}

UpdaterScripts ==
    {FirmwareUpdate, StoreLogging, StoreSensors, StoreSensorsEarly, StoreSensorsEarly \o FirmwareUpdate}

Scripts ==
    {s \in [Caller -> AppScripts \cup UpdaterScripts] : s[app] \in AppScripts /\ s[updater] \in UpdaterScripts}

=============================================================================
