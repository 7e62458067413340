--------------------------- MODULE MCAppLifecycle ---------------------------
(* The app lifecycle on a small instance: a queue short enough to lose     *)
(* events, and keys enough to launch an app, start its worker, leave it    *)
(* and launch the next.                                                    *)
EXTENDS AppLifecycle
=============================================================================
