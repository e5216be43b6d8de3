---------------------------- MODULE MCServiceHost ----------------------------
(***************************************************************************)
(* Configurations of the service for TLC.                                  *)
(***************************************************************************)
EXTENDS ServiceHost

(* One change at a time around a base configuration. *)
Base == [Bootstrap("latest") EXCEPT !.devices = {"wifi"}, !.names = {"cloud"}]
MCConfigs ==
    {Base,
     [Base EXCEPT !.devices = {}],
     [Base EXCEPT !.devices = {"usb", "wifi"}],
     [Base EXCEPT !.devices = {"emulator", "redroid"}],
     [Base EXCEPT !.names = {"cloud", "box"}],
     [Base EXCEPT !.network = "custom", !.image = "v2"],
     [Base EXCEPT !.manual = TRUE, !.public = "box"],
     [Base EXCEPT !.names = {"localhost"}, !.keys = TRUE],
     [Base EXCEPT !.names = {"localhost"}, !.keys = TRUE, !.devices = {"wifi", "emulator"}]}
=============================================================================
