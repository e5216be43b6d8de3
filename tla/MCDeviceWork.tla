---------------------------- MODULE MCDeviceWork ----------------------------
(***************************************************************************)
(* Directories and inventories for TLC.                                    *)
(***************************************************************************)
EXTENDS DeviceWork

\* Two screenshots below the directory of the video of run u1; another run.
MCAbove == [video |-> {"u1"}, shot1 |-> {"u1", "u1/shots"}, shot2 |-> {"u1", "u1/shots"},
            video2 |-> {"u2"}]
MCDir == [video |-> "u1", shot1 |-> "u1/shots", shot2 |-> "u1/shots", video2 |-> "u2"]
MCRoot == [u1 |-> "u1", u2 |-> "u2"]

\* The shipped AVD with another image configured, an AVD and a golden image
\* of the operator's own with a phone beside it, phones only, and no Android.
MCInventories ==
    {[emulator |-> [name |-> "credimi", image |-> "image2", leaf |-> "credimi-golden"], phones |-> {}],
     [emulator |-> [name |-> "own", image |-> "image2", leaf |-> "own-golden"], phones |-> Phones],
     [emulator |-> None, phones |-> Phones],
     [emulator |-> None, phones |-> {}]}
=============================================================================
