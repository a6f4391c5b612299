------------------------------ MODULE MCCanBus ------------------------------
(* Constant values for model checking CanBus.  Bit 0 stands for the bits of *)
(* a standard id, bit 1 for the further bits of an extended id, bit 2 for   *)
(* those beyond.                                                            *)
EXTENDS CanBus

MCBits    == 0 .. 2
MCStdBits == {0}
MCExtBits == {0, 1}

Msg(id, is_extended, dlc) == [id |-> id, is_extended |-> is_extended, dlc |-> dlc]

\* A standard and an extended message; and ids or a length that do not fit.
MCMessages ==
  {Msg({0}, FALSE, 8), Msg({0, 1}, TRUE, 0),
   Msg({1}, FALSE, 0), Msg({2}, TRUE, 0), Msg({0}, FALSE, 9), NullPtr}

MCFilters == {[id |-> {}, mask |-> {0}, is_extended |-> TRUE]}

Cfg(bitrate, sample_point, sync_jump) ==
  [bitrate |-> bitrate, sample_point |-> sample_point, sync_jump |-> sync_jump]

\* One configuration that is accepted, at a limit, and two that are not.
MCConfigs == {Cfg(125000, 90, 4), Cfg(1000001, 90, 4), NullPtr}
=============================================================================
