--------------------------- MODULE MCDeviceState ---------------------------
(* An instance of DeviceState: three shadow parameters in a row, one of    *)
(* them used_blocks, then a special one, a shadow one, which is computed   *)
(* anew after loading, and VRAM.                                           *)
EXTENDS DeviceState

param(k, a, l) == [kind |-> k, addr |-> a, len |-> l]

MCParams == {param("shadow", 0, 2), param("shadow", 2, 1), param("shadow", 3, 1),
             param("special", 4, 1), param("shadow", 5, 1), param("vram", 6, 1)}
=============================================================================
