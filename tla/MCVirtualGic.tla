---------------------------- MODULE MCVirtualGic ----------------------------
(* Two CPUs: the boot CPU, which receives console input, and a CPU whose    *)
(* guest programs its GIC.                                                  *)
EXTENDS VirtualGic

\* The router of the serial port is left at reset or set to either CPU.
ConsoleRouter == {<<ConsoleInt + 32, cpu>> : cpu \in CPUs}

\* The routers of both devices are left at reset or set to the guest's CPU.
OwnRouters == {<<i + 32, cpu>> : i \in {ConsoleInt, DiskInt}, cpu \in Guests}
=============================================================================
