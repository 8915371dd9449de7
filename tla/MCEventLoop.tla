---------------------------- MODULE MCEventLoop ----------------------------
(* Instances of EventLoop for TLC.                                         *)
EXTENDS EventLoop

\* An overview that fits the panel, and a list that does not.
MCSoftwareRows == <<1, 4>>

\* A page of one sheet, one whose cache settings are on the second, a page
\* that may be skipped, and the clock.
MCHardwareCycle == <<"STD", "CPU", "SCSI", "CLOCK">>
MCHardwarePages == [STD |-> 1, CPU |-> 2, SCSI |-> 1, CLOCK |-> 1]

\* A disk, a floppy drive and a volume without a device.
MCDrives == <<[name |-> "DH0", scsi |-> TRUE, device |-> TRUE],
              [name |-> "DF0", scsi |-> FALSE, device |-> TRUE],
              [name |-> "RAM", scsi |-> FALSE, device |-> FALSE]>>

\* A report that cannot be made, one that fits, one that scrolls.
MCReports == {0, 1, 3}
MCPositions == {0, 2}
=============================================================================
