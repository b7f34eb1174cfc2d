---------------------------- MODULE MCBeamControl ----------------------------
EXTENDS ControlDevice

CONSTANTS f, g

MCFd == {f, g}

Layout(bss_len, base) ==
    [snapshot_base |-> base, snapshot_size |-> 8, data_off |-> 6,
     segment_start |-> 16, bss_start |-> 18, bss_end |-> 18 + bss_len,
     exit_fault_base |-> 40, exit_fault_size |-> 4]

Image(contents, layout, devices) ==
    [bss |-> contents, data |-> [b \in 0 .. 1 |-> b], layout |-> layout, sp |-> 32,
     devices |-> devices]

(* Three words and a tail byte: every pattern a tool could patch in, the    *)
(* ones without a snapshot region among them; an image whose snapshot       *)
(* region lies in its segment, and one whose .bss is too long for the       *)
(* records; and a small one whose program uses the control devices.         *)
MCImages ==
    {Image(b, Layout(7, 4), FALSE) : b \in [0 .. 6 -> {0, 1}]} \cup
    {Image([b \in 0 .. 6 |-> 1], Layout(7, 20), FALSE),
     Image([b \in 0 .. 7 |-> 1], Layout(8, 4), FALSE),
     Image([b \in 0 .. 4 |-> IF b < 2 THEN 1 ELSE 0], Layout(5, 4), TRUE)}
=============================================================================
