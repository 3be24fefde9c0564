--------------------------- MODULE MCPlatformControl ---------------------------
(* PlatformControl on two CPUs for TLC: a power limit with its enable bit in   *)
(* the registers of a package, a frequency of one CPU, two mailboxes with two  *)
(* fields each and a register in memory with two fields.  Mailboxes and memory *)
(* have a bit that is no field.                                                *)
EXTENDS PlatformControl

Regs == {"power 0", "power 1", "perf 0", "mbox 0", "mbox 1", "mem 0"}
Msr == <<"FREQ", "PL1_ENABLE", "PL1_LIMIT">>
Sst == <<"ENABLE 0", "ENABLE 1", "RMID 0", "RMID 1", "WEIGHT 0", "MIN 0">>
Memory == {"WEIGHT 0", "MIN 0"}

Names == [c \in Range(Msr) \cup Range(Sst) |->
            CASE c \in {"ENABLE 0", "ENABLE 1"} -> "ENABLE"
              [] c \in {"RMID 0", "RMID 1"} -> "RMID"
              [] OTHER -> c]
Writes == [c \in DOMAIN Names |->
            CASE c = "FREQ" -> <<"perf 0">>
              [] c \in {"ENABLE 0", "RMID 0"} -> <<"mbox 0">>
              [] c \in {"ENABLE 1", "RMID 1"} -> <<"mbox 1">>
              [] c \in Memory -> <<"mem 0">>
              [] OTHER -> <<"power 0", "power 1">>]
Masks == [c \in DOMAIN Names |->
            IF c \in {"PL1_ENABLE", "RMID 0", "RMID 1", "MIN 0"} THEN {1} ELSE {0}]
Enable == [c \in {"PL1_LIMIT"} |-> "PL1_ENABLE"]
AllSame == [r \in Regs |-> IF r \in {"mbox 0", "mbox 1", "mem 0"} THEN {2} ELSE {}]

Ask == [r \in {"FREQUENCY", "POWER_PACKAGE_LIMIT", "ENABLE", "RMID", "WEIGHT", "MIN"} |->
          CASE r = "FREQUENCY" -> <<"FREQ">>
            [] r = "POWER_PACKAGE_LIMIT" -> <<"PL1_LIMIT">>
            [] r = "ENABLE" -> <<"ENABLE 0", "ENABLE 1">>
            [] r = "RMID" -> <<"RMID 0">>
            [] r = "WEIGHT" -> <<"WEIGHT 0">>
            [] r = "MIN" -> <<"MIN 0">>]
===============================================================================
