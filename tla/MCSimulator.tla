----------------------------- MODULE MCSimulator -----------------------------
(***************************************************************************)
(* An instance of Simulator for TLC.  Its numbers are those that readConf  *)
(* takes from the small conf.txt below.                                    *)
(***************************************************************************)
EXTENDS Simulator, Conf

CONSTANTS DISK1_MIN, DISK2_MIN

MCNumbers == [w \in {"1", "2", "7", "20"} |->
                CASE w = "1" -> 1 [] w = "2" -> 2 [] w = "7" -> 7 [] w = "20" -> 20]

Setting(key, val) == <<key, Space, val, Newline>>

ConfText ==
  FlattenSeq(<<Setting("FIN_TIME", "7"),
               Setting("ARRIVE_MIN", "1"), Setting("ARRIVE_MAX", "2"),
               Setting("QUIT_PROB", "20"),
               Setting("CPU_MIN", "1"),    Setting("CPU_MAX", "2"),
               Setting("DISK1_MIN", "1"),  Setting("DISK1_MAX", "2"),
               Setting("DISK2_MIN", "2"),  Setting("DISK2_MAX", "2")>>)

MCDiskMin == <<DISK1_MIN, DISK2_MIN>>

(* CPU queue of 2, disk queues of 2 and 1: the disks fill up soon. *)
SmallQueues == [dev \in Device |-> IF dev = 2 THEN 1 ELSE 2]

(* Texts of a key and two numbers up to a length that has room for the key *)
(* twice.                                                                  *)
TextLength == 7

MCTexts ==
  {text \in BoundedSeq({"SEED", "7", "20", Space, Newline}, TextLength) :
     \A p \in 1..(Len(text) - 1) :
        text[p] \in Delimiter \/ text[p + 1] \in Delimiter}

(* When simulate() starts, readConf has returned the last value of every   *)
(* key, or the assertion of str_split that it has counted the tokens right *)
(* has ended the program: it does so exactly for a text with a blank line, *)
(* a line that begins with a space or two adjacent spaces.                 *)
ConfIsRead ==
  Init =>
    /\ \A text \in MCTexts : ReadsConf(text)
    /\ LET conf == readConf(ConfText)
       IN  /\ FIN_TIME = conf["FIN_TIME"]
           /\ ARRIVE_MIN = conf["ARRIVE_MIN"] /\ ARRIVE_MAX = conf["ARRIVE_MAX"]
           /\ CPU_MIN = conf["CPU_MIN"] /\ CPU_MAX = conf["CPU_MAX"]
           /\ DISK_MIN = <<conf["DISK1_MIN"], conf["DISK2_MIN"]>>
           /\ DISK1_MAX = conf["DISK1_MAX"] /\ QUIT_PROB = conf["QUIT_PROB"]
=============================================================================
