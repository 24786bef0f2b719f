---------------------------- MODULE MCDetection ----------------------------
(* Finite instances of Detection, three in one run: misses of three periods    *)
(* examined one at a time, the hours of one period, and two runs that overlap. *)
EXTENDS Detection

VARIABLE scene      \* what this behaviour examines; it never changes

CONSTANTS d1, d2

DetectScenes == {"misses", "hours", "overlap"}

Plain == [reg |-> 40, ot |-> 0]
MCSheets == {Plain, [reg |-> 45, ot |-> 0], [reg |-> 40, ot |-> 21], [reg |-> 45, ot |-> 25],
             [reg |-> 10, ot |-> 0]}

Week(w, hours, status_then) == [week |-> w, reg |-> hours, ot |-> 0, status |-> status_then]
MCHistories == {{}, {Week(0, 20, "Approved"), Week(-1, 25, "Approved"), Week(-7, 21, "Approved"),
                     Week(-8, 90, "Approved"), Week(-2, 90, "Rejected"), Week(-3, 90, None)}}

Settled(key, value) ==
    [k \in {"consecutive_miss_threshold", "reg_hours_limit", "tolerance_pct", "basis"} |->
        IF k = key THEN value ELSE None]
MCSettings == {Settled("consecutive_miss_threshold", n) : n \in {None, Bad, 1, 3}}
              \cup {Settled("reg_hours_limit", 50), Settled("tolerance_pct", 100),
                    Settled("basis", "typo")}
MissSettings == {Settled("consecutive_miss_threshold", n) : n \in {None, 1, 3}}

MuteOf(type, magnitude) == [type |-> type, magnitude |-> magnitude]
MCMutes == {MuteOf("group_a1_first_miss", None), MuteOf("group_b_ot_over_limit", None),
            MuteOf("group_c_variance", None), MuteOf("group_c_variance", 1)}

Starts ==
    CASE scene = "misses" -> settings \in MissSettings /\ history = {}
      [] scene = "hours" -> TRUE
      [] OTHER -> settings = Settled("basis", None) /\ history = {}

Bounds ==
    /\ scene # "overlap" => runs'[d2] = Idle
    /\ \A d \in Detectors : runs'[d] # Idle =>
          runs'[d].week \in (IF scene = "misses" THEN 1 .. 3
                             ELSE IF scene = "hours" THEN {1} ELSE 1 .. 2)
    /\ scene # "hours" => \A w \in 1 .. Weeks : sheets'[w] \in {None, Plain}
    /\ scene = "hours" => \A w \in 2 .. Weeks : sheets'[w] = None
    /\ scene = "hours" => Len(alerts') <= 2
    /\ scene = "misses" => \A i \in DOMAIN registry' : registry'[i].type = "group_a1_first_miss"
    /\ scene = "overlap" => registry' = << >>

Misses == scene = "misses" /\ Starts /\ DetectInit
MissesSpec == Misses /\ [][DetectNext /\ Bounds /\ UNCHANGED scene]_<<detectVars, scene>>
=============================================================================
