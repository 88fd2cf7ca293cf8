--------------------------------- MODULE BkAdc ---------------------------------
(* The two converters of the BK7258 that read resistor ladders of buttons:      *)
(* bk/lib/embed/adc_binding.c, each started on first use.                      *)
EXTENDS Integers, Sequences

CONSTANTS Raws,    \* samples: signed on the sigma-delta converter
          Depth    \* samples its queue holds from before

VARIABLES st,    \* s_adc4_initialized, s_saradc14_initialized
          dev,   \* how far each converter's initialisation has come, times acquired
          fifo,  \* samples of before the call that wait in the queue
          adc    \* the last reading
vars == <<st, dev, fifo, adc>>

Stale == 64
Avg   == 8
Stages4  == <<"driver", "init", "config", "start">>
StagesSar == <<"gpio", "init", "config", "bypass", "acquire", "start">>
NoReading == [rc |-> "none", mv |-> 0, from |-> {}, old |-> FALSE, took |-> 0]

Init ==
    /\ st = [adc4 |-> FALSE, sar |-> FALSE]
    /\ dev = [adc4 |-> "off", sar |-> "off", acquired |-> 0]
    /\ fifo = 0 /\ adc = NoReading

\* what adc4_init can come to: it begins anew after a failure
Inited4 ==
    IF st.adc4 THEN {[s |-> st, d |-> dev, rc |-> "ok"]}
    ELSE {[s |-> [st EXCEPT !.adc4 = TRUE], d |-> [dev EXCEPT !.adc4 = "start"], rc |-> "ok"],
          [s |-> st, d |-> dev, rc |-> "unexpected"]}
         \cup {[s |-> st, d |-> [dev EXCEPT !.adc4 = Stages4[n]], rc |-> "unexpected"] : n \in 1..3}

Adc4Init == \E i \in Inited4 : st' = i.s /\ dev' = i.d /\ adc' = [NoReading EXCEPT !.rc = i.rc] /\ UNCHANGED fifo

\* C divides towards zero
Quotient(n, d) == IF n < 0 THEN -((-n) \div d) ELSE n \div d

\* mutant: the samples of before count
AveragedAtOnce(old, a, b, n) ==
    LET sum == n * a + (Avg - n) * b
        volt == Quotient(sum, Avg) IN
    [rc |-> "ok", mv |-> IF volt < 0 THEN 0 ELSE volt,
     from |-> {a, b}, old |-> old > 0, took |-> Avg]

\* what the queue held is read away first, then n samples a and the others b are
\* averaged; bk_sdmadc_calculate_voltage is monotonic and taken as the value
Averaged(old, a, b, n) ==
    LET sum == n * a + (Avg - n) * b
        volt == Quotient(sum, Avg) IN
    [rc |-> "ok", mv |-> IF volt < 0 THEN 0 ELSE volt,
     from |-> {a, b}, old |-> old > Stale, took |-> Stale + Avg]

\* bk_embed_adc4_read_voltage_mv; the wait for a sample is bounded
Adc4Read ==
    \E i \in Inited4 :
        /\ st' = i.s /\ dev' = i.d /\ fifo' = 0
        /\ \/ i.rc = "ok" /\ \E a, b \in Raws, n \in 0..Avg : adc' = Averaged(fifo, a, b, n)
           \/ adc' = [NoReading EXCEPT !.rc = IF i.rc = "ok" THEN "unexpected" ELSE i.rc]

\* between calls the queue fills
Fill == dev.adc4 = "start" /\ fifo' \in 1..Depth /\ UNCHANGED <<st, dev>> /\ adc' = NoReading

\* the second converter: what a failed start had acquired is acquired again,
\* here counted once
InitedSar ==
    IF st.sar THEN {[s |-> st, d |-> dev, rc |-> "ok"]}
    ELSE {[s |-> [st EXCEPT !.sar = TRUE], d |-> [dev EXCEPT !.sar = "start", !.acquired = 1], rc |-> "ok"],
          [s |-> st, d |-> dev, rc |-> "unexpected"]}
         \cup {[s |-> st, d |-> [dev EXCEPT !.sar = StagesSar[n], !.acquired = IF n = 5 THEN 1 ELSE @],
                rc |-> "unexpected"] : n \in 1..5}

SarInit == \E i \in InitedSar : st' = i.s /\ dev' = i.d /\ adc' = [NoReading EXCEPT !.rc = i.rc] /\ UNCHANGED fifo

SarRead ==
    \E i \in InitedSar :
        /\ st' = i.s /\ dev' = i.d /\ UNCHANGED fifo
        /\ \/ i.rc = "ok" /\ \E raw \in {0, 1, 4095} :
                  adc' = [rc |-> "ok", mv |-> (raw * 2400) \div 4096, from |-> {raw}, old |-> FALSE, took |-> 1]
           \/ adc' = [NoReading EXCEPT !.rc = IF i.rc = "ok" THEN "unexpected" ELSE i.rc]

Next == Adc4Init \/ Adc4Read \/ Fill \/ SarInit \/ SarRead
Spec == Init /\ [][Next]_vars

----------------------------------------------------------------------------
\* A reading is one of samples taken during the call, lies between the least and
\* the greatest of them, and is not negative.
ReadingFresh ==
    adc.rc = "ok" /\ adc.took > 1 =>
        /\ ~adc.old /\ adc.mv >= 0
        /\ adc.mv > 0 => (\E r \in adc.from : adc.mv <= r) /\ (\E r \in adc.from : r <= adc.mv)

\* A converter counts as initialised only when every stage has been passed, after
\* whatever failures.
ConverterRuns ==
    /\ st.adc4 => dev.adc4 = "start"
    /\ st.sar => dev.sar = "start" /\ dev.acquired > 0
    /\ adc.rc = "ok" => st.adc4 \/ st.sar
=============================================================================
