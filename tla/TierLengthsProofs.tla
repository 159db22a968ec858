------------------------- MODULE TierLengthsProofs -------------------------
(***************************************************************************)
(* Mask agreement, the memory bound and "nothing is lost early", for every *)
(* set of valid constructor arguments and every stream length.             *)
(***************************************************************************)
EXTENDS TierLengths, TLAPS

(* The arguments of the layer at hand are among those __init__ accepts.    *)
LEMMA ArmIsValid == TypeOK => ValidArm(arm)
BY ArmsAssumption DEF TypeOK

(* No tokens are a number of whole blocks.                                 *)
LEMMA MultipleZero == ASSUME ValidArm(arm) PROVE Multiple(0)
BY SMT DEF Multiple, ValidArm

(* One block more is a number of whole blocks.                             *)
LEMMA MultiplePlus ==
  ASSUME ValidArm(arm), NEW x \in Nat, Multiple(x)
  PROVE  Multiple(x + arm.absorb_block)
<1>1. PICK k \in Nat : x = k * arm.absorb_block
  BY DEF Multiple
<1>2. k + 1 \in Nat /\ x + arm.absorb_block = (k + 1) * arm.absorb_block
  BY <1>1, SMT DEF ValidArm
<1>3. QED BY <1>2 DEF Multiple

(* A positive number of whole blocks holds a block, and without it is      *)
(* still whole.                                                            *)
LEMMA MultipleMinus ==
  ASSUME ValidArm(arm), NEW x \in Nat, Multiple(x), x > 0
  PROVE  x >= arm.absorb_block /\ Multiple(x - arm.absorb_block)
<1> DEFINE b == arm.absorb_block
<1>1. PICK k \in Nat : x = k * b
  BY DEF Multiple
<1>2. b \in Nat /\ b > 0
  BY DEF ValidArm
<1>3. k >= 1
  BY <1>1, <1>2, SMT
<1>4. k - 1 \in Nat /\ x = (k - 1) * b + b /\ (k - 1) * b \in Nat
  BY <1>1, <1>2, <1>3, SMT
<1>5. x - b = (k - 1) * b /\ x >= b
  BY <1>2, <1>4, SMT
<1>6. QED BY <1>4, <1>5 DEF Multiple

(* What an absorb does to the two coordinate tiers together: they take all *)
(* m columns up to their joint budget, and only a full pair loses any.     *)
LEMMA TailEffect ==
  ASSUME ValidArm(arm), NEW m \in Nat,
         f_len \in 0..arm.coord_budget, q_len \in 0..arm.quant_budget,
         q_len > 0 => f_len = arm.coord_budget,
         AbsorbColumns(m)
  PROVE  /\ f_len' \in 0..arm.coord_budget /\ q_len' \in 0..arm.quant_budget
         /\ q_len' > 0 => f_len' = arm.coord_budget
         /\ f_len' + q_len'
              = Lesser(arm.coord_budget + arm.quant_budget, f_len + q_len + m)
BY DEF AbsorbColumns, Lesser, ValidArm

(* The same through the exact tier: its pool fills first.                  *)
LEMMA SlashEffect ==
  ASSUME ValidArm(arm), NEW m \in Nat,
         f_len \in 0..arm.coord_budget, q_len \in 0..arm.quant_budget,
         hh_len \in 0..arm.hh_budget,
         q_len > 0 => f_len = arm.coord_budget,
         AbsorbBlockSlash(m)
  PROVE  /\ f_len' \in 0..arm.coord_budget /\ q_len' \in 0..arm.quant_budget
         /\ hh_len' \in 0..arm.hh_budget
         /\ q_len' > 0 => f_len' = arm.coord_budget
         /\ hh_len' = Lesser(arm.hh_budget, hh_len + m)
         /\ f_len' + q_len' = Lesser(arm.coord_budget + arm.quant_budget,
                                    f_len + q_len + (hh_len + m - hh_len'))
<1>1. hh_len + m - hh_len' \in Nat /\ hh_len' \in 0..arm.hh_budget
      /\ hh_len' = Lesser(arm.hh_budget, hh_len + m)
  BY DEF AbsorbBlockSlash, Lesser, ValidArm
<1>2. AbsorbColumns(hh_len + m - hh_len')
  BY DEF AbsorbBlockSlash
<1> QED BY <1>1, <1>2, TailEffect

-----------------------------------------------------------------------------
(* The empty layer satisfies the invariant.                                *)
LEMMA InitIInv == Init => IInv
BY ArmsAssumption, MaxTokensAssumption
   DEF Init, IInv, TypeOK, PhaseInv, HistoryInv, PredictionInv, ValidArm,
       NoPrediction, Modes, Predicting, NothingLostEarly, Lost, Given,
       lowrank_enabled, hh_enabled

(* The mask sizes keep the invariant.                                      *)
LEMMA GetMaskSizesKeeps ==
  ASSUME IInv, NEW n \in 1..MaxTokens, GetMaskSizes(n)
  PROVE  IInv'
<1>0. ValidArm(arm) /\ MaxTokens \in Nat
  BY ArmIsValid, MaxTokensAssumption DEF IInv
<1> USE <1>0
<1>1. TypeOK'
  BY DEF IInv, TypeOK, GetMaskSizes, ValidArm, MidLen, AttendedLength,
         HhAttendedLen, Modes, tiers, answer
<1>2. PhaseInv'
  BY DEF IInv, TypeOK, PhaseInv, GetMaskSizes, ValidArm, tiers, answer
<1>3. HistoryInv'
  BY DEF IInv, TypeOK, PhaseInv, HistoryInv, NothingLostEarly, Lost, Given,
         GetMaskSizes, ValidArm, tiers, answer, lowrank_enabled, hh_enabled
<1>4. PredictionInv'
  <2>1. CASE mode = "normal" /\ cumulative_length > 0
    <3>1. Multiple(0)'
      BY MultipleZero, <2>1 DEF GetMaskSizes, Multiple
    <3>2. Predicts(0)'
      BY <2>1 DEF IInv, TypeOK, HistoryInv, GetMaskSizes, ValidArm, tiers,
         Predicts, lowrank_enabled, hh_enabled, MidLen, HhAttendedLen,
         MidCap, Lesser
    <3>3. Due' = 0
      BY <2>1 DEF IInv, TypeOK, GetMaskSizes, tiers, Due
    <3>4. pc' = "mask"
      BY <2>1 DEF GetMaskSizes
    <3> QED BY <3>1, <3>2, <3>3, <3>4 DEF PredictionInv, Predicting
  <2>2. CASE ~(mode = "normal" /\ cumulative_length > 0)
    BY <2>2 DEF IInv, TypeOK, PhaseInv, GetMaskSizes, tiers, PredictionInv,
       Predicting, AttendedLength, MidLen, HhAttendedLen, ValidArm
  <2> QED BY <2>1, <2>2
<1> QED BY <1>1, <1>2, <1>3, <1>4 DEF IInv

(* Each block of the prediction keeps it the prediction of what is left.   *)
LEMMA PostUpdateLengthsKeeps ==
  ASSUME IInv, PostUpdateLengths
  PROVE  IInv'
<1>0. ValidArm(arm)
  BY ArmIsValid DEF IInv
<1> USE <1>0
<1>1. TypeOK'
  BY DEF IInv, TypeOK, PostUpdateLengths, ValidArm, AbsorbAt, MidCap, Lesser,
         tiers, answer
<1>2. PhaseInv' /\ HistoryInv'
  BY DEF IInv, PhaseInv, HistoryInv, NothingLostEarly, Lost, Given,
         PostUpdateLengths, tiers, answer, lowrank_enabled, hh_enabled
<1>3. PredictionInv'
  <2>1. /\ Due \in Nat /\ Multiple(Due) /\ Predicts(Due)
        /\ pc = "mask" /\ pc' = "mask"
    BY DEF IInv, PredictionInv, Predicting, PostUpdateLengths
  <2>2. Due' = Due + arm.absorb_block /\ Due' \in Nat
    BY <2>1 DEF IInv, TypeOK, PostUpdateLengths, Due, ValidArm, AbsorbAt, tiers
  <2>3. Multiple(Due)'
    BY <2>1, <2>2, MultiplePlus DEF PostUpdateLengths, Multiple
  <2>4. pred'.recent >= arm'.recent_window
    BY DEF IInv, TypeOK, PostUpdateLengths, AbsorbAt, ValidArm
  <2>5. Predicts(Due)'
    <3> DEFINE d == Due
               b == arm.absorb_block
    <3>0. /\ d \in Nat /\ b \in Nat /\ hh_len \in Nat /\ arm.hh_budget \in Nat
          /\ MidLen \in Nat /\ MidCap \in Nat
          /\ MidLen' = MidLen /\ MidCap' = MidCap /\ hh_len' = hh_len
          /\ lowrank_enabled' = lowrank_enabled /\ hh_enabled' = hh_enabled
          /\ arm' = arm
      BY <2>1 DEF IInv, TypeOK, PostUpdateLengths, ValidArm, tiers, MidCap,
                  MidLen, HhAttendedLen, lowrank_enabled, hh_enabled
    <3>1. CASE ~lowrank_enabled
      BY <2>1, <3>0, <3>1 DEF PostUpdateLengths, Predicts
    <3>2. CASE lowrank_enabled /\ hh_enabled /\ ~arm.hh_retain
      <4>1. /\ pred.pool = Lesser(arm.hh_budget, hh_len + d)
            /\ pred.mid = Lesser(MidCap, MidLen + (hh_len + d - pred.pool))
        BY <2>1, <3>2 DEF Predicts
      <4>2. pred.pool >= 0
        BY <3>0, <4>1 DEF Lesser
      <4>3. /\ pred'.pool = Lesser(arm.hh_budget, pred.pool + b)
            /\ pred'.mid = Lesser(MidCap, pred.mid + (pred.pool + b - pred'.pool))
        BY <3>2, <4>2 DEF PostUpdateLengths
      <4>4. /\ pred'.pool = Lesser(arm.hh_budget, hh_len + (d + b))
            /\ pred'.mid = Lesser(MidCap, MidLen + (hh_len + (d + b) - pred'.pool))
        <5> HIDE DEF d, b
        <5> QED BY <3>0, <4>1, <4>3 DEF Lesser
      <4> QED BY <2>2, <3>0, <3>2, <4>4 DEF Predicts
    <3>3. CASE lowrank_enabled /\ ~(hh_enabled /\ ~arm.hh_retain)
      <4>1. pred.pool = -1 /\ pred.mid = Lesser(MidCap, MidLen + d)
        BY <2>1, <3>3 DEF Predicts
      <4>2. pred'.pool = -1 /\ pred'.mid = Lesser(MidCap, pred.mid + b)
        BY <3>3, <4>1 DEF PostUpdateLengths
      <4>3. pred'.mid = Lesser(MidCap, MidLen + (d + b))
        <5> HIDE DEF d, b
        <5> QED BY <3>0, <4>1, <4>2 DEF Lesser
      <4> QED BY <2>2, <3>0, <3>3, <4>2, <4>3 DEF Predicts
    <3> QED BY <3>1, <3>2, <3>3
  <2> QED BY <2>1, <2>2, <2>3, <2>4, <2>5 DEF PredictionInv, Predicting
<1> QED BY <1>1, <1>2, <1>3 DEF IInv

(* The prediction, done, is what the forward will attend.                  *)
LEMMA ReportMaskSizesKeeps ==
  ASSUME IInv, ReportMaskSizes
  PROVE  IInv'
<1>0. ValidArm(arm)
  BY ArmIsValid DEF IInv
<1> USE <1>0
<1>1. TypeOK'
  BY DEF IInv, TypeOK, ReportMaskSizes, tiers, answer, ValidArm
<1>2. PhaseInv' /\ HistoryInv'
  BY DEF IInv, TypeOK, PhaseInv, HistoryInv, NothingLostEarly, Lost, Given,
         ReportMaskSizes, tiers, answer, lowrank_enabled, hh_enabled
<1>3. PredictionInv'
  <2>1. /\ Due \in Nat /\ Multiple(Due) /\ Predicts(Due)
        /\ Due > 0 => pred.recent >= arm.recent_window
    BY DEF IInv, PredictionInv, Predicting, ReportMaskSizes
  <2>2. /\ arm' = arm /\ mode' = mode /\ pred' = pred
        /\ cumulative_length' = cumulative_length /\ sink_len' = sink_len
        /\ mode = "normal" /\ cumulative_length > 0 /\ pc' = "ready"
    BY DEF IInv, PhaseInv, ReportMaskSizes, tiers
  <2>3. Due' = Due
    BY DEF ReportMaskSizes, tiers, Due
  <2>4. Multiple(Due)'
    BY <2>1, <2>2, <2>3 DEF Multiple
  <2>5. Predicts(Due)'
    BY <2>1, <2>3 DEF ReportMaskSizes, tiers, Predicts, lowrank_enabled,
       hh_enabled, MidCap, MidLen, HhAttendedLen
  <2>6. pred'.recent < AbsorbAt' /\ kv_length' = (sink_len + pred.mid + pred.recent)'
    BY <2>2 DEF ReportMaskSizes, AbsorbAt
  <2> QED BY <2>1, <2>2, <2>3, <2>4, <2>5, <2>6 DEF PredictionInv, Predicting
<1> QED BY <1>1, <1>2, <1>3 DEF IInv

-----------------------------------------------------------------------------
(* Absorbing a block keeps the lengths the prediction counts on.           *)
LEMMA AbsorbBlockIntoStreamKeeps ==
  ASSUME IInv, AbsorbBlockIntoStream
  PROVE  IInv'
<1> DEFINE b == arm.absorb_block
           tail == arm.coord_budget + arm.quant_budget
<1>0. ValidArm(arm)
  BY ArmIsValid DEF IInv
<1>1. /\ recent_len >= AbsorbAt /\ recent_len' = recent_len - b
      /\ arm' = arm /\ mode' = mode /\ pc' = pc /\ pc \in {"decode", "consolidate"}
      /\ cumulative_length' = cumulative_length /\ sink_len' = sink_len
      /\ left' = left /\ query_length' = query_length /\ pred' = pred
      /\ kv_length' = kv_length /\ returned' = returned /\ kernel_mid' = kernel_mid
  BY DEF AbsorbBlockIntoStream, Graduate, report, forward, answer
<1>2. b \in Nat /\ tail \in Nat /\ recent_len' \in Nat /\ recent_len' >= arm.recent_window
  BY <1>0, <1>1 DEF IInv, TypeOK, ValidArm, AbsorbAt
<1>3. /\ f_len' \in 0..arm.coord_budget /\ q_len' \in 0..arm.quant_budget
      /\ hh_len' \in 0..arm.hh_budget
      /\ q_len' > 0 => f_len' = arm.coord_budget
      /\ ~lowrank_enabled => hh_len' = 0 /\ f_len' = 0 /\ q_len' = 0
      /\ ~hh_enabled => hh_len' = 0
      /\ lowrank_enabled =>
           /\ hh_len' = IF hh_enabled THEN Lesser(arm.hh_budget, hh_len + b) ELSE 0
           /\ f_len' + q_len' = Lesser(tail, f_len + q_len + (hh_len + b - hh_len'))
  <2>1. CASE ~lowrank_enabled
    BY <2>1 DEF AbsorbBlockIntoStream, IInv, TypeOK, HistoryInv, hh_enabled
  <2>2. CASE hh_enabled
    <3>1. lowrank_enabled /\ AbsorbBlockSlash(b)
      BY <2>2 DEF AbsorbBlockIntoStream, hh_enabled
    <3> QED BY <1>0, <1>2, <2>2, <3>1, SlashEffect DEF IInv, TypeOK, HistoryInv
  <2>3. CASE lowrank_enabled /\ ~hh_enabled
    <3>1. AbsorbColumns(b) /\ hh_len' = 0 /\ hh_len = 0
      BY <2>3 DEF AbsorbBlockIntoStream, IInv, HistoryInv
    <3> QED BY <1>0, <1>2, <2>3, <3>1, TailEffect DEF IInv, TypeOK, HistoryInv, ValidArm
  <2> QED BY <2>1, <2>2, <2>3 DEF hh_enabled
<1>n. /\ hh_len \in Nat /\ f_len \in Nat /\ q_len \in Nat
      /\ hh_len' \in Nat /\ f_len' \in Nat /\ q_len' \in Nat
      /\ arm.hh_budget \in Nat /\ arm.coord_budget \in Nat
      /\ arm.quant_budget \in Nat
      /\ hh_len <= arm.hh_budget /\ hh_len' <= arm.hh_budget
      /\ f_len <= arm.coord_budget /\ q_len <= arm.quant_budget
      /\ f_len' <= arm.coord_budget /\ q_len' <= arm.quant_budget
  BY <1>0, <1>3 DEF IInv, TypeOK, ValidArm
<1>4. TypeOK'
  BY <1>1, <1>2, <1>3 DEF IInv, TypeOK
<1>5. PhaseInv'
  BY <1>0, <1>1, <1>2, <1>3 DEF IInv, TypeOK, PhaseInv, AbsorbAt, ValidArm
<1>6. HistoryInv'
  <2>1. CASE ~lowrank_enabled
    BY <1>1, <1>2, <1>3, <2>1
       DEF IInv, TypeOK, HistoryInv, NothingLostEarly, Lost, Given,
           lowrank_enabled, hh_enabled
  <2>2. CASE lowrank_enabled
    <3>1. /\ hh_len' + f_len' + q_len' <= hh_len + f_len + q_len + b
          /\ hh_len' + f_len' + q_len' < hh_len + f_len + q_len + b
               => f_len' + q_len' = tail
          /\ f_len + q_len = tail => f_len' + q_len' = tail
      <4>1. CASE hh_enabled
        BY <1>2, <1>n, <1>3, <2>2, <4>1 DEF Lesser
      <4>2. CASE ~hh_enabled
        BY <1>2, <1>n, <1>3, <2>2, <4>2 DEF Lesser, IInv, HistoryInv
      <4> QED BY <4>1, <4>2
    <3>2. Lost' = Lost + (hh_len + f_len + q_len + b - (hh_len' + f_len' + q_len'))
      BY <1>1, <1>2, <1>n DEF IInv, TypeOK, Lost, Given
    <3>3. /\ Lost \in Nat
          /\ Lost > 0 => f_len + q_len = tail
      BY <1>n, <2>2 DEF IInv, HistoryInv, NothingLostEarly
    <3>4. /\ Lost' \in Nat
          /\ Lost' > 0 => f_len' + q_len' = tail
      BY <1>2, <1>n, <3>1, <3>2, <3>3
    <3>5. NothingLostEarly'
      BY <1>1, <1>n, <3>4 DEF NothingLostEarly
    <3> QED BY <1>1, <1>3, <2>2, <3>4, <3>5 DEF HistoryInv, lowrank_enabled, hh_enabled
  <2> QED BY <2>1, <2>2
<1>7. PredictionInv'
  <2>1. CASE pc = "consolidate"
    BY <1>1, <2>1 DEF IInv, PredictionInv, Predicting
  <2>2. CASE pc = "decode"
    <3>1. /\ Due \in Nat /\ Multiple(Due) /\ Predicts(Due)
          /\ Due > 0 => pred.recent >= arm.recent_window
          /\ pred.recent < AbsorbAt /\ kv_length = sink_len + pred.mid + pred.recent
          /\ Due = recent_len - pred.recent
      BY <2>2 DEF IInv, PredictionInv, Predicting, Due
    <3>2. Due > 0
      BY <1>0, <1>1, <3>1 DEF IInv, TypeOK, ValidArm, AbsorbAt
    <3>3. Due >= b /\ Multiple(Due - b)
      BY <1>0, <3>1, <3>2, MultipleMinus
    <3>4. Due' = Due - b /\ Due' \in Nat
      BY <1>1, <1>2, <2>2, <3>1, <3>3 DEF IInv, TypeOK, Due
    <3>5. Multiple(Due)'
      BY <1>1, <3>3, <3>4 DEF Multiple
    <3>6. Predicts(Due)'
      <4> DEFINE d == Due
      <4>0. /\ d \in Nat /\ Due' = d - b /\ d >= b
            /\ hh_len \in Nat /\ f_len \in Nat /\ q_len \in Nat
            /\ hh_len' \in Nat /\ f_len' \in Nat /\ q_len' \in Nat
            /\ arm.hh_budget \in Nat /\ hh_len <= arm.hh_budget
            /\ f_len + q_len <= tail
            /\ arm.coord_budget \in Nat /\ arm.quant_budget \in Nat
            /\ lowrank_enabled' = lowrank_enabled /\ hh_enabled' = hh_enabled
            /\ MidCap' = MidCap
        BY <1>0, <1>1, <1>3, <3>1, <3>3, <3>4
           DEF IInv, TypeOK, ValidArm, lowrank_enabled, hh_enabled, MidCap
      <4>1. CASE ~lowrank_enabled
        BY <1>1, <3>1, <4>0, <4>1 DEF Predicts
      <4>2. CASE lowrank_enabled /\ hh_enabled /\ ~arm.hh_retain
        <5>1. /\ pred.pool = Lesser(arm.hh_budget, hh_len + d)
              /\ pred.mid = Lesser(tail, q_len + f_len + (hh_len + d - pred.pool))
          BY <3>1, <4>0, <4>2 DEF Predicts, MidCap, MidLen, HhAttendedLen
        <5>2. /\ pred.pool = Lesser(arm.hh_budget, hh_len' + (d - b))
              /\ pred.mid = Lesser(tail, q_len' + f_len' + (hh_len' + (d - b) - pred.pool))
          <6>1. /\ hh_len' = Lesser(arm.hh_budget, hh_len + b)
                /\ f_len' + q_len' = Lesser(tail, f_len + q_len + (hh_len + b - hh_len'))
            BY <1>3, <4>2
          <6>2. pred.pool = Lesser(arm.hh_budget, hh_len' + (d - b))
            BY <1>n, <1>2, <4>0, <5>1, <6>1 DEF Lesser
          <6>3. pred.pool \in Nat /\ pred.pool <= hh_len' + (d - b)
            BY <1>n, <1>2, <4>0, <6>2 DEF Lesser
          <6>4. CASE f_len' + q_len' = tail
            BY <1>n, <1>2, <4>0, <5>1, <6>1, <6>3, <6>4 DEF Lesser
          <6>5. CASE f_len' + q_len' = f_len + q_len + (hh_len + b - hh_len')
            BY <1>n, <1>2, <4>0, <5>1, <6>3, <6>5, <6>2
          <6> QED BY <6>1, <6>2, <6>4, <6>5 DEF Lesser
        <5> QED BY <1>1, <4>0, <4>2, <5>2 DEF Predicts, MidCap, MidLen, HhAttendedLen
      <4>3. CASE lowrank_enabled /\ ~(hh_enabled /\ ~arm.hh_retain)
        <5>1. pred.pool = -1 /\ pred.mid = Lesser(MidCap, MidLen + d)
          BY <3>1, <4>3 DEF Predicts
        <5>3. arm.hh_retain
          BY <1>0, <4>3 DEF hh_enabled, ValidArm
        <5>2. /\ MidLen = q_len + f_len + hh_len
              /\ MidLen' = q_len' + f_len' + hh_len'
              /\ MidCap = tail + (IF arm.hh_retain THEN arm.hh_budget ELSE 0)
          BY <1>1, <1>n, <4>0, <4>3, <5>3 DEF MidLen, HhAttendedLen, MidCap
        <5>4. hh_enabled \/ arm.hh_budget = 0
          BY <4>0, <4>3 DEF hh_enabled
        <5>5. pred.mid = Lesser(MidCap, MidLen' + (d - b))
          BY <1>n, <1>2, <1>3, <4>0, <4>3, <5>1, <5>2, <5>3, <5>4 DEF Lesser
        <5> QED BY <1>1, <4>0, <4>3, <5>1, <5>5 DEF Predicts
      <4> QED BY <4>1, <4>2, <4>3
    <3> QED BY <1>1, <2>2, <3>1, <3>4, <3>5, <3>6, <1>2 DEF PredictionInv, Predicting, AbsorbAt
  <2> QED BY <1>1, <2>1, <2>2
<1> QED BY <1>4, <1>5, <1>6, <1>7 DEF IInv
-----------------------------------------------------------------------------
(* Prefill keeps the invariant.                                            *)
LEMMA PrefillKeeps ==
  ASSUME IInv, Prefill
  PROVE  IInv'
<1>0. ValidArm(arm)
  BY ArmIsValid DEF IInv
<1>1. /\ sink_len' = Lesser(arm.n_sink, query_length)
      /\ recent_len' = Lesser(arm.recent_window, query_length - sink_len')
      /\ sink_len' \in 0..arm.n_sink /\ recent_len' \in Nat
      /\ recent_len' <= arm.recent_window
      /\ query_length - sink_len' - recent_len' \in Nat
      /\ hh_len' = 0 /\ f_len' = 0 /\ q_len' = 0
      /\ query_length \in Nat /\ query_length > 0
  BY <1>0 DEF Prefill, Lesser, ValidArm, IInv, TypeOK, PhaseInv
<1>2. /\ left' \in Nat /\ left' <= query_length
      /\ lowrank_enabled => left' = query_length - sink_len' - recent_len'
      /\ ~lowrank_enabled => left' = 0
  BY <1>1 DEF Prefill
<1>3. TypeOK'
  BY <1>1, <1>2 DEF Prefill, report, forward, IInv, TypeOK
<1>4. PhaseInv'
  BY <1>1, <1>2 DEF Prefill, report, forward, IInv, PhaseInv
<1>5. HistoryInv'
  <2>1. Lost' \in Nat /\ (lowrank_enabled => Lost' = 0)
    BY <1>1, <1>2, SMTT(30) DEF Prefill, report, forward, Lost, Given
  <2> QED BY <1>1, <1>2, <2>1
        DEF Prefill, HistoryInv, NothingLostEarly, lowrank_enabled, hh_enabled
<1>6. PredictionInv'
  BY DEF Prefill, report, forward, IInv, TypeOK, PhaseInv, PredictionInv, Predicting,
         AttendedLength, MidLen, HhAttendedLen
<1> QED BY <1>3, <1>4, <1>5, <1>6 DEF IInv

(* A block of the prefill keeps the invariant.                             *)
LEMMA PrefillBlockKeeps ==
  ASSUME IInv, PrefillBlock
  PROVE  IInv'
<1> DEFINE m == Lesser(arm.prefill_block_size, left)
           tail == arm.coord_budget + arm.quant_budget
<1>0. ValidArm(arm)
  BY ArmIsValid DEF IInv
<1>1. m \in Nat /\ m <= left /\ left \in Nat /\ left > 0 /\ left' = left - m
  BY <1>0 DEF PrefillBlock, Lesser, ValidArm, IInv, TypeOK
<1>2. /\ arm' = arm /\ mode' = mode /\ pc = "prefill" /\ pc' = pc
      /\ cumulative_length' = cumulative_length
      /\ sink_len' = sink_len /\ recent_len' = recent_len
      /\ query_length' = query_length /\ pred' = pred /\ kv_length' = kv_length
      /\ returned' = returned /\ kernel_mid' = kernel_mid
  BY DEF PrefillBlock, report, forward, answer
<1>3. lowrank_enabled
  BY <1>1 DEF IInv, HistoryInv
<1>4. /\ f_len' \in 0..arm.coord_budget /\ q_len' \in 0..arm.quant_budget
      /\ hh_len' \in 0..arm.hh_budget
      /\ q_len' > 0 => f_len' = arm.coord_budget
      /\ ~hh_enabled => hh_len' = 0
      /\ f_len' + q_len' = Lesser(tail, f_len + q_len + (hh_len + m - hh_len'))
      /\ hh_len' <= hh_len + m
  <2>1. CASE arm.seed_hh_warmup /\ hh_enabled /\ mode = "ingest"
    <3>1. AbsorbBlockSlash(m)
      BY <2>1 DEF PrefillBlock
    <3>2. hh_len' = Lesser(arm.hh_budget, hh_len + m)
      BY <3>1 DEF AbsorbBlockSlash
    <3>3. hh_len' <= hh_len + m
      BY <1>0, <1>1, <3>2 DEF Lesser, IInv, TypeOK, ValidArm
    <3> QED BY <1>0, <1>1, <2>1, <3>1, <3>3, SlashEffect DEF IInv, TypeOK, HistoryInv
  <2>2. CASE ~(arm.seed_hh_warmup /\ hh_enabled /\ mode = "ingest")
    <3>1. AbsorbColumns(m) /\ hh_len' = hh_len
      BY <2>2 DEF PrefillBlock
    <3>2. hh_len + m - hh_len' = m /\ hh_len' <= hh_len + m
      BY <1>0, <1>1, <3>1 DEF IInv, TypeOK, ValidArm
    <3> QED BY <1>0, <1>1, <3>1, <3>2, TailEffect DEF IInv, TypeOK, HistoryInv
  <2> QED BY <2>1, <2>2
<1>5. /\ hh_len \in Nat /\ f_len \in Nat /\ q_len \in Nat
      /\ hh_len' \in Nat /\ f_len' \in Nat /\ q_len' \in Nat
      /\ arm.coord_budget \in Nat /\ arm.quant_budget \in Nat
      /\ f_len <= arm.coord_budget /\ q_len <= arm.quant_budget
      /\ f_len' <= arm.coord_budget /\ q_len' <= arm.quant_budget
  BY <1>0, <1>4 DEF IInv, TypeOK, ValidArm
<1>6. TypeOK' /\ PhaseInv'
  BY <1>1, <1>2, <1>4 DEF IInv, TypeOK, PhaseInv
<1>7. HistoryInv'
  <2>1. /\ hh_len' + f_len' + q_len' <= hh_len + f_len + q_len + m
        /\ hh_len' + f_len' + q_len' < hh_len + f_len + q_len + m
             => f_len' + q_len' = tail
        /\ f_len + q_len = tail => f_len' + q_len' = tail
    BY <1>1, <1>4, <1>5 DEF Lesser
  <2>2. Lost' = Lost + (hh_len + f_len + q_len + m - (hh_len' + f_len' + q_len'))
    BY <1>1, <1>2, <1>5 DEF IInv, TypeOK, Lost, Given
  <2>3. /\ Lost \in Nat
        /\ Lost > 0 => f_len + q_len = tail
    BY <1>3, <1>5 DEF IInv, HistoryInv, NothingLostEarly
  <2>4. /\ Lost' \in Nat
        /\ Lost' > 0 => f_len' + q_len' = tail
    BY <1>1, <1>5, <2>1, <2>2, <2>3
  <2>5. NothingLostEarly'
    BY <1>2, <1>5, <2>4 DEF NothingLostEarly
  <2> QED BY <1>2, <1>3, <1>4, <2>4, <2>5 DEF HistoryInv, lowrank_enabled, hh_enabled
<1>8. PredictionInv'
  BY <1>2 DEF IInv, PredictionInv, Predicting
<1> QED BY <1>6, <1>7, <1>8 DEF IInv

(* The end of a prefill keeps the invariant.                               *)
LEMMA PrefillReturnKeeps ==
  ASSUME IInv, PrefillReturn
  PROVE  IInv'
<1>0. ValidArm(arm)
  BY ArmIsValid DEF IInv
<1>1. TypeOK' /\ PhaseInv'
  BY <1>0, MaxTokensAssumption
  DEF PrefillReturn, ForwardEnds, NoPrediction, tiers, IInv, TypeOK, PhaseInv
<1>2. HistoryInv'
  BY <1>0 DEF PrefillReturn, ForwardEnds, tiers, IInv, TypeOK, PhaseInv, HistoryInv,
              NothingLostEarly, Lost, Given, lowrank_enabled, hh_enabled
<1>3. PredictionInv'
  BY DEF PrefillReturn, ForwardEnds, IInv, TypeOK, PredictionInv, Predicting
<1> QED BY <1>1, <1>2, <1>3 DEF IInv

(* The two harness paths attend the stored tiers beside the chunk itself.  *)
LEMMA ScoreForwardKeeps ==
  ASSUME IInv, ScoreForward
  PROVE  IInv'
<1>0. ValidArm(arm)
  BY ArmIsValid DEF IInv
<1>1. TypeOK' /\ PhaseInv'
  BY <1>0, MaxTokensAssumption
  DEF ScoreForward, ForwardEnds, NoPrediction, tiers, IInv, TypeOK, PhaseInv,
              AttendedLength, MidLen, HhAttendedLen, ValidArm
<1>2. HistoryInv'
  BY <1>0 DEF ScoreForward, ForwardEnds, tiers, IInv, TypeOK, PhaseInv, HistoryInv,
              NothingLostEarly, Lost, Given, lowrank_enabled, hh_enabled
<1>3. PredictionInv'
  <2>1. kv_length = AttendedLength + query_length
    BY DEF ScoreForward, IInv, PredictionInv, Predicting
  <2> QED BY <2>1 DEF ScoreForward, ForwardEnds, IInv, TypeOK, PredictionInv,
                      Predicting
<1> QED BY <1>1, <1>2, <1>3 DEF IInv

(* An ingested chunk keeps the invariant.                                  *)
LEMMA IngestChunkKeeps ==
  ASSUME IInv, IngestChunk
  PROVE  IInv'
<1>0. ValidArm(arm)
  BY ArmIsValid DEF IInv
<1>1. TypeOK' /\ PhaseInv'
  BY <1>0, MaxTokensAssumption
  DEF IngestChunk, ForwardEnds, NoPrediction, tiers, IInv, TypeOK, PhaseInv,
              AttendedLength, MidLen, HhAttendedLen, ValidArm
<1>2. HistoryInv'
  BY <1>0 DEF IngestChunk, ForwardEnds, tiers, IInv, TypeOK, PhaseInv, HistoryInv,
              NothingLostEarly, Lost, Given, lowrank_enabled, hh_enabled
<1>3. PredictionInv'
  <2>1. kv_length = AttendedLength + query_length
    BY DEF IngestChunk, IInv, PredictionInv, Predicting
  <2> QED BY <2>1 DEF IngestChunk, ForwardEnds, IInv, TypeOK, PredictionInv,
                      Predicting
<1> QED BY <1>1, <1>2, <1>3 DEF IInv

-----------------------------------------------------------------------------
(* A decode step keeps the invariant.                                      *)
LEMMA DecodeStepKeeps ==
  ASSUME IInv, DecodeStep
  PROVE  IInv'
<1>0. ValidArm(arm)
  BY ArmIsValid DEF IInv
<1>1. /\ arm' = arm /\ mode' = mode /\ mode = "normal" /\ pc = "ready"
      /\ pc' = "decode" /\ recent_len' = recent_len + query_length
      /\ query_length = 1 /\ cumulative_length > 0
      /\ cumulative_length' = cumulative_length + 1
      /\ sink_len' = sink_len /\ hh_len' = hh_len /\ f_len' = f_len
      /\ q_len' = q_len /\ left' = left /\ query_length' = query_length
      /\ pred' = pred /\ kv_length' = kv_length /\ returned' = returned
  BY DEF DecodeStep, report, forward
<1>2. TypeOK' /\ PhaseInv'
  BY <1>0, <1>1 DEF DecodeStep, IInv, TypeOK, PhaseInv
<1>3. HistoryInv'
  BY <1>0, <1>1 DEF IInv, TypeOK, PhaseInv, HistoryInv,
              NothingLostEarly, Lost, Given, lowrank_enabled, hh_enabled
<1>4. PredictionInv'
  <2>1. /\ Due \in Nat /\ Multiple(Due) /\ Predicts(Due)
        /\ Due > 0 => pred.recent >= arm.recent_window
        /\ pred.recent < AbsorbAt
        /\ kv_length = sink_len + pred.mid + pred.recent
    BY <1>1 DEF IInv, PredictionInv, Predicting
  <2>2. Due' = Due
    BY <1>1 DEF Due
  <2>3. Multiple(Due)'
    BY <1>1, <2>1, <2>2 DEF Multiple
  <2>4. Predicts(Due)'
    BY <1>1, <2>1, <2>2 DEF Predicts, lowrank_enabled, hh_enabled, MidCap,
                            MidLen, HhAttendedLen
  <2> QED BY <1>1, <2>1, <2>2, <2>3, <2>4 DEF PredictionInv, Predicting, AbsorbAt
<1> QED BY <1>2, <1>3, <1>4 DEF IInv

(* Both loops have stopped a whole number of blocks apart and below one    *)
(* block from the threshold: they stopped at the same place.               *)
LEMMA NothingDue ==
  ASSUME IInv, pc = "decode", recent_len < AbsorbAt
  PROVE  Due = 0 /\ Predicts(0)
<1>0. ValidArm(arm)
  BY ArmIsValid DEF IInv
<1>1. /\ Due \in Nat /\ Multiple(Due) /\ Predicts(Due)
      /\ Due > 0 => pred.recent >= arm.recent_window
      /\ Due = recent_len - pred.recent
  BY DEF IInv, PredictionInv, Predicting, Due
<1>2. Due > 0 => Due >= arm.absorb_block
  BY <1>0, <1>1, MultipleMinus
<1>3. Due = 0
  BY <1>0, <1>1, <1>2 DEF IInv, TypeOK, ValidArm, AbsorbAt
<1> QED BY <1>1, <1>3

(* The decode step returns what was predicted.                             *)
LEMMA DecodeReturnKeeps ==
  ASSUME IInv, DecodeReturn
  PROVE  IInv'
<1>0. ValidArm(arm)
  BY ArmIsValid DEF IInv
<1>1. TypeOK' /\ PhaseInv'
  BY <1>0, MaxTokensAssumption
  DEF DecodeReturn, ForwardEnds, NoPrediction, tiers, IInv, TypeOK, PhaseInv,
              AttendedLength, MidLen, HhAttendedLen, ValidArm
<1>2. HistoryInv'
  BY <1>0 DEF DecodeReturn, ForwardEnds, tiers, IInv, TypeOK, PhaseInv, HistoryInv,
              NothingLostEarly, Lost, Given, lowrank_enabled, hh_enabled
<1>3. PredictionInv'
  <2>1. /\ Due = 0 /\ Predicts(0) /\ Due = recent_len - pred.recent
        /\ kv_length = sink_len + pred.mid + pred.recent
    BY NothingDue DEF DecodeReturn, IInv, PredictionInv, Predicting, Due
  <2>2. pred.mid = MidLen
    <3>1. /\ hh_len \in 0..arm.hh_budget /\ f_len \in 0..arm.coord_budget
          /\ q_len \in 0..arm.quant_budget
          /\ ~lowrank_enabled => hh_len = 0 /\ f_len = 0 /\ q_len = 0
      BY DEF IInv, TypeOK, HistoryInv
    <3> QED BY <1>0, <2>1, <3>1 DEF Predicts, Lesser, MidCap, MidLen, HhAttendedLen,
                                    ValidArm
  <2>3. kv_length = AttendedLength
    BY <2>1, <2>2 DEF AttendedLength, IInv, TypeOK
  <2>4. returned' + kernel_mid' = AttendedLength
    BY DEF DecodeReturn, AttendedLength, MidLen, HhAttendedLen, IInv, TypeOK
  <2> QED BY <2>3, <2>4 DEF DecodeReturn, ForwardEnds, PredictionInv, Predicting
<1> QED BY <1>1, <1>2, <1>3 DEF IInv

(* A rejected continuation leaves the lengths.                             *)
LEMMA UpdateRejectedKeeps ==
  ASSUME IInv, UpdateRejected
  PROVE  IInv'
<1>1. TypeOK' /\ PhaseInv'
  BY MaxTokensAssumption DEF UpdateRejected, ForwardEnds, NoPrediction, tiers,
     IInv, TypeOK, PhaseInv
<1>2. HistoryInv'
  BY DEF UpdateRejected, ForwardEnds, tiers, IInv, TypeOK, PhaseInv, HistoryInv,
         NothingLostEarly, Lost, Given, lowrank_enabled, hh_enabled
<1>3. PredictionInv'
  BY DEF UpdateRejected, ForwardEnds, PredictionInv, Predicting
<1> QED BY <1>1, <1>2, <1>3 DEF IInv

-----------------------------------------------------------------------------
(* The calls between forwards leave the tiers alone, or empty them.        *)
LEMMA IdleCallsKeep ==
  ASSUME IInv,
         \/ Consolidate
         \/ ConsolidateReturn
         \/ \E m \in Modes : SetMode(m)
  PROVE  IInv'
<1>1. /\ arm' = arm /\ cumulative_length' = cumulative_length
      /\ sink_len' = sink_len /\ recent_len' = recent_len /\ hh_len' = hh_len
      /\ f_len' = f_len /\ q_len' = q_len /\ left' = left
      /\ query_length' = query_length /\ pred' = pred /\ kv_length' = kv_length
      /\ returned' = returned /\ kernel_mid' = kernel_mid
      /\ mode' \in Modes
      /\ pc \in {"idle", "consolidate"} /\ pc' \in {"idle", "consolidate"}
  BY DEF Consolidate, ConsolidateReturn, SetMode, tiers, report, forward, answer,
         IInv, TypeOK
<1>2. TypeOK' /\ PhaseInv'
  BY <1>1 DEF IInv, TypeOK, PhaseInv
<1>3. HistoryInv'
  BY <1>1 DEF IInv, TypeOK, HistoryInv, NothingLostEarly, Lost, Given, lowrank_enabled,
              hh_enabled
<1>4. PredictionInv'
  BY <1>1 DEF IInv, PredictionInv, Predicting
<1> QED BY <1>2, <1>3, <1>4 DEF IInv

(* Resetting keeps the invariant.                                          *)
LEMMA ResetKeeps ==
  ASSUME IInv, Reset
  PROVE  IInv'
<1>0. ValidArm(arm) /\ MaxTokens \in Nat
  BY ArmIsValid, MaxTokensAssumption DEF IInv
<1> QED BY <1>0 DEF Reset, IInv, TypeOK, PhaseInv, HistoryInv, PredictionInv, Predicting,
     NothingLostEarly, Lost, Given, lowrank_enabled, hh_enabled, ValidArm, Modes

(* Every step keeps the invariant.                                         *)
LEMMA StepKeeps == IInv /\ [Next]_vars => IInv'
<1> SUFFICES ASSUME IInv, [Next]_vars
             PROVE  IInv'
  OBVIOUS
<1>1. ASSUME NEW n \in 1..MaxTokens, GetMaskSizes(n) PROVE IInv'
  BY <1>1, GetMaskSizesKeeps
<1>2. CASE Running
  BY <1>2, PostUpdateLengthsKeeps, ReportMaskSizesKeeps, AbsorbBlockIntoStreamKeeps,
     PrefillKeeps, PrefillBlockKeeps, PrefillReturnKeeps, ScoreForwardKeeps,
     IngestChunkKeeps, DecodeStepKeeps, DecodeReturnKeeps, UpdateRejectedKeeps,
     IdleCallsKeep DEF Running
<1>3. CASE Consolidate \/ \E m \in Modes : SetMode(m)
  BY <1>3, IdleCallsKeep
<1>4. CASE Reset
  BY <1>4, ResetKeeps
<1>5. CASE UNCHANGED vars
  <2>1. UNCHANGED <<arm, mode, pc, cumulative_length, sink_len, recent_len, hh_len,
                    f_len, q_len, left, query_length, pred, kv_length, returned,
                    kernel_mid>>
    BY <1>5 DEF vars, tiers, report, forward, answer
  <2>2. TypeOK' /\ PhaseInv'
    BY <2>1 DEF IInv, TypeOK, PhaseInv
  <2>3. HistoryInv'
    BY <2>1 DEF IInv, HistoryInv, NothingLostEarly, Lost, Given, lowrank_enabled,
                hh_enabled
  <2>4. PredictionInv'
    BY <2>1 DEF IInv, PredictionInv, Predicting, Due, Multiple, Predicts, MidCap,
       AttendedLength, MidLen, HhAttendedLen, AbsorbAt, lowrank_enabled, hh_enabled
  <2> QED BY <2>2, <2>3, <2>4 DEF IInv
<1> QED BY <1>1, <1>2, <1>3, <1>4, <1>5 DEF Next

-----------------------------------------------------------------------------
(* The inductive invariant holds in every reachable state.                 *)
THEOREM Inductive == Spec => []IInv
BY InitIInv, StepKeeps, PTL DEF Spec

(* Every variable keeps its shape and no tier outgrows its budget: what    *)
(* _enforce_budgets and the exact tier's keep_n owe, for every stream.     *)
THEOREM TypeCorrect == Spec => []TypeOK
<1>1. IInv => TypeOK
  BY DEF IInv
<1> QED BY <1>1, Inductive, PTL

(* get_mask_sizes and update() agree on the number of keys of every        *)
(* forward, for every layer configuration and every sequence of calls.     *)
THEOREM MaskCorrect == Spec => []MaskAgrees
<1>1. IInv => MaskAgrees
  BY DEF IInv, PredictionInv, MaskAgrees
<1> QED BY <1>1, Inductive, PTL

(* While a tier has room the layer holds every token it was ever given.    *)
THEOREM HistoryKept == Spec => []NothingLostEarly
<1>1. IInv => NothingLostEarly
  BY DEF IInv, HistoryInv
<1> QED BY <1>1, Inductive, PTL

(* The block update() returns starts at or after the stream's beginning:   *)
(* kv_offset, computed before the absorb runs, is never negative.          *)
THEOREM OffsetCorrect == Spec => []OffsetInPast
<1>1. IInv => OffsetInPast
  <2> SUFFICES ASSUME IInv, pc = "ready"
               PROVE  kv_length <= cumulative_length + query_length
    BY DEF OffsetInPast
  <2>0. ValidArm(arm)
    BY ArmIsValid DEF IInv
  <2>1. /\ sink_len \in Nat /\ recent_len \in Nat /\ hh_len \in Nat
        /\ f_len \in Nat /\ q_len \in Nat /\ cumulative_length \in Nat
        /\ query_length \in Nat
        /\ hh_len <= arm.hh_budget
        /\ sink_len + recent_len + hh_len + f_len + q_len <= cumulative_length
    BY <2>0 DEF IInv, TypeOK, HistoryInv, Lost, Given
  <2>2. MidLen \in Nat /\ MidLen <= hh_len + f_len + q_len
    BY <2>1 DEF MidLen, HhAttendedLen
  <2>3. CASE ~Predicting
    BY <2>1, <2>2, <2>3 DEF IInv, PredictionInv, AttendedLength
  <2>4. CASE Predicting
    <3>1. /\ Due \in Nat /\ Predicts(Due)
          /\ kv_length = sink_len + pred.mid + pred.recent
          /\ Due = recent_len + query_length - pred.recent
          /\ pred.recent \in Nat /\ pred.mid \in Nat
      BY <2>4 DEF IInv, TypeOK, PredictionInv, Due
    <3>2. pred.mid <= hh_len + f_len + q_len + Due
      <4>1. CASE ~lowrank_enabled
        BY <2>1, <3>1, <4>1 DEF Predicts
      <4>2. CASE lowrank_enabled /\ hh_enabled /\ ~arm.hh_retain
        <5>1. /\ pred.pool = Lesser(arm.hh_budget, hh_len + Due)
              /\ pred.mid = Lesser(MidCap, MidLen + (hh_len + Due - pred.pool))
              /\ MidLen = f_len + q_len
          BY <2>1, <3>1, <4>2 DEF Predicts, MidLen, HhAttendedLen
        <5>2. arm.hh_budget \in Nat /\ MidCap \in Nat /\ pred.pool \in Nat
          BY <2>0, <2>1, <3>1, <5>1 DEF ValidArm, MidCap, Lesser
        <5> QED BY <2>1, <3>1, <5>1, <5>2 DEF Lesser
      <4>3. CASE lowrank_enabled /\ ~(hh_enabled /\ ~arm.hh_retain)
        <5>1. pred.mid = Lesser(MidCap, MidLen + Due) /\ MidCap \in Nat
          BY <2>0, <3>1, <4>3 DEF Predicts, MidCap, ValidArm
        <5> QED BY <2>1, <2>2, <3>1, <5>1 DEF Lesser
      <4> QED BY <4>1, <4>2, <4>3
    <3> QED BY <2>1, <3>1, <3>2
  <2> QED BY <2>3, <2>4
<1> QED BY <1>1, Inductive, PTL

(* Constant memory: whatever the stream, the columns held when a pre-fill, *)
(* a decode step or a consolidation returns fit the configured budgets.    *)
THEOREM MemoryBounded == Spec => ConstantMemory
<1>1. IInv /\ [Next]_vars => [BoundedOnReturn]_vars
  <2> SUFFICES ASSUME IInv, Next, pc \in {"prefill", "decode", "consolidate"},
                      pc' = "idle"
               PROVE  (sink_len + hh_len + f_len + q_len + recent_len)' <= StoredBound
    BY DEF BoundedOnReturn
  <2>0. ValidArm(arm)
    BY ArmIsValid DEF IInv
  <2>1. \/ PrefillReturn \/ DecodeReturn \/ ConsolidateReturn
    BY DEF Next, Running, GetMaskSizes, PostUpdateLengths, ReportMaskSizes,
           AbsorbBlockIntoStream, Graduate, Prefill, PrefillBlock, ScoreForward, IngestChunk,
           DecodeStep, UpdateRejected, Consolidate, SetMode, Reset
  <2>2. /\ sink_len' = sink_len /\ hh_len' = hh_len /\ f_len' = f_len
        /\ q_len' = q_len /\ recent_len' = recent_len
    BY <2>1 DEF PrefillReturn, DecodeReturn, ConsolidateReturn, tiers
  <2>3. recent_len <= arm.recent_window + arm.absorb_block - 1
    BY <2>0, <2>1 DEF PrefillReturn, DecodeReturn, ConsolidateReturn, IInv, TypeOK,
                      PhaseInv, ValidArm, AbsorbAt
  <2> QED BY <2>0, <2>2, <2>3 DEF IInv, TypeOK, ValidArm, StoredBound
<1> QED BY <1>1, Inductive, PTL DEF Spec, ConstantMemory
=============================================================================
