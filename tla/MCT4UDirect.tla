----------------------------- MODULE MCT4UDirect -----------------------------
EXTENDS T4UDirect

MCRanges == {1}
MCRates == {2}
MCAfterRate == -2

One == [selected |-> "cw", pulsed |-> "", complete |-> {"cw"}]
Both == [selected |-> "cw", pulsed |-> "trigger", complete |-> {"cw", "trigger"}]

Scenario(settings, emits, file) == [settings |-> settings, emits |-> emits, file |-> file]

MCScenarios ==
  {Scenario({<<"Range", 0>>, <<"Range", 3>>, <<"WaitStateMode", 2>>}, {"readings"}, Both),
   Scenario({<<"SampleFreq", 1>>, <<"AveragingTime", 2>>}, {"bad"}, One),
   Scenario({<<"DACMode", 10>>, <<"BiasPVoltage", 9>>}, {}, One),
   Scenario({<<"PosTrackMode", 1>>, <<"PIDEn", 1>>}, {}, One),
   Scenario({<<"BiasN", 1>>, <<"WaitStateMode", 1>>}, {}, Both),
   Scenario({<<"PIDXSp", -250>>, <<"PIDX_VScale", 1234>>}, {}, One)}
=============================================================================
