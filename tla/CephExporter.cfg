\* Two metrics of a common rule and one of an RGW rule that is off.
CONSTANTS
    Rules = {"osd", "rgw"}
    Target <- TwoTargets
    Metrics <- TwoMetrics
    Options = {}
    MaxFailures = 2
    MaxFaults = 1
SPECIFICATION FairSpec
INVARIANTS ScrapeShowsOneUpdate GapsAreCounted
PROPERTIES MetricsComeBack
